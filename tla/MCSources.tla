------------------------------ MODULE MCSources ------------------------------
(***************************************************************************)
(* What executions draw on, for model-checking: the registry that lists    *)
(* their tools, and the RAG engine's cutting and indexing of documents.    *)
(* These components share no state, so a behaviour is one of any of them,  *)
(* the others being left where they begin.                                 *)
(***************************************************************************)
EXTENDS CapabilityRegistry, Chunking, VectorStore

CONSTANTS
    MaxLength,    \* of the texts of any characters
    MaxStretch    \* of the texts with one kind of stop

TextsOf(characters, length) == UNION {[1..n -> characters] : n \in 0..length}

SomeTexts == TextsOf(Characters, MaxLength) \cup TextsOf({"x", "zh"}, MaxStretch)

VARIABLE part    \* the component that takes steps

SourcesInit ==
    /\ part \in {"registry", "chunking", "store"}
    /\ RegistryInit /\ CutInit /\ Init

SourcesNext ==
    /\ UNCHANGED part
    /\ \/ /\ part = "registry" /\ RegistryNext
          /\ UNCHANGED <<cutVars, vars>>
       \/ /\ part = "chunking" /\ CutNext
          /\ UNCHANGED <<registryVars, vars>>
       \/ /\ part = "store" /\ Next
          /\ UNCHANGED <<registryVars, cutVars>>

\* Requests to the servers end, and the loop over a text goes on.
SourcesSpec ==
    /\ SourcesInit
    /\ [][SourcesNext]_<<part, registryVars, cutVars, vars>>
    /\ RegistryFairness
    /\ WF_cutVars(CutOn)
=============================================================================
