-------------------------- MODULE MCIngestPipeline --------------------------
(* IngestPipeline with two files of the same content.                      *)
EXTENDS IngestPipeline, TLC

CONSTANTS d1, d2, f1, f2, f3

\* Two files with the same content.
TwinDocOf == (f1 :> d1) @@ (f2 :> d1)

\* A third one with another content.
MixedDocOf == (f1 :> d1) @@ (f2 :> d1) @@ (f3 :> d2)

\* Assessments agree on where a document belongs, but may fail.
SteadyVerdicts == [d \in Doc |-> {"archive", "failed"}]

\* Assessments of the first document may fail, those of the second never do.
MixedVerdicts == [d \in Doc |-> IF d = d1 THEN {"archive", "failed"} ELSE {"quarantine"}]

AnyVerdicts == [d \in Doc |-> Outcome]

\* Assessments always end, but may disagree.
FilingVerdicts == [d \in Doc |-> Filing]
=============================================================================
