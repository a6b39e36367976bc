------------------------------ MODULE MCTaskDb ------------------------------
(***************************************************************************)
(* A job of one segment and one keccak proof: two proofs in streams of     *)
(* their own, and the resolve task that waits for both.                    *)
(***************************************************************************)
EXTENDS TaskDb

CONSTANTS init, segment, keccak, resolve,   \* tasks
          exec, prove, coproc,              \* streams
          e1, e2, p1, c1                    \* agents

MCTask    == {init, segment, keccak, resolve}
MCPlan    == <<segment, keccak, resolve>>
MCPrereqs == [t \in MCTask |-> IF t = resolve THEN {segment, keccak} ELSE {}]
MCStream  == {exec, prove, coproc}

\* Without JOIN_STREAM the resolve task goes to the prove stream.
MCStreamOf == [t \in MCTask |->
    CASE t = init -> exec [] t = keccak -> coproc [] OTHER -> prove]

\* Two executors, so that a requeued init meets its first run.
MCAgent    == {e1, e2, p1, c1}
MCServedBy == [a \in MCAgent |->
    CASE a \in {e1, e2} -> exec [] a = p1 -> prove [] OTHER -> coproc]

MCMaxRetries == [t \in MCTask |-> IF t = keccak THEN 0 ELSE 1]

=============================================================================
