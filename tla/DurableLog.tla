----------------------------- MODULE DurableLog -----------------------------
(***************************************************************************)
(* What a checkpointing NTCF writer promises (the comments of              *)
(* Writer.Checkpoint in pkg/ntcf/writer.go and of RecoverFooter in         *)
(* internal/format/recover.go): records form a log, a checkpoint makes all *)
(* of it durable at once, and a crash loses exactly what no checkpoint     *)
(* covered.                                                                *)
(***************************************************************************)
EXTENDS Naturals, Sequences

CONSTANT Record

VARIABLES
    log,      \* the records taken so far, in order
    durable,  \* how many of them a crash cannot lose
    up        \* the writer is running

vars == <<log, durable, up>>

TypeOK ==
    /\ log \in Seq(Record)
    /\ durable \in 0 .. Len(log)
    /\ up \in BOOLEAN

Init ==
    /\ log = <<>>
    /\ durable = 0
    /\ up = TRUE

Add(r) ==
    /\ up
    /\ log' = Append(log, r)
    /\ UNCHANGED <<durable, up>>

Commit ==
    /\ up
    /\ durable' = Len(log)
    /\ UNCHANGED <<log, up>>

Crash ==
    /\ up
    /\ up' = FALSE
    /\ log' = SubSeq(log, 1, durable)
    /\ UNCHANGED durable

Next ==
    \/ \E r \in Record : Add(r)
    \/ Commit
    \/ Crash

Spec == Init /\ [][Next]_vars
=============================================================================
