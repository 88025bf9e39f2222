----------------------------- MODULE LossyFeed -----------------------------
(***************************************************************************)
(* What smtfep may rely on in the messages it is given, although nobody    *)
(* numbers them for it: in the order of the files, none twice, and none    *)
(* left out unless it was away.  When the replay is started again the      *)
(* messages come again from the first one on.                              *)
(***************************************************************************)
EXTENDS Naturals, Sequences

CONSTANT MaxRuns

VARIABLES
    counts,     \* how many messages each file holds
    last,       \* the message handled last: run of the replay, file, number
    missed      \* smtfep has been away since

feedVars == <<counts, last, missed>>

MessagesOf(run) == UNION {{[run |-> run, file |-> f, seqn |-> n] : n \in 1 .. counts[f]} :
                            f \in DOMAIN counts}

Before(a, b) == \/ a.run < b.run
                \/ a.run = b.run /\ a.file < b.file
                \/ a.run = b.run /\ a.file = b.file /\ a.seqn < b.seqn

Init == /\ last = [run |-> 1, file |-> 0, seqn |-> 0]
        /\ missed \in BOOLEAN
        /\ counts \in Seq(Nat)

Handle == \E run \in 1 .. MaxRuns : \E m \in MessagesOf(run) :
             /\ Before(last, m)
             /\ missed \/ ~\E x \in MessagesOf(run) : Before(last, x) /\ Before(x, m)
             /\ last' = m /\ missed' = FALSE
             /\ UNCHANGED counts

Away == missed' = TRUE /\ UNCHANGED <<counts, last>>

Next == Handle \/ Away

Spec == Init /\ [][Next]_feedVars
=============================================================================
