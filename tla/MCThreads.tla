----------------------------- MODULE MCThreads ------------------------------
(* Scheduler three times.  "asts" and "quanta": two cpus for a thread that    *)
(* waits, one that only computes, and an idle thread; in "asts" the first   *)
(* gets asts and nobody uses up a quantum, in "quanta" it is the other way.  *)
(* "one": a single cpu (the other one stays with a thread of high priority)  *)
(* for two threads that wait, get and inhibit asts, use up their quanta, set *)
(* priorities and exit.                                                    *)
EXTENDS MCScheduler

VARIABLES part, busy

OneCpu == INSTANCE Scheduler WITH
  Base <- a :> 2 @@ b :> 2 @@ d :> 3, Inhibitors <- {a}, Reniced <- {a, b}, NewPrios <- {1, 2},
  Mortals <- {b}

MCInit == \/ part \in {"asts", "quanta"} /\ busy = {} /\ Init
          \/ /\ part = "one" /\ busy \in {{c} : c \in Cpus} /\ OneCpu!Init
             /\ \A c \in busy : curthreads[c] = d

MCNext ==
  /\ \/ part = "asts" /\ Next /\ UNCHANGED expired
     \/ part = "quanta" /\ Next /\ UNCHANGED asts
     \/ /\ part = "one"
        /\ \/ \E c \in Cpus \ busy : \/ OneCpu!CpuStep(c) \/ OneCpu!Interrupt(c)
                                     \/ OneCpu!Expire(c)
                                     \/ \E t \in Threads : OneCpu!Program(c, t)
           \/ \E t \in Threads : OneCpu!Outside(t)
  /\ UNCHANGED <<part, busy>>

MCSpec == MCInit /\ [][MCNext]_<<vars, part, busy>>

-----------------------------------------------------------------------------
(* In "one" priorities are set. *)
QueueInOrder == part # "one" => QueueSorted

(* In "one" the thread that gets asts enables them itself. *)
AstsInterrupt == part # "one" => AstInterrupts
=============================================================================
