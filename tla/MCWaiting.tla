----------------------------- MODULE MCWaiting ------------------------------
(* Threads that wait.  In "locks" three threads wait for a thread lock, whose*)
(* reader count two of them fill.  The others wait for the disk cache: in    *)
(* "flush" two pages are written, in "redirty" one again and again, until the*)
(* volume is dismounted; in "readers" two threads wait for reads of two      *)
(* pages, which may fail; its keys and users are those of all three.         *)
EXTENDS Threadlock

VARIABLES
  part,
  dcpage, old, dirties, writer, collision, flush, counts, diskevent, disksleep, disklink, io,
  reqs, term, spoilt

diskVars == <<dcpage, old, dirties, writer, collision, flush, counts, diskevent, disksleep,
              disklink, io, reqs, term, spoilt>>

Dismount == INSTANCE DiskCache WITH
  Keys <- {1, 2}, Users <- {"u"}, Ops <- {"writew"}, Ranges <- {<<0, 2>>}, None <- "none",
  PageSize <- 4, BlockSize <- 2, Errors <- FALSE, Terminates <- TRUE,
  MaxRefs <- 1, event <- diskevent, asleep <- disksleep, linking <- disklink, at <- reqs

Redirty == INSTANCE DiskCache WITH
  Keys <- {1}, Users <- {"u"}, Ops <- {"writew"}, Ranges <- {<<0, 2>>}, None <- "none",
  PageSize <- 4, BlockSize <- 2, Errors <- FALSE, Terminates <- TRUE,
  MaxRefs <- 3, event <- diskevent, asleep <- disksleep, linking <- disklink, at <- reqs

Readers == INSTANCE DiskCache WITH
  Keys <- {1, 2}, Users <- {"u", "v"}, Ops <- {"readw"}, Ranges <- {<<0, 2>>}, None <- "none",
  PageSize <- 4, BlockSize <- 2, Errors <- TRUE, Terminates <- FALSE,
  MaxRefs <- 2, event <- diskevent, asleep <- disksleep, linking <- disklink, at <- reqs

Over == spoilt \/ term = "freed" \/ Readers!Stranded("terminator")

MCInit == part \in {"locks", "flush", "redirty", "readers"} /\ Init /\ Readers!Init

MCNext ==
  /\ UNCHANGED part
  /\ \/ part = "locks" /\ Next /\ UNCHANGED diskVars
     \/ /\ \/ part = "flush" /\ Dismount!Next
           \/ part = "redirty" /\ Redirty!Next
           \/ part = "readers" /\ Readers!Next
           \/ Over /\ UNCHANGED diskVars
        /\ UNCHANGED vars

(* The fairness of each component, that of Fairness in its module. *)
In(p, step) == part = p /\ step

MCFairness ==
  /\ \A t \in Threads : WF_vars(In("locks", Run(t)))
  /\ WF_diskVars(In("flush", Dismount!Goes("u")) \/ In("redirty", Redirty!Goes("u"))
                  \/ In("readers", Readers!Goes("u")))
  /\ WF_diskVars(In("readers", Readers!Goes("v")))
  /\ WF_diskVars(In("flush", Dismount!Flush) \/ In("redirty", Redirty!Flush))
  /\ WF_diskVars(In("flush", Dismount!Writer) \/ In("redirty", Redirty!Writer))
  /\ WF_diskVars(In("flush", Dismount!Term) \/ In("redirty", Redirty!Term))
  /\ \A u \in {"u", "v"} : WF_diskVars(In("readers", Readers!Served(u)))
  /\ \A k \in {1, 2} : WF_diskVars(In("flush", Dismount!Flushed(k))
                                    \/ In("redirty", Redirty!Flushed(k)))

MCSpec == MCInit /\ [][MCNext]_<<part, vars, diskVars>> /\ MCFairness

-----------------------------------------------------------------------------
(* Whoever waits for the disk goes on, what is dirty is written, and a       *)
(* dismount ends.                                                           *)
DiskServes == Readers!DiskServes
=============================================================================
