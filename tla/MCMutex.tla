------------------------------ MODULE MCMutex -------------------------------
(* The mutex device, and with it what else is put off and must go on in the  *)
(* end: a mutex in three instances (CW and PR, asked for in order of arrival *)
(* or not; requests that are aborted; modes that are totally ordered), an    *)
(* event flag, and threads that share cpus.  "part" says which of them runs. *)
EXTENDS MCMutexDev

VARIABLES
  part,
  value, refcount, evcbs, eventlists, onhiq, evlock, freed, hiq, lowipl, at, state, todo, linked,
  mine, work, hasref, cbs, cbev, flagcrashed,
  threadstate, cpuidx, curprio, threadqcom, curthreads, curprios, resched, quantum, expired,
  nthread, handlingint, place, flag, setter, asts, astmode, byhw, renicing, moving,
  threadcrashed

flagVars == <<value, refcount, evcbs, eventlists, onhiq, evlock, freed, hiq, lowipl, at, state,
              todo, linked, mine, work, hasref, cbs, cbev, flagcrashed>>
threadVars == <<threadstate, cpuidx, curprio, threadqcom, curthreads, curprios, resched, quantum,
                expired, nthread, handlingint, place, flag, setter, asts, astmode, byhw, renicing,
                moving, threadcrashed>>

Aborted == INSTANCE MutexDev WITH Expresses <- {TRUE}, Aborts <- TRUE, MaxWaiting <- 2

(* The modes are totally ordered, all requests are express, none is aborted. *)
Ordered == INSTANCE MutexDev WITH Asked <- OrderModes, Expresses <- {TRUE}

(* Two users of a flag that is set, cleared and incremented, and a cpu. *)
Flag == INSTANCE EventFlag WITH
  Events <- {"e"}, Users <- {"u", "v"}, Cpus <- {"cpu"}, Cbs <- {"cb"}, Values <- {0, 1},
  Incs <- {1, -1}, MaxValue <- 1, crashed <- flagcrashed

(* Threads of one priority that only compute, one of which exits. *)
Sharing == INSTANCE Scheduler WITH
  Threads <- {"a", "b", "d"}, Cpus <- {"cpu", "cpv"}, Base <- [t \in {"a", "b", "d"} |-> 1],
  MaxAsts <- 0, Sleepers <- {}, Targets <- {}, Inhibitors <- {}, Reniced <- {}, NewPrios <- {},
  Mortals <- {"d"}, pos <- place, state <- threadstate, crashed <- threadcrashed

MCInit == /\ part \in {"plain", "aborted", "ordered", "flag", "threads"}
          /\ Init /\ Flag!Init /\ Sharing!Init
          /\ part # "threads" => curthreads["cpu"] = "a" /\ curthreads["cpv"] = "b"

MCNext ==
  /\ UNCHANGED part
  /\ \/ /\ \/ part = "plain" /\ Next
           \/ part = "aborted" /\ Aborted!Next
           \/ part = "ordered" /\ Ordered!Next
        /\ UNCHANGED <<flagVars, threadVars>>
     \/ part = "flag" /\ Flag!Next /\ UNCHANGED <<vars, threadVars>>
     \/ part = "threads" /\ Sharing!Next /\ UNCHANGED <<vars, flagVars>>

(* The fairness of each component, that of Fairness in its module; threads   *)
(* that only compute leave softints delivered, so that WF is enough for them.*)
In(p, step) == part = p /\ step

MCFairness ==
  /\ WF_vars(In("ordered", Ordered!Loop))
  /\ \A u \in {"u", "v"} : WF_flagVars(In("flag", Flag!UserStep(u)))
  /\ WF_flagVars(In("flag", Flag!CpuStep("cpu")))
  /\ \A c \in {"cpu", "cpv"} :
       WF_threadVars(In("threads", Sharing!CpuStep(c)))
       /\ WF_threadVars(In("threads", Sharing!Interrupt(c)))
       /\ WF_threadVars(In("threads", Sharing!Expire(c)))

MCSpec == MCInit /\ [][MCNext]_<<part, vars, flagVars, threadVars>> /\ MCFairness

-----------------------------------------------------------------------------
(* setmode's loop moves on, leaves nobody waiting who could go, and ends.    *)
LoopServes == /\ [](part = "ordered" => Ordered!LoopMoves /\ Ordered!NobodyCouldGo)
              /\ part = "ordered" => Ordered!LoopsEnd

(* A flag is freed once nobody can reach it, and then in the end; a callback *)
(* on a flag that stays set is called.                                      *)
FlagServed == []Flag!FreedUnreachable /\ Flag!FreedInTheEnd /\ Flag!CallbackInTheEnd

(* Who wants a cpu gets one. *)
NobodyStarves == part = "threads" => Sharing!NobodyStarves
=============================================================================
