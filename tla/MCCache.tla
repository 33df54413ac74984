------------------------------ MODULE MCCache -------------------------------
(* Instances of the page cache, one after the other; "part" says which,      *)
(* "idle" which of the users stay out.  In "memory" two users and a section  *)
(* compete for fewer pages than are wanted, in all modes and interrupted by  *)
(* asts; in "locks" three users lock pages that are in the cache already,    *)
(* which takes neither NL, which never waits, nor asts, which only wake more *)
(* threads.                                                                 *)
EXTENDS MCPageCache

VARIABLES part, idle

Locks == INSTANCE PageCache WITH Asked <- {"PR", "EX"}, Asts <- FALSE

(* Each key has its page. *)
Loaded ==
  /\ free = {} /\ hash = Pages
  /\ key \in Bijection(Pages, Keys)
  /\ refcount = [p \in Pages |-> 0] /\ lockcount = [p \in Pages |-> 0]
  /\ oldpages \in SetToSeqs(Pages)
  /\ waitingforfreepage = FALSE /\ freepagevent = TRUE
  /\ event = [f \in Flags |-> IF f = "free" THEN 1 ELSE 0]
  /\ asleep = [u \in Procs |-> None] /\ pmlock = None
  /\ holds = [u \in Users |-> "NL"]
  /\ at = [u \in Procs |-> [pc |-> "out", op |-> "none", key |-> None, mode |-> "NL",
                            page |-> None, cefs |-> {}]]

OneIdle == {{u} : u \in Users}

MCInit ==
  \/ part = "memory" /\ idle \in OneIdle /\ Init
  \/ part = "locks" /\ idle = Sects /\ Loaded

MCNext ==
  /\ \/ part = "memory" /\ Next
     \/ part = "locks" /\ Locks!Next
  /\ \A u \in idle : at'[u] = at[u]
  /\ UNCHANGED <<part, idle>>

MCSpec == MCInit /\ [][MCNext]_<<vars, part, idle>>
=============================================================================
