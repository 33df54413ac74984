---------------------------- MODULE MCTransfers -----------------------------
(* The disk cache and tcp, one system after the other; "part" says which.    *)
(* DiskCache: in "rw" two threads read and write parts of a page, in "map"   *)
(* two requests that are called back fail at times, in "pf" a page is mapped *)
(* by a thread while it is modified, and in "term" one thread, the other is  *)
(* "idle", writes two pages and the volume is dismounted.  Tcp: a one-way    *)
(* transfer that loses, reorders and sends again ("lossy"), the same where   *)
(* the client closes (with one segment under way at a time in "short", and   *)
(* where nothing is sent again in "mixed"), data both ways, data from the    *)
(* listener only, one where the receiver reads in place, one where the       *)
(* network duplicates, and one with aborts, cancelled requests and a time    *)
(* limit.                                                                   *)
EXTENDS MCDiskCache, Tcp

VARIABLES part, idle

Overlapping == {<<0, 2>>, <<1, 3>>}

CacheParts ==
  [rw |-> [ops |-> {"readw", "writew", "writethru"}, ranges |-> Overlapping, keys |-> {1},
          refs |-> MaxRefs],
   map |-> [ops |-> {"prefetch", "map", "mapthru", "mapwrite"}, ranges |-> FirstHalf,
            keys |-> {1}, refs |-> MaxRefs],
   pf |-> [ops |-> {"pfmap", "mapwrite"}, ranges |-> {<<1, 3>>}, keys |-> {1},
          refs |-> MaxRefs],
   term |-> [ops |-> {"writew"}, ranges |-> FirstHalf, keys |-> {1, 2}, refs |-> 1]]

(* What a part of the disk cache's run asks for, whether its reads fail, and *)
(* whether it ends.                                                         *)
CachePart ==
  LET p == CacheParts[part] IN
  /\ \A u \in Users : at[u].pc = "out" /\ at'[u].pc # "out" =>
       /\ u \notin idle /\ at'[u].op \in p.ops /\ at'[u].range \in p.ranges
       /\ at'[u].key \in p.keys /\ dcpage[at'[u].key].refs < p.refs
  /\ part \in {"rw", "term"} => \A u \in Users : at'[u].status # "bad"
  /\ part # "term" => term' = "no"

Over == spoilt \/ term = "freed" \/ Stranded(Terminator)

-----------------------------------------------------------------------------
OneWay(sizes) == [e \in Ends |-> IF e = Client THEN sizes ELSE <<>>]
TwoOne == OneWay(<<2, 1>>)
Each == [e \in Ends |-> 1]
Past == -20

InPlace == INSTANCE Tcp WITH NoCopy <- Ends \ {Client}, WindowSize <- 2
Twice == INSTANCE Tcp WITH MaxNet <- 1, Dups <- TRUE
Broken == INSTANCE Tcp WITH Aborters <- Ends, Cancellers <- {Client}, Patience <- FALSE

(* The parts with what the users of the two hosts send. *)
TcpParts ==
  [lossy |-> TwoOne, short |-> TwoOne, mixed |-> TwoOne,
   bothways |-> [e \in Ends |-> <<1>>],
   back |-> [e \in Ends |-> IF e = Client THEN <<>> ELSE <<1, 1>>],
   inplace |-> TwoOne, twice |-> OneWay(<<1>>), broken |-> OneWay(<<1>>)]

(* What a part does without. *)
TcpPart ==
  /\ part = "lossy" => ~con'[Client].closed
  /\ part = "short" => \A e \in Ends : Cardinality(net'[e]) <= 1
  /\ part \notin {"lossy", "short"} => ticks' = 0

-----------------------------------------------------------------------------
MCInit ==
  /\ Init
  /\ \/ /\ part \in DOMAIN CacheParts /\ TcpInit
        /\ idle \in IF part = "term" THEN {{u} : u \in Users} ELSE {{}}
     \/ /\ part \in DOMAIN TcpParts /\ idle = Users
        /\ net = [e \in Ends |-> {}] /\ ticks = 0
        /\ con = [e \in Ends |->
             [(IF part = "inplace" THEN InPlace!NewCon(e) ELSE NewCon(e))
              EXCEPT !.todo = TcpParts[part][e]]]

MCNext ==
  /\ UNCHANGED <<part, idle>>
  /\ \/ /\ part \in DOMAIN CacheParts /\ UNCHANGED tcpVars
        /\ (Next /\ CachePart) \/ (Over /\ UNCHANGED vars)
     \/ /\ part \in DOMAIN TcpParts /\ UNCHANGED vars
        /\ \/ part = "inplace" /\ InPlace!TcpNext
           \/ part = "twice" /\ Twice!TcpNext
           \/ part = "broken" /\ Broken!TcpNext
           \/ part \notin {"inplace", "twice", "broken"} /\ TcpNext
           \/ UNCHANGED tcpVars   \* the transfer is over
        /\ TcpPart

MCSpec == MCInit /\ [][MCNext]_<<vars, tcpVars, part, idle>>

Symmetry == Permutations(Users)
=============================================================================
