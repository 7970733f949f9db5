----------------------------- MODULE RemoteSession -----------------------------
(***************************************************************************)
(* Clients of the daemon: the command line's remote mode (main.c and       *)
(* remote.c), which keeps one connection for everything it was asked to do *)
(* and stops at the first failure, and the browser's (remote.js), which    *)
(* makes a connection for each command.  Any of them may be killed.        *)
(***************************************************************************)
EXTENDS Daemon

CONSTANTS
  Requests  \* what users ask for: [http: BOOLEAN, flags: a set of Flags]

VARIABLES
  asked,  \* per client: what it was asked for
  todo,   \* per client: the steps still to make, the one under way with them
  cpc     \* per client: "idle", "ready", "waiting", "ok", "failed" or "killed"

clientVars == <<asked, todo, cpc>>
vars == <<serverVars, clientVars>>

\* "told" stands for --cpu, or for --spl with --uboot.
Flags == {"told", "list", "boot", "diag", "erase", "write", "verify", "read", "reboot",
          "status", "cancel"}

\* The branch the command line takes is the first of these that was asked for, and each
\* one looks at some of the flags.
Branches == <<"list", "write", "erase", "boot", "read", "diag", "reboot">>
LooksAt ==
  [list |-> {"list"}, write |-> {"erase", "write", "reboot"}, erase |-> {"erase", "reboot"},
   boot |-> {}, read |-> {"read", "reboot"}, diag |-> {"diag"}, reboot |-> {"reboot"}]
Branch(flags) ==
  LET i == CHOOSE i \in DOMAIN Branches :
             Branches[i] \in flags /\ \A j \in 1..(i - 1) : Branches[j] \notin flags
  IN  Branches[i]

ASSUME RequestsAssumption ==
  /\ Requests # {} /\ Requests \subseteq [http : BOOLEAN, flags : SUBSET Flags]
  /\ \A o \in Requests : ~o.http => \E i \in DOMAIN Branches : Branches[i] \in o.flags

\* The order in which a session takes its steps, whichever of them it has; a write's command
\* says whether it is verified.
Turn ==
  [detect |-> 1, stage |-> 2, variant |-> 3, bootstrap |-> 4, list |-> 5, diag |-> 6,
   erase |-> 7, write |-> 8, writeVerify |-> 8, read |-> 9, reboot |-> 10, status |-> 11,
   cancel |-> 12]
Steps == DOMAIN Turn \ {"writeVerify"}

\* What is done of what was asked for: by the command line, what its branch looks at.
Does(o) ==
  o.flags \intersect
    IF o.http THEN {"list", "diag", "erase", "write", "read", "reboot", "status", "cancel"}
    ELSE LooksAt[Branch(o.flags)]

\* remote_prepare_transfer asks for the stage, and boots a bootrom (or when told to).
Prepare(flags) ==
  IF Branch(flags) \in {"list", "diag"} THEN {}
  ELSE {"bootstrap"}
         \union (IF Branch(flags) = "boot" THEN {} ELSE {"stage"})
         \union (IF flags \intersect {"told", "boot"} = {} THEN {"variant"} ELSE {})

\* The command line first finds out what it was not told.
Plan(o) ==
  Does(o) \union
    IF o.http THEN (IF "boot" \in o.flags THEN {"bootstrap"} ELSE {})
    ELSE Prepare(o.flags)
           \union (IF "boot" \in o.flags /\ "told" \notin o.flags THEN {"detect"} ELSE {})

\* The step under way, or the next.
Due(c) == CHOOSE r \in todo[c] : \A s \in todo[c] : Turn[r] <= Turn[s]

\* The command a step is: all four questions are a DISCOVER.
OnWire(r, flags) ==
  IF r \in {"detect", "stage", "variant", "list"} THEN "discover"
  ELSE IF r = "write" /\ "verify" \in flags THEN "writeVerify" ELSE r

Active(c) == cpc[c] \in {"ready", "waiting"}

End(c, how) ==
  /\ cpc' = [cpc EXCEPT ![c] = how]
  /\ todo' = [todo EXCEPT ![c] = {}]
  /\ gone' = [gone EXCEPT ![c] = TRUE]
  /\ down' = [down EXCEPT ![c] = << >>]

Begin(c) ==
  /\ cpc[c] = "idle"
  /\ \E o \in Requests :
       /\ asked' = [asked EXCEPT ![c] = o]
       /\ http' = [http EXCEPT ![c] = o.http]
       /\ todo' = [todo EXCEPT ![c] = Plan(o)]
  /\ cpc' = [cpc EXCEPT ![c] = "ready"]
  /\ UNCHANGED <<daemonVars, boardVars, conn, gone, up, down, hist>>

\* A connection is made if there is none: once by the command line.
Send(c) ==
  /\ cpc[c] = "ready" /\ todo[c] # {}
  /\ IF conn[c] = "none" \/ (OneCommand(c) /\ conn[c] = "closed")
       THEN backlog' = Append(backlog, c) /\ conn' = [conn EXCEPT ![c] = "queued"]
       ELSE UNCHANGED <<backlog, conn>>
  /\ up' = [up EXCEPT ![c] = Append(@, OnWire(Due(c), asked[c].flags))]
  /\ cpc' = [cpc EXCEPT ![c] = "waiting"]
  /\ UNCHANGED <<served, dpc, cmd, answer, state, logTo, boardVars, http, gone, down, hist,
                 asked, todo>>

\* No connection, or no file to send.
GiveUp(c) ==
  /\ cpc[c] = "ready" /\ todo[c] # {}
  /\ conn[c] = "none" \/ Due(c) \in {"bootstrap", "write"}
  /\ End(c, "failed")
  /\ UNCHANGED <<daemonVars, boardVars, conn, http, up, hist, asked>>

\* Steps left after the answer to the one under way: the answer about the stage decides
\* whether to bootstrap, and not knowing it is taken for a no.
Rest(c, frame) ==
  LET r == Due(c)
  IN  IF /\ r = "stage" /\ "boot" \notin asked[c].flags
         /\ frame # [status |-> "ok", says |-> "bootrom"]
        THEN todo[c] \ {"stage", "variant", "bootstrap"}
        ELSE todo[c] \ {r}

\* Mutant of Tolerated: the erase's answer is not looked at.
ToleratedErase(r) == r \in {"stage", "erase"}

\* A failure that does not end the session.
Tolerated(r) == r = "stage"

\* Mutant of Succeeded: any answer will do.
SucceededAny(r, frame) == frame.status \in {"ok", "error"}

\* A board that is not there has no variant.
Succeeded(r, frame) ==
  frame.status = "ok" /\ ~(r \in {"detect", "variant"} /\ frame.says \in {"away", "off"})

\* recv_response reads on past log frames.
IsFinal(frame) == frame.status # "log"

\* What was read may not fit on the disk.
Receive(c) ==
  /\ cpc[c] = "waiting" /\ down[c] # << >>
  /\ LET frame == Head(down[c])
         r == Due(c)
     IN  \/ /\ ~IsFinal(frame)
            /\ down' = [down EXCEPT ![c] = Tail(@)]
            /\ UNCHANGED <<cpc, todo, gone>>
         \/ /\ IsFinal(frame) /\ (Succeeded(r, frame) \/ Tolerated(r))
            /\ down' = [down EXCEPT ![c] = Tail(@)]
            /\ todo' = [todo EXCEPT ![c] = Rest(c, frame)]
            /\ cpc' = [cpc EXCEPT ![c] = "ready"]
            /\ UNCHANGED gone
         \/ /\ IsFinal(frame) /\ ~Tolerated(r) /\ (Succeeded(r, frame) => r = "read")
            /\ End(c, "failed")
  /\ UNCHANGED <<daemonVars, boardVars, conn, http, up, hist, asked>>

\* The daemon closed the connection without an answer.
LoseConnection(c) ==
  /\ cpc[c] = "waiting" /\ down[c] = << >> /\ conn[c] = "closed"
  /\ End(c, "failed")
  /\ UNCHANGED <<daemonVars, boardVars, conn, http, up, hist, asked>>

Leave(c) ==
  /\ cpc[c] = "ready" /\ todo[c] = {}
  /\ End(c, "ok")
  /\ UNCHANGED <<daemonVars, boardVars, conn, http, up, hist, asked>>

Kill(c) ==
  /\ Active(c)
  /\ End(c, "killed")
  /\ UNCHANGED <<daemonVars, boardVars, conn, http, up, hist, asked>>

ClientStep(c) == Send(c) \/ Receive(c) \/ LoseConnection(c) \/ Leave(c)

Init ==
  /\ DaemonInit
  /\ http = [c \in Clients |-> FALSE]
  /\ asked = [c \in Clients |-> CHOOSE o \in Requests : TRUE]
  /\ todo = [c \in Clients |-> {}]
  /\ cpc = [c \in Clients |-> "idle"]

Next ==
  \/ DaemonStep /\ UNCHANGED clientVars
  \/ Log /\ UNCHANGED clientVars
  \/ Enumerate /\ UNCHANGED clientVars
  \/ Restart /\ UNCHANGED clientVars
  \/ PowerCycle /\ UNCHANGED clientVars
  \/ \E c \in Clients : Begin(c) \/ ClientStep(c) \/ GiveUp(c) \/ Kill(c)

Spec == Init /\ [][Next]_vars

\* The daemon and the clients keep going: no call of theirs blocks but on each other.
\* Boards, users and log output need not.
FairSpec ==
  /\ Spec
  /\ WF_vars(DaemonStep /\ UNCHANGED clientVars)
  /\ \A c \in Clients : WF_vars(ClientStep(c))

-----------------------------------------------------------------------------

Board == {"erase", "write", "read", "reboot"}

\* What is to be done to the board for a client, as commands.
Owed(c) == {OnWire(op, asked[c].flags) : op \in Does(asked[c]) \intersect Board}

DoneFor(c, op) == \E i \in DOMAIN hist : hist[i] = [who |-> c, op |-> op, ok |-> TRUE]

\* The client's user asked for a bootstrap.
BootOwed(c) ==
  "boot" \in asked[c].flags /\ (asked[c].http \/ Branch(asked[c].flags) # "list")

\* TYPE.  The daemon's state, and its clients'.
TypeOK ==
  /\ DaemonTypeOK
  /\ asked \in [Clients -> Requests] /\ todo \in [Clients -> SUBSET Steps]
  /\ cpc \in [Clients -> {"idle", "ready", "waiting", "ok", "failed", "killed"}]
  /\ \A c \in Clients : Len(up[c]) <= 1

\* An operation is only tried for a client that was asked for it, after all it was asked to
\* do before, and when nothing tried for it failed: nothing is written to a flash whose erase
\* failed, nothing is started from a flash that was not written (main.c: if (rc == 0 && ...)),
\* whatever other clients do, and also when the client is killed and the daemon goes on with
\* what it had sent.
StopsAtFailure ==
  \A i \in DOMAIN hist :
    LET c == hist[i].who
        op == hist[i].op
    IN  /\ op \in Owed(c) \union {"bootstrap"}
        /\ \A j \in 1..(i - 1) :
             hist[j].who = c => hist[j].ok /\ Turn[hist[j].op] < Turn[op]
        /\ \A before \in Owed(c) :
             Turn[before] < Turn[op]
               => \E j \in 1..(i - 1) : hist[j] = [who |-> c, op |-> before, ok |-> TRUE]

\* A client that ends with success had everything its branch does done to the board by the
\* daemon, and the bootstrap if its user asked for one.
ExitZeroMeansDone ==
  \A c \in Clients :
    cpc[c] = "ok" =>
      /\ \A op \in Owed(c) : DoneFor(c, op)
      /\ BootOwed(c) => DoneFor(c, "bootstrap")

\* Between two operations tried for one connection there is none of another client: what
\* a session erased, it writes itself, and nobody reboots the board in between.
SessionIsAtomic ==
  \A i, j, k \in DOMAIN hist :
    i < j /\ j < k /\ hist[i].who = hist[k].who /\ ~http[hist[i].who]
      => hist[j].who = hist[i].who

\* When the command line ends with success after a write it had verified, and its connection
\* still stands, the flash holds its image: nobody had the time to put another there.
VerifiedIsStored ==
  [][\A c \in Clients :
       cpc[c] # "ok" /\ cpc'[c] = "ok" /\ ~http[c] /\ conn[c] = "served"
         /\ Branch(asked[c].flags) = "write" /\ "verify" \in asked[c].flags
         => flash = c]_vars

\* Every client's session ends, whatever the board does: dfu_pick_alt "can't block a client
\* forever", and a client in the queue gets its turn.
SessionReturns == \A c \in Clients : Active(c) ~> ~Active(c)
=============================================================================
