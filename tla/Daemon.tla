-------------------------------- MODULE Daemon --------------------------------
(***************************************************************************)
(* dfu-remote: one thread that accepts a client, serves its commands one   *)
(* after the other until it hangs up, and only then accepts the next.  The *)
(* library calls a command makes are their outcomes here: success, or a    *)
(* failure at any point.  The library's own modules say what is behind     *)
(* them.  One board is attached.                                           *)
(***************************************************************************)
EXTENDS Integers, Sequences

CONSTANTS
  Clients,
  None,      \* not a client
  MaxFrames  \* bound on the frames a client has not read

ASSUME ClientsAssumption == None \notin Clients /\ MaxFrames \in Nat \ {0}

VARIABLES
  stage,    \* of the board; "away" while it re-enumerates, "off" once it runs or hangs
  flash,    \* whose image it holds, "old", "blank" or "garbage"
  backlog,  \* clients whose connection was not accepted yet, in order
  served,   \* the client being served
  dpc,      \* where the daemon is
  cmd,      \* the command it works on
  answer,   \* the status, and what a reader learns
  state,    \* g_state
  logTo,    \* g_log_client_fd
  conn,     \* per client: "none", "queued", "served" or "closed" by the daemon
  http,     \* per client: it speaks HTTP, one command per connection
  gone,     \* per client: its end of the connection is closed
  up, down, \* per client: the commands and the frames under way
  hist      \* history: the commands tried on the board, for whom, and how they ended

daemonVars == <<backlog, served, dpc, cmd, answer, state, logTo>>
boardVars  == <<stage, flash>>
netVars    == <<conn, http, gone, up, down>>
serverVars == <<daemonVars, boardVars, netVars, hist>>

Long == {"bootstrap", "erase", "write", "writeVerify", "read", "reboot"}
Commands == Long \union {"discover", "status", "cancel", "diag"}
Stages == {"bootrom", "away", "gadget", "off"}
Nothing == "nothing"

\* What g_state says while a command is carried out; reboot leaves it alone.
Doing ==
  [bootstrap |-> "bootstrapping", erase |-> "erasing", write |-> "writing",
   writeVerify |-> "writing", read |-> "reading"]
Sets(op) == op \in DOMAIN Doing
States == {"idle", "verifying"} \union {Doing[op] : op \in DOMAIN Doing}

\* What the daemon sends: answers, and log output.
Says == Stages \union States \union {"OK", "report", "image", "refused", "failed", Nothing}
Frames == [status : {"ok", "error", "log"}, says : Says]

DaemonTypeOK ==
  /\ stage \in Stages /\ flash \in Clients \union {"old", "blank", "garbage"}
  /\ backlog \in Seq(Clients) /\ served \in Clients \union {None}
  /\ dpc \in {"accept", "recv", "start", "init", "wait", "work", "verify", "reply"}
  /\ cmd \in Commands \union {Nothing}
  /\ answer \in [ok : BOOLEAN, says : Says]
  /\ state \in States
  /\ logTo \in {None, served}
  /\ conn \in [Clients -> {"none", "queued", "served", "closed"}]
  /\ http \in [Clients -> BOOLEAN] /\ gone \in [Clients -> BOOLEAN]
  /\ up \in [Clients -> Seq(Commands)]
  /\ down \in [Clients -> Seq(Frames)]
  /\ \A c \in Clients : Len(down[c]) <= MaxFrames
  /\ (served = None) <=> (dpc = "accept")

DaemonInit ==
  /\ stage \in {"bootrom", "gadget"} /\ flash = "old"
  /\ backlog = << >> /\ served = None /\ dpc = "accept" /\ cmd = Nothing
  /\ answer = [ok |-> FALSE, says |-> Nothing] /\ state = "idle" /\ logTo = None
  /\ conn = [c \in Clients |-> "none"] /\ gone = [c \in Clients |-> FALSE]
  /\ up = [c \in Clients |-> << >>] /\ down = [c \in Clients |-> << >>]
  /\ hist = << >>

Answer(ok, says) == answer' = [ok |-> ok, says |-> says] /\ dpc' = "reply"
Refuse == Answer(FALSE, "refused")

-----------------------------------------------------------------------------

Accept ==
  /\ dpc = "accept" /\ backlog # << >>
  /\ served' = Head(backlog) /\ backlog' = Tail(backlog)
  /\ conn' = [conn EXCEPT ![Head(backlog)] = "served"]
  /\ dpc' = "recv"
  /\ logTo' = IF http[Head(backlog)] THEN Head(backlog) ELSE None
  /\ UNCHANGED <<cmd, answer, state, boardVars, http, gone, up, down, hist>>

Recv ==
  /\ dpc = "recv" /\ up[served] # << >>
  /\ cmd' = Head(up[served])
  /\ up' = [up EXCEPT ![served] = Tail(@)]
  /\ dpc' = "start"
  /\ UNCHANGED <<backlog, served, answer, state, logTo, boardVars, conn, http, gone, down, hist>>

\* Mutant of LogEnds: output keeps going to the descriptor of a client that left.
LogEndsNever == UNCHANGED logTo

LogEnds == logTo' = None

Close ==
  /\ conn' = [conn EXCEPT ![served] = "closed"]
  /\ up' = [up EXCEPT ![served] = << >>]
  /\ served' = None /\ LogEnds
  /\ dpc' = "accept"

\* The client is gone; a command it did not send to the end is lost.
HangUp ==
  /\ dpc = "recv" /\ gone[served]
  /\ Close
  /\ UNCHANGED <<backlog, cmd, answer, state, boardVars, http, gone, down, hist>>

\* A command is looked at.  Its payload may be malformed, USB or memory missing; a query
\* is answered on the spot; CANCEL only notes that it was asked.  Reading sets its state
\* later than the others.
Start ==
  /\ dpc = "start"
  /\ \/ Refuse /\ UNCHANGED state
     \/ cmd = "discover" /\ Answer(TRUE, stage) /\ UNCHANGED state
     \/ cmd = "status" /\ Answer(TRUE, state) /\ UNCHANGED state
     \/ cmd = "cancel" /\ Answer(TRUE, "OK") /\ UNCHANGED state
     \/ cmd = "diag" /\ stage = "bootrom" /\ Answer(TRUE, "report") /\ UNCHANGED state
     \/ /\ cmd \in Long
        /\ dpc' = "init" /\ UNCHANGED answer
        /\ state' = IF Sets(cmd) /\ cmd # "read" THEN Doing[cmd] ELSE state
  /\ UNCHANGED <<backlog, served, cmd, logTo, boardVars, netVars, hist>>

\* USB, or the temporary file the library reads the image from.
Initialise ==
  /\ dpc = "init"
  /\ \/ Refuse /\ UNCHANGED <<state, logTo>>
     \/ /\ dpc' = IF cmd \in {"bootstrap", "reboot"} THEN "work" ELSE "wait"
        /\ IF Sets(cmd) THEN state' = Doing[cmd] /\ logTo' = served
                        ELSE UNCHANGED <<state, logTo>>
        /\ UNCHANGED answer
  /\ UNCHANGED <<backlog, served, cmd, boardVars, netVars, hist>>

Finish(ok, says) ==
  /\ Answer(ok, says)
  /\ IF Sets(cmd) THEN state' = "idle" /\ LogEnds ELSE UNCHANGED <<state, logTo>>
  /\ hist' = Append(hist, [who |-> served, op |-> cmd, ok |-> ok])

Fail == Finish(FALSE, "failed")

\* Mutant of WaitEnds: a board that does not come back is waited for.
WaitEndsNever == FALSE

\* dfu_pick_alt gives a board that is not a gadget (yet) 120 chances.
WaitEnds == Fail

PickAlt ==
  /\ dpc = "wait"
  /\ \/ stage = "gadget" /\ dpc' = "work" /\ UNCHANGED <<answer, state, logTo, hist>>
     \/ WaitEnds
  /\ UNCHANGED <<backlog, served, cmd, boardVars, netVars>>

\* The library's log output is forwarded as frames of its own.
Log ==
  /\ dpc \in {"start", "init", "wait", "work", "verify"}
  /\ logTo # None /\ ~gone[logTo] /\ Len(down[logTo]) + 1 < MaxFrames
  /\ down' = [down EXCEPT ![logTo] = Append(@, [status |-> "log", says |-> Nothing])]
  /\ UNCHANGED <<daemonVars, boardVars, conn, http, gone, up, hist>>

\* What U-Boot does once it runs is not seen: it may hang, and be reported as started.
Bootstrap ==
  /\ cmd = "bootstrap"
  /\ \/ stage = "bootrom" /\ stage' \in {"away", "off"} /\ Finish(TRUE, "OK")
     \/ stage' \in {stage, IF stage = "bootrom" THEN "off" ELSE stage} /\ Fail
  /\ UNCHANGED flash

Erase ==
  /\ cmd = "erase"
  /\ \/ stage = "gadget" /\ flash' = "blank" /\ Finish(TRUE, "OK")
     \/ flash' \in {flash, "garbage"} /\ Fail
  /\ UNCHANGED stage

\* Mutant of Verifies: the trailing byte of the request is not looked at.
VerifiesNever == FALSE

Verifies == cmd = "writeVerify"

\* A download that succeeds need not have reached the flash.
Write ==
  /\ cmd \in {"write", "writeVerify"}
  /\ flash' \in {flash, served, "garbage"}
  /\ \/ stage = "gadget" /\ ~Verifies /\ Finish(TRUE, "OK")
     \/ /\ stage = "gadget" /\ Verifies
        /\ dpc' = "verify" /\ state' = "verifying"
        /\ UNCHANGED <<answer, logTo, hist>>
     \/ Fail
  /\ UNCHANGED stage

Read ==
  /\ cmd = "read"
  /\ \/ stage = "gadget" /\ Finish(TRUE, "image")
     \/ Fail
  /\ UNCHANGED boardVars

\* What happens after the request to reset is not looked at.
Reboot ==
  /\ cmd = "reboot"
  /\ \/ stage = "gadget" /\ stage' \in {"gadget", "off"} /\ Finish(TRUE, "OK")
     \/ Fail /\ UNCHANGED stage
  /\ UNCHANGED flash

Work ==
  /\ dpc = "work"
  /\ Bootstrap \/ Erase \/ Write \/ Read \/ Reboot
  /\ UNCHANGED <<backlog, served, cmd, netVars>>

Verify ==
  /\ dpc = "verify"
  /\ \/ stage = "gadget" /\ flash = served /\ Finish(TRUE, "OK")
     \/ Fail
  /\ UNCHANGED <<backlog, served, cmd, boardVars, netVars>>

\* Mutant of OneCommand: every connection is for one command.
OneCommandAll(c) == TRUE

\* An HTTP request carries one command; any other connection goes on after a reply.
OneCommand(c) == http[c]

Reply ==
  /\ dpc = "reply"
  /\ down' = [down EXCEPT ![served] =
                IF gone[served] THEN @
                ELSE Append(@, [status |-> IF answer.ok THEN "ok" ELSE "error",
                                says |-> answer.says])]
  /\ cmd' = Nothing
  /\ answer' = [ok |-> FALSE, says |-> Nothing]
  /\ IF ~OneCommand(served) /\ ~gone[served]
       THEN dpc' = "recv" /\ UNCHANGED <<conn, up, served, logTo>>
       ELSE Close
  /\ UNCHANGED <<backlog, state, boardVars, http, gone, hist>>

DaemonStep ==
  Accept \/ Recv \/ HangUp \/ Start \/ Initialise \/ PickAlt \/ Work \/ Verify \/ Reply

\* The board comes back as a gadget, some time after U-Boot was started.
Enumerate ==
  /\ stage = "away" /\ stage' = "gadget"
  /\ UNCHANGED <<flash, daemonVars, netVars, hist>>

\* The daemon is stopped and started again; the kernel closes its connections.
Restart ==
  /\ served # None \/ backlog # << >>
  /\ LET mine == {c \in Clients : conn[c] \in {"queued", "served"}}
     IN  /\ conn' = [c \in Clients |-> IF c \in mine THEN "closed" ELSE conn[c]]
         /\ up' = [c \in Clients |-> IF c \in mine THEN << >> ELSE up[c]]
  /\ backlog' = << >> /\ served' = None /\ dpc' = "accept" /\ cmd' = Nothing
  /\ answer' = [ok |-> FALSE, says |-> Nothing] /\ state' = "idle" /\ logTo' = None
  /\ IF dpc \in {"work", "verify"}
       THEN /\ flash' \in {flash, IF cmd = "read" THEN flash ELSE "garbage"}
            /\ hist' = Append(hist, [who |-> served, op |-> cmd, ok |-> FALSE])
       ELSE UNCHANGED <<flash, hist>>
  /\ UNCHANGED <<stage, http, gone, down>>

PowerCycle ==
  /\ stage = "off" /\ stage' = "bootrom"
  /\ UNCHANGED <<flash, daemonVars, netVars, hist>>
=============================================================================
