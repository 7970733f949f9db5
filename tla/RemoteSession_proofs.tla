------------------------- MODULE RemoteSession_proofs -------------------------
(***************************************************************************)
(* For every set of clients and requests, any number of sessions, restarts *)
(* and boards that leave: a session is served alone (SessionIsAtomic); it  *)
(* goes on after a failed command only where the client says so            *)
(* (StopsAtFailure); a client that exits with success was answered for all *)
(* it asked (ExitZeroMeansDone), and a verified write it reports is stored *)
(* (VerifiedIsStored).                                                     *)
(***************************************************************************)
EXTENDS RemoteSession, SequenceTheorems, TLAPS

-----------------------------------------------------------------------------
(* The invariant.                                                          *)

\* A connection is queued once, or is the one served, or neither.
OnePlace ==
  /\ DOMAIN conn = Clients /\ DOMAIN http = Clients /\ DOMAIN cpc = Clients
  /\ backlog \in Seq(Clients)
  /\ served \in Clients \union {None}
  /\ dpc = "accept" => served = None
  /\ served = None => dpc = "accept"
  /\ \A c \in Clients : conn[c] = "served" <=> c = served
  /\ \A c \in Clients : cpc[c] = "idle" => conn[c] = "none"
  /\ \A i \in 1..Len(backlog) : conn[backlog[i]] = "queued"
  /\ \A i, j \in 1..Len(backlog) : backlog[i] = backlog[j] => i = j

\* hist is a sequence of what was done for clients.
HistOK ==
  /\ \E S : hist \in Seq(S)
  /\ \A i \in 1..Len(hist) : hist[i].who \in Clients

\* Before its session is served, a client has nothing done.
NothingYet ==
  \A c \in Clients :
    conn[c] = "none" \/ (conn[c] = "queued" /\ ~http[c])
      => \A i \in 1..Len(hist) : hist[i].who # c

\* What was done last was done for the session being served, from its first operation on.
ServedIsLast ==
  \A i, j \in 1..Len(hist) :
    hist[i].who = served /\ ~http[served] /\ i < j => hist[j].who = served

Atomic ==
  \A i, j, k \in 1..Len(hist) :
    i < j /\ j < k /\ hist[i].who = hist[k].who /\ ~http[hist[i].who]
      => hist[j].who = hist[i].who

IInv == OnePlace /\ HistOK /\ NothingYet /\ ServedIsLast /\ Atomic

-----------------------------------------------------------------------------
(* What a step may do to the connections, and to the history.              *)

\* What a sequence becomes when something is appended to it.
LEMMA AppendIs ==
  ASSUME NEW S, NEW s \in Seq(S), NEW e
  PROVE  /\ Append(s, e) \in Seq(S \union {e})
         /\ Len(Append(s, e)) = Len(s) + 1 /\ Len(s) \in Nat
         /\ Append(s, e)[Len(s) + 1] = e
         /\ \A i \in 1..Len(s) : Append(s, e)[i] = s[i]
<1>1. s \in Seq(S \union {e}) /\ e \in S \union {e}
  BY SeqMonotonic
<1>2. QED BY <1>1

\* A step that serves on: the connections stay, no client becomes idle.
ServesOn ==
  /\ UNCHANGED <<conn, http, backlog, served>>
  /\ dpc' = "accept" <=> dpc = "accept"
  /\ DOMAIN cpc' = DOMAIN cpc
  /\ \A c \in DOMAIN cpc : cpc'[c] = "idle" => cpc[c] = "idle"

\* The client served, or nobody, gets an entry.
Recorded ==
  \/ hist' = hist
  \/ \E op, ok : hist' = Append(hist, [who |-> served, op |-> op, ok |-> ok]) /\ dpc # "accept"

\* An entry for the client served goes to the end of the history.
LEMMA RecordedKeeps ==
  ASSUME IInv, Recorded
  PROVE  /\ HistOK' /\ Len(hist) <= Len(hist') /\ Len(hist) \in Nat /\ Len(hist') \in Nat
         /\ \A i \in 1..Len(hist) : hist'[i] = hist[i]
         /\ \A i \in 1..Len(hist') : i > Len(hist) => hist'[i].who = served /\ served \in Clients
<1>1. CASE hist' = hist
  BY <1>1 DEF IInv, HistOK
<1>2. CASE hist' # hist
  <2>1. PICK op, ok : hist' = Append(hist, [who |-> served, op |-> op, ok |-> ok])
                      /\ dpc # "accept"
    BY <1>2 DEF Recorded
  <2>2. PICK S : hist \in Seq(S)
    BY DEF IInv, HistOK
  <2> DEFINE e == [who |-> served, op |-> op, ok |-> ok]
  <2>3. /\ hist' \in Seq(S \union {e})
        /\ Len(hist') = Len(hist) + 1 /\ Len(hist) \in Nat
        /\ hist'[Len(hist) + 1] = e
        /\ \A i \in 1..Len(hist) : hist'[i] = hist[i]
    <3> HIDE DEF e
    <3>1. QED BY <2>1, <2>2, AppendIs DEF e
  <2>4. served \in Clients
    BY <2>1 DEF IInv, OnePlace
  <2>5. e.who = served
    OBVIOUS
  <2> HIDE DEF e
  <2>6. \A i \in 1..Len(hist') : hist'[i].who \in Clients
    BY <2>3, <2>4, <2>5 DEF IInv, HistOK
  <2>7. QED BY <2>3, <2>4, <2>5, <2>6 DEF HistOK
<1>3. QED BY <1>1, <1>2

\* Whatever becomes of the connections, the history stays atomic, and the client served
\* until now is the last in it.
LEMMA AtomicKept ==
  ASSUME IInv, Recorded, http' = http
  PROVE  /\ Atomic'
         /\ \A i, j \in 1..Len(hist') :
              hist'[i].who = served /\ ~http[served] /\ i < j => hist'[j].who = served
         /\ \A c \in Clients : c # served /\ (\A i \in 1..Len(hist) : hist[i].who # c)
              => \A i \in 1..Len(hist') : hist'[i].who # c
<1>1. \A i, j \in 1..Len(hist') :
        hist'[i].who = served /\ ~http[served] /\ i < j => hist'[j].who = served
  BY RecordedKeeps DEF IInv, ServedIsLast
<1>2. Atomic'
  <2> SUFFICES ASSUME NEW i \in 1..Len(hist'), NEW j \in 1..Len(hist'), NEW k \in 1..Len(hist'),
                      i < j, j < k, hist'[i].who = hist'[k].who, ~http[hist'[i].who]
               PROVE  hist'[j].who = hist'[i].who
    BY DEF Atomic
  <2>1. CASE k <= Len(hist)
    <3>1. /\ i \in 1..Len(hist) /\ j \in 1..Len(hist) /\ k \in 1..Len(hist)
          /\ hist'[i] = hist[i] /\ hist'[j] = hist[j] /\ hist'[k] = hist[k]
      BY <2>1, RecordedKeeps
    <3>2. QED BY <3>1 DEF IInv, Atomic
  <2>2. CASE k > Len(hist)
    <3>1. hist'[k].who = served
      BY <2>2, RecordedKeeps
    <3>2. QED BY <1>1, <3>1
  <2>3. QED BY <2>1, <2>2, RecordedKeeps
<1>3. QED BY <1>1, <1>2, RecordedKeeps

\* Serving on keeps the invariant.
LEMMA ServesOnKeeps ==
  ASSUME IInv, ServesOn, Recorded
  PROVE  IInv'
<1>1. OnePlace'
  BY DEF IInv, OnePlace, ServesOn
<1>2. NothingYet'
  BY AtomicKept DEF IInv, OnePlace, NothingYet, ServesOn
<1>3. ServedIsLast'
  BY AtomicKept DEF ServedIsLast, ServesOn
<1>4. QED BY <1>1, <1>2, <1>3, AtomicKept, RecordedKeeps DEF IInv, ServesOn

\* The connection served ends, and with it, when the daemon is restarted, all others.
Closes ==
  /\ UNCHANGED <<http, cpc>>
  /\ DOMAIN conn' = DOMAIN conn
  /\ \A c \in DOMAIN conn : conn'[c] = "closed" \/ (conn'[c] = conn[c] /\ c # served)
  /\ served' = None /\ dpc' = "accept"
  /\ \/ backlog' = << >>
     \/ backlog' = backlog /\ served # None
          /\ \A c \in DOMAIN conn : c # served => conn'[c] = conn[c]
  /\ \A c \in DOMAIN conn : conn[c] = "none" => conn'[c] = "none"

\* So does closing the connection, or all of them.
LEMMA ClosesKeeps ==
  ASSUME IInv, Closes, Recorded
  PROVE  IInv'
<1>1. OnePlace'
  <2>1. /\ backlog' \in Seq(Clients)
        /\ \A i \in 1..Len(backlog') : conn'[backlog'[i]] = "queued"
        /\ \A i, j \in 1..Len(backlog') : backlog'[i] = backlog'[j] => i = j
    <3>1. CASE backlog' = << >>
      BY <3>1
    <3>2. CASE backlog' # << >>
      <4>1. /\ backlog' = backlog
            /\ \A c \in Clients : c # served => conn'[c] = conn[c]
        BY <3>2 DEF IInv, OnePlace, Closes
      <4>2. \A i \in 1..Len(backlog) :
              backlog[i] \in Clients /\ conn[backlog[i]] = "queued"
        BY DEF IInv, OnePlace
      <4>3. \A i \in 1..Len(backlog) : conn'[backlog[i]] = "queued"
        BY <4>1, <4>2 DEF IInv, OnePlace
      <4>4. QED BY <4>1, <4>3 DEF IInv, OnePlace
    <3>3. QED BY <3>1, <3>2
  <2>2. \A c \in Clients : conn'[c] # "served"
    BY DEF IInv, OnePlace, Closes
  <2>3. \A c \in Clients : c # None
    BY ClientsAssumption
  <2>4. QED BY <2>1, <2>2, <2>3 DEF IInv, OnePlace, Closes
<1>2. NothingYet'
  <2>1. \A c \in Clients : conn'[c] = "none" \/ (conn'[c] = "queued" /\ ~http'[c])
          => c # served /\ \A i \in 1..Len(hist) : hist[i].who # c
    BY DEF IInv, OnePlace, NothingYet, Closes
  <2>2. QED BY <2>1, AtomicKept DEF NothingYet, Closes
<1>3. ServedIsLast'
  <2>1. \A i \in 1..Len(hist') : hist'[i].who # None
    BY RecordedKeeps, ClientsAssumption DEF HistOK
  <2>2. QED BY <2>1 DEF ServedIsLast, Closes
<1>4. QED BY <1>1, <1>2, <1>3, AtomicKept, RecordedKeeps DEF IInv, Closes

-----------------------------------------------------------------------------
(* The steps.                                                              *)

\* A connection accepted was queued, so a session's has nothing done for it yet.
LEMMA AcceptKeeps ==
  ASSUME IInv, Accept, UNCHANGED clientVars
  PROVE  IInv'
<1> DEFINE h == Head(backlog)
<1>1. /\ backlog # << >> /\ served' = h /\ backlog' = Tail(backlog)
      /\ conn' = [conn EXCEPT ![h] = "served"]
      /\ dpc = "accept" /\ dpc' = "recv"
      /\ UNCHANGED <<http, hist, cpc>>
  BY DEF Accept, clientVars
<1>2. /\ DOMAIN conn = Clients /\ DOMAIN http = Clients /\ DOMAIN cpc = Clients
      /\ backlog \in Seq(Clients)
      /\ \A i \in 1..Len(backlog) : conn[backlog[i]] = "queued"
      /\ \A i, j \in 1..Len(backlog) : backlog[i] = backlog[j] => i = j
  BY DEF IInv, OnePlace
<1>3. /\ h \in Clients /\ h = backlog[1] /\ conn[h] = "queued"
      /\ Tail(backlog) \in Seq(Clients) /\ Len(backlog) \in Nat \ {0}
      /\ Len(Tail(backlog)) = Len(backlog) - 1
      /\ \A i \in 1..Len(Tail(backlog)) : Tail(backlog)[i] = backlog[i + 1]
  BY <1>1, <1>2
<1> HIDE DEF h
<1>4. \A i \in 1..Len(backlog') :
        backlog'[i] \in Clients /\ backlog'[i] # h /\ conn[backlog'[i]] = "queued"
  <2>1. SUFFICES ASSUME NEW i \in 1..Len(backlog')
                 PROVE  backlog'[i] \in Clients /\ backlog'[i] # h /\ conn[backlog'[i]] = "queued"
    OBVIOUS
  <2>2. /\ i + 1 \in 1..Len(backlog) /\ 1 \in 1..Len(backlog) /\ i + 1 # 1
        /\ backlog'[i] = backlog[i + 1]
    BY <1>1, <1>3
  <2>3. QED BY <1>2, <1>3, <2>2
<1>5. \A i, j \in 1..Len(backlog') : backlog'[i] = backlog'[j] => i = j
  <2>1. SUFFICES ASSUME NEW i \in 1..Len(backlog'), NEW j \in 1..Len(backlog'),
                        backlog'[i] = backlog'[j]
                 PROVE  i = j
    OBVIOUS
  <2>2. /\ i + 1 \in 1..Len(backlog) /\ j + 1 \in 1..Len(backlog)
        /\ backlog'[i] = backlog[i + 1] /\ backlog'[j] = backlog[j + 1]
    BY <1>1, <1>3
  <2>3. i + 1 = j + 1
    BY <1>2, <2>1, <2>2
  <2>4. QED BY <2>3
<1>6. /\ conn'[h] = "served" /\ DOMAIN conn' = Clients
      /\ \A c \in Clients : c # h => conn'[c] = conn[c]
  BY <1>1, <1>2, <1>3
<1>7. \A c \in Clients : conn[c] # "served"
  BY <1>1, ClientsAssumption DEF IInv, OnePlace
<1>8. OnePlace'
  <2>1. \A c \in Clients : conn'[c] = "served" <=> c = h
    BY <1>6, <1>7
  <2>2. \A c \in Clients : cpc[c] = "idle" => conn'[c] = "none"
    BY <1>3, <1>6 DEF IInv, OnePlace
  <2>3. \A i \in 1..Len(backlog') : conn'[backlog'[i]] = "queued"
    BY <1>4, <1>6
  <2>4. h # None
    BY <1>3, ClientsAssumption
  <2>5. QED BY <1>1, <1>2, <1>3, <1>5, <1>6, <2>1, <2>2, <2>3, <2>4 DEF OnePlace
<1>9. NothingYet' /\ HistOK' /\ Atomic'
  BY <1>1, <1>6 DEF IInv, NothingYet, HistOK, Atomic
<1>10. ServedIsLast'
  <2>1. ~http[h] => \A i \in 1..Len(hist) : hist[i].who # h
    BY <1>3 DEF IInv, NothingYet
  <2>2. QED BY <1>1, <2>1 DEF ServedIsLast
<1>11. QED BY <1>8, <1>9, <1>10 DEF IInv

\* Every other step of the daemon serves on or closes.
LEMMA DaemonStepKeeps ==
  ASSUME IInv, DaemonStep, UNCHANGED clientVars
  PROVE  IInv'
<1>1. CASE Accept
  BY <1>1, AcceptKeeps
<1>2. CASE ~Accept
  <2>1. /\ dpc # "accept" /\ served \in Clients /\ conn[served] = "served"
        /\ DOMAIN conn = Clients /\ cpc' = cpc /\ http' = http /\ backlog' = backlog
    BY <1>2 DEF IInv, OnePlace, DaemonStep, Recv, HangUp, Start, Initialise, PickAlt, Work,
                Verify, Reply, clientVars, netVars
  <2>2. CASE Recv \/ Start \/ Initialise
    <3>1. ServesOn /\ Recorded
      BY <2>1, <2>2 DEF Recv, Start, Initialise, Refuse, Answer, ServesOn, Recorded, netVars
    <3>2. QED BY <3>1, ServesOnKeeps
  <2>3. CASE PickAlt \/ Work \/ Verify
    <3>1. ServesOn
      BY <2>1, <2>3 DEF PickAlt, WaitEnds, Work, Verify, Bootstrap, Erase, Write, Read, Reboot,
                        Fail, Finish, Answer, ServesOn, netVars
    <3>2. Recorded
      BY <2>1, <2>3 DEF PickAlt, WaitEnds, Work, Verify, Bootstrap, Erase, Write, Read, Reboot,
                        Fail, Finish, Recorded
    <3>3. QED BY <3>1, <3>2, ServesOnKeeps
  <2>4. CASE HangUp \/ Reply
    <3>1. Recorded
      BY <2>4 DEF HangUp, Reply, Recorded
    <3>2. CASE Close
      <4>1. /\ conn' = [conn EXCEPT ![served] = "closed"] /\ served' = None /\ dpc' = "accept"
        BY <3>2 DEF Close
      <4>2. Closes
        BY <2>1, <4>1, ClientsAssumption DEF Closes
      <4>3. QED BY <3>1, <4>2, ClosesKeeps
    <3>3. CASE ~Close
      <4>1. ServesOn
        BY <2>1, <2>4, <3>3 DEF HangUp, Reply, ServesOn
      <4>2. QED BY <3>1, <4>1, ServesOnKeeps
    <3>4. QED BY <3>2, <3>3
  <2>5. QED BY <1>2, <2>2, <2>3, <2>4 DEF DaemonStep
<1>3. QED BY <1>1, <1>2

\* A restart closes every connection, and records the command it cut short.
LEMMA RestartKeeps ==
  ASSUME IInv, Restart, UNCHANGED clientVars
  PROVE  IInv'
<1> DEFINE mine == {c \in Clients : conn[c] \in {"queued", "served"}}
<1>1. /\ conn' = [c \in Clients |-> IF c \in mine THEN "closed" ELSE conn[c]]
      /\ backlog' = << >> /\ served' = None /\ dpc' = "accept" /\ UNCHANGED <<http, cpc>>
  BY DEF Restart, clientVars
<1>2. \A c \in Clients : c \notin mine => c # served
  BY DEF IInv, OnePlace
<1>3. Closes
  BY <1>1, <1>2 DEF IInv, OnePlace, Closes
<1>4. Recorded
  BY DEF Restart, Recorded
<1>5. QED BY <1>3, <1>4, ClosesKeeps

\* A client that begins has no connection and nothing done, whichever protocol it speaks.
LEMMA BeginKeeps ==
  ASSUME IInv, NEW c \in Clients, Begin(c)
  PROVE  IInv'
<1>1. PICK b : http' = [http EXCEPT ![c] = b]
  BY DEF Begin
<1>2. /\ cpc[c] = "idle" /\ cpc' = [cpc EXCEPT ![c] = "ready"]
      /\ UNCHANGED <<conn, backlog, served, dpc, hist>>
  BY DEF Begin, daemonVars
<1>3. /\ DOMAIN http = Clients /\ DOMAIN cpc = Clients /\ conn[c] = "none"
      /\ \A i \in 1..Len(hist) : hist[i].who # c /\ hist[i].who \in Clients
  BY <1>2 DEF IInv, OnePlace, NothingYet, HistOK
<1>4. \A d \in Clients : d # c => http'[d] = http[d]
  BY <1>1, <1>3
<1>5. OnePlace'
  BY <1>1, <1>2, <1>3 DEF IInv, OnePlace
<1>6. NothingYet' /\ HistOK'
  BY <1>2, <1>3, <1>4 DEF IInv, NothingYet, HistOK
<1>7. ServedIsLast'
  BY <1>2, <1>3, <1>4 DEF IInv, ServedIsLast
<1>8. Atomic'
  BY <1>2, <1>3, <1>4 DEF IInv, Atomic
<1>9. QED BY <1>5, <1>6, <1>7, <1>8 DEF IInv

\* Only a client without a connection, or a browser whose last one was closed, is queued.
LEMMA SendKeeps ==
  ASSUME IInv, NEW c \in Clients, Send(c)
  PROVE  IInv'
<1>1. /\ cpc' = [cpc EXCEPT ![c] = "waiting"] /\ UNCHANGED <<served, dpc, hist, http>>
      /\ DOMAIN conn = Clients /\ DOMAIN http = Clients /\ DOMAIN cpc = Clients
      /\ backlog \in Seq(Clients)
  BY DEF Send, IInv, OnePlace
<1>2. CASE UNCHANGED <<backlog, conn>>
  <2>1. ServesOn /\ Recorded
    BY <1>1, <1>2 DEF ServesOn, Recorded
  <2>2. QED BY <2>1, ServesOnKeeps
<1>3. CASE /\ conn[c] = "none" \/ (http[c] /\ conn[c] = "closed")
           /\ backlog' = Append(backlog, c) /\ conn' = [conn EXCEPT ![c] = "queued"]
  <2>1. /\ backlog' \in Seq(Clients) /\ Len(backlog') = Len(backlog) + 1 /\ Len(backlog) \in Nat
        /\ backlog'[Len(backlog) + 1] = c
        /\ \A i \in 1..Len(backlog) : backlog'[i] = backlog[i]
    BY <1>1, <1>3
  <2>2. \A i \in 1..Len(backlog) :
          backlog[i] \in Clients /\ backlog[i] # c /\ conn[backlog[i]] = "queued"
    BY <1>1, <1>3 DEF IInv, OnePlace
  <2>3. conn'[c] = "queued" /\ \A d \in Clients : d # c => conn'[d] = conn[d]
    BY <1>1, <1>3
  <2>4. OnePlace'
    <3>1. \A i \in 1..Len(backlog') : conn'[backlog'[i]] = "queued"
      BY <2>1, <2>2, <2>3
    <3>2. \A i, j \in 1..Len(backlog') : backlog'[i] = backlog'[j] => i = j
      BY <2>1, <2>2 DEF IInv, OnePlace
    <3>3. \A d \in Clients : conn'[d] = "served" <=> d = served
      BY <1>3, <2>3 DEF IInv, OnePlace
    <3>4. \A d \in Clients : cpc'[d] = "idle" => conn'[d] = "none"
      BY <1>1, <2>3 DEF IInv, OnePlace
    <3>5. QED BY <1>1, <1>3, <2>1, <3>1, <3>2, <3>3, <3>4 DEF IInv, OnePlace
  <2>5. NothingYet'
    BY <1>1, <1>3, <2>3 DEF IInv, NothingYet
  <2>6. QED BY <1>1, <2>4, <2>5 DEF IInv, HistOK, ServedIsLast, Atomic
<1>4. QED BY <1>2, <1>3 DEF Send, OneCommand

-----------------------------------------------------------------------------

\* Every step keeps the invariant.
LEMMA NextKeeps == IInv /\ [Next]_vars => IInv'
<1>1. SUFFICES ASSUME IInv, [Next]_vars PROVE IInv'
  OBVIOUS
<1>2. ASSUME DaemonStep /\ UNCHANGED clientVars PROVE IInv'
  BY <1>1, <1>2, DaemonStepKeeps
<1>3. ASSUME Restart /\ UNCHANGED clientVars PROVE IInv'
  BY <1>1, <1>3, RestartKeeps
<1>4. ASSUME (Log \/ Enumerate \/ PowerCycle) /\ UNCHANGED clientVars PROVE IInv'
  <2>1. ServesOn /\ Recorded
    BY <1>4 DEF Log, Enumerate, PowerCycle, ServesOn, Recorded, clientVars, daemonVars, netVars
  <2>2. QED BY <1>1, <2>1, ServesOnKeeps
<1>5. ASSUME NEW c \in Clients, Begin(c) PROVE IInv'
  BY <1>1, <1>5, BeginKeeps
<1>6. ASSUME NEW c \in Clients, Send(c) PROVE IInv'
  BY <1>1, <1>6, SendKeeps
<1>7. ASSUME NEW c \in Clients, Receive(c) \/ LoseConnection(c) \/ Leave(c) \/ GiveUp(c) \/ Kill(c)
      PROVE  IInv'
  <2>1. UNCHANGED <<conn, http, backlog, served, dpc, hist>>
    BY <1>7 DEF Receive, LoseConnection, Leave, GiveUp, Kill, daemonVars
  <2>2. PICK how \in {"ready", "ok", "failed", "killed"} :
          cpc' = cpc \/ cpc' = [cpc EXCEPT ![c] = how]
    BY <1>7 DEF Receive, LoseConnection, Leave, GiveUp, Kill, End
  <2>3. ServesOn /\ Recorded
    BY <1>1, <2>1, <2>2 DEF ServesOn, Recorded, IInv, OnePlace
  <2>4. QED BY <1>1, <2>3, ServesOnKeeps
<1>8. ASSUME UNCHANGED vars PROVE IInv'
  <2>1. ServesOn /\ Recorded
    BY <1>8 DEF vars, serverVars, daemonVars, netVars, clientVars, ServesOn, Recorded
  <2>2. QED BY <1>1, <2>1, ServesOnKeeps
<1>9. QED BY <1>1, <1>2, <1>3, <1>4, <1>5, <1>6, <1>7, <1>8 DEF Next, ClientStep

\* It holds before the first connection.
LEMMA InitHolds == Init => IInv
<1>1. SUFFICES ASSUME Init PROVE IInv
  OBVIOUS
<1>2. hist = << >> /\ hist \in Seq({})
  BY <1>1 DEF Init, DaemonInit
<1>3. OnePlace
  BY <1>1, ClientsAssumption DEF Init, DaemonInit, OnePlace
<1>4. QED BY <1>2, <1>3 DEF IInv, HistOK, NothingYet, ServedIsLast, Atomic

\* The invariant holds for any clients, requests and frames.
THEOREM SpecIInv == Spec => []IInv
BY InitHolds, NextKeeps, PTL DEF Spec

\* Two operations of one command-line session have none of another client between them: the
\* daemon's single thread serves a connection to its end, whoever is killed or restarted.
THEOREM SpecSessionIsAtomic == Spec => []SessionIsAtomic
<1>1. IInv => SessionIsAtomic
  <2>1. HistOK => DOMAIN hist = 1..Len(hist)
    BY DEF HistOK
  <2>2. QED BY <2>1 DEF IInv, Atomic, SessionIsAtomic
<1>2. QED BY <1>1, SpecIInv, PTL

-----------------------------------------------------------------------------
(* What a client may count on.                                             *)

Entries == [who : Clients, op : Long, ok : BOOLEAN]

\* The command client c sends next, or waits for the answer to.
Wire(c) == OnWire(Due(c), asked[c].flags)

\* Op may be tried for client c: all before it was done, and nothing failed.
Fits(c, op) ==
  /\ op \in Owed(c) \union {"bootstrap"}
  /\ \A i \in 1..Len(hist) : hist[i].who = c => hist[i].ok /\ Turn[hist[i].op] < Turn[op]
  /\ \A before \in Owed(c) : Turn[before] < Turn[op] => DoneFor(c, before)

\* The types the proofs need, TypeOK among them.
Types ==
  /\ TypeOK
  /\ hist \in Seq(Entries)
  /\ \A c \in Clients : cpc[c] = "idle" \/ http[c] = asked[c].http

\* Only the last frame under way to a client ends its waiting.
FramesOK(c) ==
  \A i \in 1..Len(down[c]) : i < Len(down[c]) => down[c][i].status = "log"

\* What is under way between the daemon and client c.  A command is alone on its
\* connection, from its sending to its answer; a client that left reads nothing.
LineOK(c) ==
  /\ cpc[c] \in {"idle", "ready"} => up[c] = << >> /\ down[c] = << >> /\ ~gone[c]
  /\ cpc[c] = "ready" /\ served = c => dpc = "recv"
  /\ cpc[c] = "waiting" => todo[c] # {} /\ ~gone[c]
  /\ cpc[c] \in {"ok", "failed", "killed"} => down[c] = << >> /\ gone[c]
  /\ up[c] # << >> /\ cpc[c] = "waiting" => up[c][1] = Wire(c) /\ down[c] = << >>
  /\ up[c] # << >> /\ served = c => dpc = "recv"
  /\ served = c /\ dpc # "recv" /\ cpc[c] = "waiting"
       => /\ cmd = Wire(c) /\ Len(down[c]) < MaxFrames
          /\ \A i \in 1..Len(down[c]) : down[c][i].status = "log"

\* The command of every client that is under way, or carried out, may be tried.
SentFits(c) == up[c] # << >> /\ up[c][1] \in Long => Fits(c, up[c][1])
WorkFits ==
  /\ dpc \in {"start", "init", "wait", "work", "verify"} /\ cmd \in Long => Fits(served, cmd)
  /\ dpc \in {"init", "wait", "work", "verify"} => cmd \in Long

\* Client c will read of success.
OkComing(c) ==
  /\ cpc[c] = "waiting"
  /\ \/ \E i \in 1..Len(down[c]) : down[c][i].status = "ok"
     \/ served = c /\ dpc = "reply" /\ answer.ok

\* What was done for a client that goes on, and what is left to do.
Kept(c) ==
  /\ todo[c] \subseteq Plan(asked[c])
  /\ \A op \in Does(asked[c]) \intersect Board :
       op \in todo[c] \/ DoneFor(c, OnWire(op, asked[c].flags))
  /\ BootOwed(c) => "bootstrap" \in todo[c] \/ DoneFor(c, "bootstrap")
  /\ \A i \in 1..Len(hist) : hist[i].who = c =>
       /\ \A r \in todo[c] \intersect Long :
            cpc[c] = "ready" \/ r # Due(c) => Turn[hist[i].op] < Turn[r]
       /\ cpc[c] = "ready" \/ Wire(c) \notin Long \/ OkComing(c) => hist[i].ok
  /\ OkComing(c) /\ Wire(c) \in Long => DoneFor(c, Wire(c))

\* What was done for a client that ended well.
AllDone(c) ==
  /\ \A op \in Owed(c) : DoneFor(c, op)
  /\ BootOwed(c) => DoneFor(c, "bootstrap")

\* A command line that writes and verifies.
Verifying(c) ==
  ~http[c] /\ Branch(asked[c].flags) = "write" /\ "verify" \in asked[c].flags

\* From the answer to its write on, the flash is the client's that is served.
Stored(c) ==
  Active(c) /\ conn[c] = "served" /\ Verifying(c) =>
    /\ "write" \notin todo[c] => flash = c
    /\ OkComing(c) /\ Due(c) = "write" => flash = c

ClientOK(c) ==
  /\ FramesOK(c) /\ LineOK(c)
  /\ Active(c) => Kept(c)
  /\ cpc[c] = "ok" => AllDone(c)

SInv ==
  /\ Types /\ WorkFits /\ StopsAtFailure
  /\ \A c \in Clients : SentFits(c) /\ ClientOK(c) /\ Stored(c)

-----------------------------------------------------------------------------
(* Steps, plans and commands.                                              *)

LEMMA TurnsDiffer ==
  /\ \A r \in Steps : Turn[r] \in Nat
  /\ \A r, s \in Steps : Turn[r] = Turn[s] => r = s
BY DEF Steps, Turn

\* The step due is the first in order of those left.
LEMMA DueIsFirst ==
  ASSUME NEW c \in Clients, todo[c] \subseteq Steps, todo[c] # {}
  PROVE  Due(c) \in todo[c] /\ \A s \in todo[c] : s # Due(c) => Turn[Due(c)] < Turn[s]
<1> DEFINE First(r) == r \in todo[c] /\ \A s \in todo[c] : Turn[r] <= Turn[s]
<1>1. \E r : First(r)
  <2>1. todo[c] \subseteq {"detect", "stage", "variant", "bootstrap", "list", "diag", "erase",
                           "write", "read", "reboot", "status", "cancel"}
    BY DEF Steps, Turn
  <2>2. CASE "detect" \in todo[c]
    BY <2>1, <2>2 DEF Turn
  <2>3. CASE "detect" \notin todo[c] /\ "stage" \in todo[c]
    BY <2>1, <2>3 DEF Turn
  <2>4. CASE {"detect", "stage"} \intersect todo[c] = {} /\ "variant" \in todo[c]
    BY <2>1, <2>4 DEF Turn
  <2>5. CASE {"detect", "stage", "variant"} \intersect todo[c] = {} /\ "bootstrap" \in todo[c]
    BY <2>1, <2>5 DEF Turn
  <2>6. CASE todo[c] \subseteq {"list", "diag", "erase", "write", "read", "reboot", "status",
                                "cancel"}
    <3>1. CASE "list" \in todo[c]
      BY <2>6, <3>1 DEF Turn
    <3>2. CASE "list" \notin todo[c] /\ "diag" \in todo[c]
      BY <2>6, <3>2 DEF Turn
    <3>3. CASE {"list", "diag"} \intersect todo[c] = {} /\ "erase" \in todo[c]
      BY <2>6, <3>3 DEF Turn
    <3>4. CASE {"list", "diag", "erase"} \intersect todo[c] = {} /\ "write" \in todo[c]
      BY <2>6, <3>4 DEF Turn
    <3>5. CASE todo[c] \subseteq {"read", "reboot", "status", "cancel"}
      <4>1. CASE "read" \in todo[c]
        BY <3>5, <4>1 DEF Turn
      <4>2. CASE "read" \notin todo[c] /\ "reboot" \in todo[c]
        BY <3>5, <4>2 DEF Turn
      <4>3. CASE todo[c] \subseteq {"status", "cancel"}
        BY <4>3 DEF Turn
      <4>4. QED BY <3>5, <4>1, <4>2, <4>3
    <3>6. QED BY <2>6, <3>1, <3>2, <3>3, <3>4, <3>5
  <2>7. QED BY <2>1, <2>2, <2>3, <2>4, <2>5, <2>6
<1>2. First(CHOOSE r : First(r))
  BY <1>1
<1>3. Due(c) = CHOOSE r : First(r)
  BY DEF Due
<1>4. First(Due(c))
  BY <1>2, <1>3
<1>5. QED BY <1>4, TurnsDiffer

\* Steps that touch the board go out as commands of their own, each in its turn.
LEMMA WireIs ==
  ASSUME NEW r \in Steps, NEW flags
  PROVE  /\ OnWire(r, flags) \in Commands
         /\ OnWire(r, flags) \in Long <=> r \in Long
         /\ r \in Long => Turn[OnWire(r, flags)] = Turn[r]
         /\ r \in {"bootstrap", "erase", "read", "reboot"} => OnWire(r, flags) = r
         /\ r \in {"erase", "reboot", "write", "read"} <=> OnWire(r, flags) \in Long \ {"bootstrap"}
BY DEF Steps, Turn, OnWire, Commands, Long

\* A branch was asked for, and a bootstrap is put off by no other branch but the list.
LEMMA BranchIs ==
  ASSUME NEW o \in Requests, ~o.http
  PROVE  /\ Branch(o.flags) \in DOMAIN LooksAt /\ Branch(o.flags) \in o.flags
         /\ Branch(o.flags) = "diag" => "boot" \notin o.flags
<1> DEFINE is(i) == i \in DOMAIN Branches /\ Branches[i] \in o.flags
           First(i) == is(i) /\ \A j \in 1..(i - 1) : Branches[j] \notin o.flags
<1>1. \E i : First(i)
  <2>1. \E i \in 1..7 : Branches[i] \in o.flags
    BY RequestsAssumption DEF Branches
  <2>2. DOMAIN Branches = 1..7
    BY DEF Branches
  <2>3. QED BY <2>1, <2>2
<1>2. First(CHOOSE i : First(i))
  BY <1>1
<1>3. PICK i \in 1..7 : First(i) /\ Branch(o.flags) = Branches[i]
  BY <1>2 DEF Branch, Branches
<1>4. QED BY <1>3 DEF Branches, LooksAt

\* What is done is planned, in steps of their own, and so is a bootstrap asked for.
LEMMA PlanIs ==
  ASSUME NEW o \in Requests
  PROVE  /\ Plan(o) \subseteq Steps /\ Does(o) \subseteq Plan(o)
         /\ Plan(o) \intersect Board \subseteq Does(o)
         /\ Board \subseteq Steps \intersect Long
         /\ Steps \intersect Long = Board \union {"bootstrap"}
         /\ "boot" \in o.flags /\ (o.http \/ Branch(o.flags) # "list")
              => "bootstrap" \in Plan(o)
<1>1. /\ Board \subseteq Steps \intersect Long
      /\ Steps \intersect Long = Board \union {"bootstrap"}
  BY DEF Board, Steps, Turn, Long
<1>2. Does(o) \subseteq Plan(o)
  BY DEF Plan
<1>3. Does(o) \subseteq Steps
  <2>1. CASE o.http
    BY <2>1 DEF Does, Steps, Turn
  <2>2. CASE ~o.http
    <3>1. LooksAt[Branch(o.flags)] \subseteq Steps
      BY <2>2, BranchIs DEF LooksAt, Steps, Turn
    <3>2. QED BY <2>2, <3>1 DEF Does
  <2>3. QED BY <2>1, <2>2
<1>4. Plan(o) \subseteq Does(o) \union {"bootstrap", "stage", "variant", "detect"}
  BY DEF Plan, Prepare
<1>5. {"bootstrap", "stage", "variant", "detect"} \subseteq Steps \ Board
  BY DEF Steps, Turn, Board
<1>6. "boot" \in o.flags /\ (o.http \/ Branch(o.flags) # "list") => "bootstrap" \in Plan(o)
  <2>1. CASE o.http
    BY <2>1 DEF Plan
  <2>2. CASE ~o.http
    <3>1. "boot" \in o.flags => Branch(o.flags) # "diag"
      BY <2>2, BranchIs
    <3>2. QED BY <2>2, <3>1 DEF Plan, Prepare
  <2>3. QED BY <2>1, <2>2
<1>7. QED BY <1>1, <1>2, <1>3, <1>4, <1>5, <1>6

\* What is owed to a client are the commands of steps that it does.
LEMMA OwedIs ==
  ASSUME NEW c \in Clients, asked[c] \in Requests
  PROVE  /\ Owed(c) \subseteq Long \ {"bootstrap"}
         /\ \A r \in Does(asked[c]) \intersect Board : OnWire(r, asked[c].flags) \in Owed(c)
         /\ \A op \in Owed(c) : \E r \in Does(asked[c]) \intersect Board :
              OnWire(r, asked[c].flags) = op /\ Turn[op] = Turn[r]
         /\ \A op \in Long : Turn[op] \in Nat
<1>1. /\ \A r \in Does(asked[c]) \intersect Board : r \in Steps \intersect Long
      /\ \A op \in Long : Turn[op] \in Nat
  BY PlanIs DEF Long, Turn
<1>2. \A r \in Does(asked[c]) \intersect Board :
        /\ OnWire(r, asked[c].flags) \in Long \ {"bootstrap"}
        /\ Turn[OnWire(r, asked[c].flags)] = Turn[r]
  BY <1>1, WireIs DEF Board
<1>3. QED BY <1>1, <1>2 DEF Owed

\* A command line that verifies what it writes owes that.
LEMMA VerifyingOwes ==
  ASSUME NEW c \in Clients, asked[c] \in Requests, http[c] = asked[c].http, Verifying(c)
  PROVE  /\ "write" \in Does(asked[c]) /\ OnWire("write", asked[c].flags) = "writeVerify"
         /\ "writeVerify" \in Owed(c) /\ "write" \notin Owed(c)
<1>1. "write" \in asked[c].flags /\ ~asked[c].http
  BY BranchIs DEF Verifying
<1>2. "write" \in Does(asked[c]) /\ OnWire("write", asked[c].flags) = "writeVerify"
  BY <1>1 DEF Verifying, Does, LooksAt, OnWire
<1>3. \A r \in Does(asked[c]) : OnWire(r, asked[c].flags) # "write"
  BY <1>1 DEF Verifying, OnWire
<1>4. QED BY <1>2, <1>3 DEF Owed, Board

-----------------------------------------------------------------------------
(* The history.                                                            *)

\* A step tries the command worked on, or nothing.
Tried(ok) == hist' = Append(hist, [who |-> served, op |-> cmd, ok |-> ok])
Tries ==
  \/ hist' = hist
  \/ dpc \in {"wait", "work", "verify"} /\ \E ok \in BOOLEAN : Tried(ok)

\* The daemon has a client outside of accept().
LEMMA Serving ==
  ASSUME SInv
  PROVE  served \in Clients <=> dpc # "accept"
BY ClientsAssumption DEF SInv, Types, TypeOK, DaemonTypeOK

\* The history keeps what it has; an entry that is new fitted in.
LEMMA HistoryGrows ==
  ASSUME SInv, Tries
  PROVE  /\ hist' \in Seq(Entries) /\ hist \in Seq(Entries)
         /\ Len(hist) \in Nat /\ Len(hist') \in Nat /\ Len(hist) <= Len(hist')
         /\ \A i \in 1..Len(hist) : hist'[i] = hist[i]
         /\ \A i \in 1..Len(hist') : i > Len(hist) =>
              /\ i = Len(hist) + 1 /\ hist' # hist
              /\ dpc \in {"wait", "work", "verify"}
              /\ served \in Clients /\ hist'[i].who = served
              /\ cmd \in Long /\ hist'[i].op = cmd /\ Fits(served, cmd)
              /\ \A ok \in BOOLEAN : Tried(ok) => hist'[i].ok = ok
<1>1. hist \in Seq(Entries)
  BY DEF SInv, Types
<1>2. CASE hist' = hist
  BY <1>1, <1>2
<1>3. CASE hist' # hist
  <2>1. PICK ok \in BOOLEAN : Tried(ok)
    BY <1>3 DEF Tries
  <2>2. dpc \in {"wait", "work", "verify"}
    BY <1>3 DEF Tries
  <2>3. served \in Clients /\ cmd \in Long /\ Fits(served, cmd)
    BY <2>2, Serving DEF SInv, WorkFits
  <2> DEFINE e == [who |-> served, op |-> cmd, ok |-> ok]
  <2>4. e \in Entries /\ e.who = served /\ e.op = cmd /\ e.ok = ok
    BY <2>3 DEF Entries
  <2>5. hist' = Append(hist, e)
    BY <2>1 DEF Tried
  <2>6. \A b \in BOOLEAN : Tried(b) => b = ok
    <3>1. SUFFICES ASSUME NEW b \in BOOLEAN, Tried(b) PROVE b = ok
      OBVIOUS
    <3> DEFINE f == [who |-> served, op |-> cmd, ok |-> b]
    <3>2. f \in Entries /\ f.ok = b
      BY <2>3 DEF Entries
    <3>3. hist' = Append(hist, f)
      BY <3>1 DEF Tried
    <3> HIDE DEF e, f
    <3>4. e = f
      <4>1. Append(hist, e)[Len(hist) + 1] = e /\ Append(hist, f)[Len(hist) + 1] = f
        BY <1>1, <2>4, <3>2, AppendIs
      <4>2. QED BY <4>1, <2>5, <3>3
    <3>5. QED BY <3>4, <3>2, <2>4
  <2> HIDE DEF e
  <2>7. /\ hist' \in Seq(Entries) /\ Len(hist') = Len(hist) + 1 /\ Len(hist) \in Nat
        /\ hist'[Len(hist) + 1] = e
        /\ \A i \in 1..Len(hist) : hist'[i] = hist[i]
    BY <1>1, <2>4, <2>5
  <2>8. QED BY <1>1, <1>3, <2>2, <2>3, <2>4, <2>6, <2>7
<1>4. QED BY <1>2, <1>3

\* What was done stays done, and nothing changes for a client that is not served.
LEMMA HistoryKeeps ==
  ASSUME SInv, Tries, UNCHANGED asked
  PROVE  /\ \A c, op : DoneFor(c, op) => DoneFor(c, op)'
         /\ \A c, op : Owed(c)' = Owed(c)
         /\ \A c, op : (c # served \/ hist' = hist) /\ Fits(c, op) => Fits(c, op)'
         /\ StopsAtFailure'
<1>1. /\ hist' \in Seq(Entries) /\ hist \in Seq(Entries)
      /\ DOMAIN hist = 1..Len(hist) /\ DOMAIN hist' = 1..Len(hist')
      /\ 1..Len(hist) \subseteq 1..Len(hist')
      /\ \A i \in 1..Len(hist) : hist'[i] = hist[i]
  BY HistoryGrows
<1>2. \A c, op : DoneFor(c, op) => DoneFor(c, op)'
  BY <1>1 DEF DoneFor
<1>3. \A c : Owed(c)' = Owed(c)
  BY DEF Owed
<1>4. ASSUME NEW c, NEW op, c # served \/ hist' = hist, Fits(c, op)
      PROVE  Fits(c, op)'
  <2>1. \A i \in 1..Len(hist') : hist'[i].who = c => i \in 1..Len(hist) /\ hist'[i] = hist[i]
    BY <1>4, HistoryGrows
  <2>2. QED BY <1>2, <1>3, <1>4, <2>1 DEF Fits
<1>5. StopsAtFailure'
  <2> SUFFICES ASSUME NEW i \in 1..Len(hist')
               PROVE  LET c == hist'[i].who
                          op == hist'[i].op
                      IN  /\ op \in Owed(c) \union {"bootstrap"}
                          /\ \A j \in 1..(i - 1) : hist'[j].who = c
                               => hist'[j].ok /\ Turn[hist'[j].op] < Turn[op]
                          /\ \A before \in Owed(c) : Turn[before] < Turn[op] =>
                               \E j \in 1..(i - 1) :
                                 hist'[j] = [who |-> c, op |-> before, ok |-> TRUE]
    BY <1>1, <1>3 DEF StopsAtFailure
  <2>1. CASE i \in 1..Len(hist)
    <3>1. \A j \in 1..(i - 1) : j \in 1..Len(hist) /\ hist'[j] = hist[j]
      BY <1>1, <2>1
    <3>2. hist'[i] = hist[i]
      BY <1>1, <2>1
    <3>3. QED BY <1>1, <2>1, <3>1, <3>2 DEF SInv, StopsAtFailure
  <2>2. CASE i \notin 1..Len(hist)
    <3>1. /\ i - 1 = Len(hist) /\ hist'[i].who = served /\ hist'[i].op = cmd
          /\ Fits(served, cmd)
      BY <1>1, <2>2, HistoryGrows
    <3>2. \A before \in Owed(served) : Turn[before] < Turn[cmd] =>
            \E j \in 1..(i - 1) : hist'[j] = [who |-> served, op |-> before, ok |-> TRUE]
      BY <1>1, <3>1 DEF Fits, DoneFor
    <3>3. QED BY <1>1, <3>1, <3>2 DEF Fits
  <2>3. QED BY <2>1, <2>2
<1>6. QED BY <1>2, <1>3, <1>4, <1>5

-----------------------------------------------------------------------------
(* What the daemon's steps leave of what a client counts on.               *)

\* The command worked on is the one that the client served waits for.
LEMMA WorkedOn ==
  ASSUME SInv, NEW c \in Clients, served = c, Active(c), dpc # "recv"
  PROVE  /\ cpc[c] = "waiting" /\ cmd = Wire(c) /\ up[c] = << >>
         /\ Len(down[c]) < MaxFrames
         /\ \A i \in 1..Len(down[c]) : down[c][i].status = "log"
BY DEF SInv, ClientOK, LineOK, Active

\* What was done for a client, if it hears of success only for its command done.
LEMMA KeptOn ==
  ASSUME SInv, Tries, UNCHANGED <<asked, todo, cpc>>, NEW c \in Clients, Active(c),
         OkComing(c)' => OkComing(c) \/ Wire(c) \notin Long \/ (served = c /\ Tried(TRUE))
  PROVE  Kept(c)'
<1>1. /\ Kept(c) /\ todo[c] \subseteq Steps /\ asked[c] \in Requests
      /\ hist \in Seq(Entries)
  BY DEF SInv, ClientOK, Types, TypeOK
<1>2. /\ \A d, op : DoneFor(d, op) => DoneFor(d, op)'
      /\ Wire(c)' = Wire(c) /\ Due(c)' = Due(c) /\ BootOwed(c)' = BootOwed(c)
  BY HistoryKeeps DEF Wire, Due, BootOwed
<1>3. CASE hist' = hist
  <2>1. OkComing(c)' => OkComing(c) \/ Wire(c) \notin Long
    <3>1. hist # Append(hist, [who |-> served, op |-> cmd, ok |-> TRUE])
      <4> DEFINE e == [who |-> served, op |-> cmd, ok |-> TRUE]
      <4> HIDE DEF e
      <4>1. Len(Append(hist, e)) = Len(hist) + 1 /\ Len(hist) \in Nat
        BY <1>1, AppendIs
      <4>2. QED BY <4>1 DEF e
    <3>2. QED BY <1>3, <3>1 DEF Tried
  <2>2. QED BY <1>1, <1>2, <1>3, <2>1 DEF Kept
<1>4. CASE hist' # hist /\ served # c
  <2>1. OkComing(c)' => OkComing(c) \/ Wire(c) \notin Long
    BY <1>4
  <2>2. \A i \in 1..Len(hist') : hist'[i].who = c => i \in 1..Len(hist) /\ hist'[i] = hist[i]
    BY <1>4, HistoryGrows
  <2>3. QED BY <1>1, <1>2, <2>1, <2>2 DEF Kept
<1>5. CASE hist' # hist /\ served = c
  <2>1. dpc \in {"wait", "work", "verify"}
    BY <1>5 DEF Tries
  <2>2. cpc[c] = "waiting" /\ cmd = Wire(c) /\ todo[c] # {}
    BY <1>5, <2>1, WorkedOn DEF SInv, ClientOK, LineOK
  <2>3. /\ cmd \in Long /\ Fits(c, cmd)
    BY <1>5, <2>1 DEF SInv, WorkFits
  <2>4. /\ Due(c) \in todo[c] /\ Due(c) \in Long /\ Turn[cmd] = Turn[Due(c)]
        /\ \A r \in todo[c] : r # Due(c) => Turn[cmd] < Turn[r]
    BY <1>1, <2>2, <2>3, DueIsFirst, WireIs DEF Wire
  <2>5. ~OkComing(c)
    BY <1>5, <2>1, <2>2, WorkedOn DEF OkComing
  <2>6. OkComing(c)' => Tried(TRUE)
    BY <2>2, <2>3, <2>5
  <2>7. OkComing(c)' =>
          \E i \in DOMAIN hist' : hist'[i] = [who |-> c, op |-> cmd, ok |-> TRUE]
    <3>1. SUFFICES ASSUME OkComing(c)'
                   PROVE  \E i \in DOMAIN hist' :
                            hist'[i] = [who |-> c, op |-> cmd, ok |-> TRUE]
      OBVIOUS
    <3> DEFINE e == [who |-> c, op |-> cmd, ok |-> TRUE]
    <3>2. hist' = Append(hist, e) /\ e \in Entries
      BY <1>5, <2>3, <2>6, <3>1 DEF Tried, Entries
    <3> HIDE DEF e
    <3>3. hist' \in Seq(Entries) /\ Len(hist') = Len(hist) + 1 /\ hist'[Len(hist) + 1] = e
          /\ Len(hist) \in Nat
      BY <1>1, <3>2
    <3>4. QED
      <4>1. Len(hist) + 1 \in DOMAIN hist'
        BY <3>3
      <4>2. hist'[Len(hist) + 1] = [who |-> c, op |-> cmd, ok |-> TRUE]
        BY <3>3 DEF e
      <4>3. QED BY <4>1, <4>2
  <2>8. ASSUME NEW i \in 1..Len(hist'), hist'[i].who = c
        PROVE  /\ \A r \in todo[c] \intersect Long : r # Due(c) => Turn[hist'[i].op] < Turn[r]
               /\ OkComing(c)' => hist'[i].ok
    <3>1. CASE i \in 1..Len(hist)
      <4>1. hist'[i] = hist[i]
        BY <3>1, HistoryGrows
      <4>2. QED BY <1>1, <2>3, <2>8, <3>1, <4>1 DEF Kept, Fits
    <3>2. CASE i \notin 1..Len(hist)
      <4>0. i > Len(hist)
        BY <3>2, HistoryGrows
      <4>1. hist'[i].op = cmd /\ (Tried(TRUE) => hist'[i].ok = TRUE)
        BY <4>0, HistoryGrows
      <4>2. QED BY <2>4, <2>6, <4>1
    <3>3. QED BY <3>1, <3>2
  <2>9. cpc'[c] = "waiting" /\ todo'[c] = todo[c] /\ asked'[c] = asked[c] /\ Wire(c)' = cmd
    BY <1>2, <2>2
  <2>10. /\ todo[c] \subseteq Plan(asked[c])
         /\ \A op \in Does(asked[c]) \intersect Board :
              op \in todo[c] \/ DoneFor(c, OnWire(op, asked[c].flags))'
         /\ BootOwed(c) => "bootstrap" \in todo[c] \/ DoneFor(c, "bootstrap")'
    BY <1>1, <1>2 DEF Kept
  <2>11. OkComing(c)' => DoneFor(c, Wire(c))'
    BY <2>7, <2>9 DEF DoneFor
  <2>12. QED BY <1>2, <2>3, <2>8, <2>9, <2>10, <2>11 DEF Kept
<1>6. QED BY <1>3, <1>4, <1>5

\* A client whose connection is not served, before or after, is left as it was.
LEMMA OtherClient ==
  ASSUME SInv, Tries, UNCHANGED <<asked, todo, cpc, gone>>, NEW c \in Clients, served # c,
         down'[c] = down[c], up'[c] \in {up[c], << >>}, served' = c => dpc' = "recv"
  PROVE  ClientOK(c)'
<1>1. ClientOK(c) /\ Due(c)' = Due(c) /\ Wire(c)' = Wire(c)
  BY DEF SInv, Due, Wire
<1>2. FramesOK(c)'
  BY <1>1 DEF ClientOK, FramesOK
<1>3. LineOK(c)'
  BY <1>1 DEF ClientOK, LineOK
<1>4. Active(c) => Kept(c)'
  <2>1. OkComing(c)' => OkComing(c)
    BY DEF OkComing
  <2>2. QED BY <2>1, KeptOn
<1>5. cpc[c] = "ok" => AllDone(c)'
  BY <1>1, HistoryKeeps DEF ClientOK, AllDone, BootOwed
<1>6. QED BY <1>2, <1>3, <1>4, <1>5 DEF ClientOK, Active

\* The client served is left as it was while its command is worked on; the answer tells of
\* success only when it was done.
LEMMA ServedClient ==
  ASSUME SInv, Tries, UNCHANGED <<asked, todo, cpc, gone, served, cmd, up>>,
         NEW c \in Clients, served = c, down'[c] = down[c], dpc \notin {"recv", "reply"},
         Active(c) /\ dpc' = "reply" /\ answer'.ok => Wire(c) \notin Long \/ Tried(TRUE)
  PROVE  ClientOK(c)'
<1>1. ClientOK(c) /\ Due(c)' = Due(c) /\ Wire(c)' = Wire(c)
  BY DEF SInv, Due, Wire
<1>2. FramesOK(c)'
  BY <1>1 DEF ClientOK, FramesOK
<1>3. LineOK(c)'
  BY <1>1 DEF ClientOK, LineOK
<1>4. Active(c) => Kept(c)'
  <2>1. OkComing(c)' => OkComing(c) \/ Wire(c) \notin Long \/ Tried(TRUE)
    BY DEF OkComing, Active
  <2>2. QED BY <2>1, KeptOn
<1>5. cpc[c] = "ok" => AllDone(c)'
  BY <1>1, HistoryKeeps DEF ClientOK, AllDone, BootOwed
<1>6. QED BY <1>2, <1>3, <1>4, <1>5 DEF ClientOK, Active

\* An active client that is served is not between two sessions.
LEMMA ServedIsNot ==
  ASSUME IInv, NEW c \in Clients, served = c
  PROVE  cpc[c] # "idle" /\ conn[c] = "served" /\ dpc # "accept"
BY ClientsAssumption DEF IInv, OnePlace

\* A command that arrived is the one its sender waits for.
LEMMA RecvClient ==
  ASSUME SInv, IInv, Recv, UNCHANGED <<asked, todo, cpc>>, NEW c \in Clients, served = c
  PROVE  ClientOK(c)' /\ up'[c] = << >> /\ cmd' = up[c][1] /\ up[c] # << >> /\ cmd' \in Commands
<1>1. /\ up' = [up EXCEPT ![c] = Tail(up[c])] /\ up[c] # << >> /\ cmd' = Head(up[c])
      /\ dpc' = "start" /\ dpc = "recv" /\ UNCHANGED <<served, down, gone, hist>>
  BY DEF Recv
<1>2. up \in [Clients -> Seq(Commands)] /\ Len(up[c]) <= 1
  BY DEF SInv, Types, TypeOK, DaemonTypeOK
<1>3. up'[c] = << >> /\ cmd' = up[c][1] /\ cmd' \in Commands
  BY <1>1, <1>2
<1>4. ClientOK(c) /\ Due(c)' = Due(c) /\ Wire(c)' = Wire(c) /\ cpc[c] # "idle"
  BY ServedIsNot DEF SInv, Due, Wire
<1>5. FramesOK(c)'
  BY <1>1, <1>4 DEF ClientOK, FramesOK
<1>6. LineOK(c)'
  <2>1. CASE cpc[c] = "waiting"
    <3>1. up[c][1] = Wire(c) /\ down[c] = << >>
      BY <1>1, <1>4, <2>1 DEF ClientOK, LineOK
    <3>2. Len(<< >>) = 0 /\ Len(<< >>) < MaxFrames
      BY ClientsAssumption
    <3>3. QED BY <1>1, <1>3, <1>4, <2>1, <3>1, <3>2 DEF ClientOK, LineOK
  <2>2. CASE cpc[c] # "waiting"
    <3>1. cpc[c] # "ready"
      BY <1>1, <1>4 DEF ClientOK, LineOK
    <3>2. QED BY <1>1, <1>3, <1>4, <2>2, <3>1 DEF ClientOK, LineOK
  <2>3. QED BY <2>1, <2>2
<1>7. Active(c) => Kept(c)'
  <2>1. OkComing(c)' => OkComing(c)
    BY <1>1 DEF OkComing
  <2>2. QED BY <1>1, <2>1, KeptOn DEF Tries
<1>8. cpc[c] = "ok" => AllDone(c)'
  BY <1>1, <1>4, HistoryKeeps DEF ClientOK, AllDone, BootOwed, Tries
<1>9. QED BY <1>1, <1>3, <1>5, <1>6, <1>7, <1>8 DEF ClientOK, Active

\* A client whose connection is closed keeps the frames it has.
LEMMA ClosedClient ==
  ASSUME SInv, IInv, Tries, UNCHANGED <<asked, todo, cpc, gone>>, NEW c \in Clients,
         served = c, served' = None, down'[c] = down[c], up'[c] = << >>
  PROVE  ClientOK(c)'
<1>1. ClientOK(c) /\ Due(c)' = Due(c) /\ Wire(c)' = Wire(c) /\ served' # c
  BY ClientsAssumption DEF SInv, Due, Wire
<1>2. FramesOK(c)'
  BY <1>1 DEF ClientOK, FramesOK
<1>3. LineOK(c)'
  BY <1>1 DEF ClientOK, LineOK
<1>4. Active(c) => Kept(c)'
  <2>1. OkComing(c)' => OkComing(c)
    BY <1>1 DEF OkComing
  <2>2. QED BY <2>1, KeptOn
<1>5. cpc[c] = "ok" => AllDone(c)'
  BY <1>1, HistoryKeeps DEF ClientOK, AllDone, BootOwed
<1>6. QED BY <1>2, <1>3, <1>4, <1>5 DEF ClientOK, Active

\* A frame that goes out to a client that is there goes to one that waits for its answer.
LEMMA FrameGoesOut ==
  ASSUME SInv, IInv, NEW c \in Clients, served = c, ~gone[c], dpc # "recv",
         NEW frame \in Frames, down' = [down EXCEPT ![c] = Append(@, frame)]
  PROVE  /\ cpc[c] = "waiting" /\ cmd = Wire(c) /\ up[c] = << >>
         /\ Len(down[c]) < MaxFrames /\ Len(down'[c]) = Len(down[c]) + 1 /\ Len(down[c]) \in Nat
         /\ \A i \in 1..Len(down[c]) : down[c][i].status = "log" /\ down'[c][i] = down[c][i]
         /\ down'[c][Len(down[c]) + 1] = frame
         /\ \A d \in Clients : down'[d] \in Seq(Frames) /\ (d # c => down'[d] = down[d])
<1>1. cpc[c] = "waiting"
  BY ServedIsNot DEF SInv, ClientOK, LineOK, Types, TypeOK
<1>2. /\ \A d \in Clients : down[d] \in Seq(Frames)
      /\ DOMAIN down = Clients
  BY DEF SInv, Types, TypeOK, DaemonTypeOK
<1>3. QED BY <1>1, <1>2, WorkedOn DEF Active

\* Log output is read on past, and is over before the answer.
LEMMA LogClient ==
  ASSUME SInv, IInv, Log, UNCHANGED clientVars, NEW c \in Clients, served = c
  PROVE  /\ ClientOK(c)' /\ \A d \in Clients : down'[d] \in Seq(Frames)
         /\ \A d \in Clients : d # c => down'[d] = down[d]
         /\ Len(down'[c]) <= MaxFrames /\ DOMAIN down' = Clients
<1> DEFINE frame == [status |-> "log", says |-> Nothing]
<1>1. /\ logTo = c /\ ~gone[c] /\ Len(down[c]) + 1 < MaxFrames
      /\ down' = [down EXCEPT ![c] = Append(@, frame)]
      /\ dpc \in {"start", "init", "wait", "work", "verify"}
      /\ UNCHANGED <<asked, todo, cpc, gone, up, served, cmd, dpc, answer, hist>>
  BY DEF Log, SInv, Types, TypeOK, DaemonTypeOK, daemonVars, clientVars
<1>2. frame \in Frames /\ frame.status = "log"
  BY DEF Frames, Says
<1> HIDE DEF frame
<1>3. /\ cpc[c] = "waiting" /\ cmd = Wire(c) /\ up[c] = << >> /\ Len(down[c]) \in Nat
      /\ Len(down'[c]) = Len(down[c]) + 1
      /\ \A i \in 1..Len(down[c]) : down[c][i].status = "log" /\ down'[c][i] = down[c][i]
      /\ down'[c][Len(down[c]) + 1] = frame
      /\ \A d \in Clients : down'[d] \in Seq(Frames) /\ (d # c => down'[d] = down[d])
  BY <1>1, <1>2, FrameGoesOut
<1>4. ClientOK(c) /\ Due(c)' = Due(c) /\ Wire(c)' = Wire(c)
  BY <1>1 DEF SInv, Due, Wire
<1>5. \A i \in 1..Len(down'[c]) : down'[c][i].status = "log"
  BY <1>2, <1>3
<1>6. Len(down'[c]) < MaxFrames /\ MaxFrames \in Nat
  BY <1>1, <1>3, ClientsAssumption
<1>7. FramesOK(c)' /\ LineOK(c)'
  BY <1>1, <1>3, <1>4, <1>5, <1>6 DEF ClientOK, FramesOK, LineOK
<1>8. Kept(c)'
  <2>1. ~OkComing(c)'
    BY <1>1, <1>5 DEF OkComing
  <2>2. QED BY <1>1, <1>3, <2>1, KeptOn DEF Tries, Active
<1>9. DOMAIN down' = Clients
  BY <1>1 DEF SInv, Types, TypeOK, DaemonTypeOK
<1>10. QED BY <1>1, <1>3, <1>6, <1>7, <1>8, <1>9 DEF ClientOK

\* An answer is the last frame, and tells a client that waits how its command ended.
LEMMA ReplyClient ==
  ASSUME SInv, IInv, Reply, UNCHANGED clientVars, NEW c \in Clients, served = c
  PROVE  /\ ClientOK(c)' /\ \A d \in Clients : down'[d] \in Seq(Frames)
         /\ \A d \in Clients : d # c => down'[d] = down[d] /\ up'[d] = up[d]
         /\ Len(down'[c]) <= MaxFrames /\ DOMAIN down' = Clients
<1> DEFINE frame == [status |-> IF answer.ok THEN "ok" ELSE "error", says |-> answer.says]
<1>1. /\ down' = [down EXCEPT ![c] = IF gone[c] THEN @ ELSE Append(@, frame)]
      /\ dpc = "reply" /\ UNCHANGED <<asked, todo, cpc, gone, hist>>
      /\ \/ dpc' = "recv" /\ up' = up /\ served' = c
         \/ dpc' = "accept" /\ up' = [up EXCEPT ![c] = << >>] /\ served' = None
  BY DEF Reply, Close, clientVars
<1>2. /\ answer \in [ok : BOOLEAN, says : Says] /\ gone \in [Clients -> BOOLEAN]
      /\ \A d \in Clients : down[d] \in Seq(Frames) /\ Len(down[d]) <= MaxFrames
      /\ DOMAIN down = Clients /\ DOMAIN up = Clients
  BY DEF SInv, Types, TypeOK, DaemonTypeOK
<1>3. frame \in Frames /\ frame.status # "log" /\ (frame.status = "ok" => answer.ok)
  BY <1>2 DEF Frames
<1> HIDE DEF frame
<1>4. /\ ClientOK(c) /\ Due(c)' = Due(c) /\ Wire(c)' = Wire(c) /\ None # c /\ cpc[c] # "idle"
      /\ up'[c] \in {up[c], << >>} /\ \A d \in Clients : d # c => up'[d] = up[d]
      /\ (served' = c => dpc' = "recv") /\ DOMAIN down' = Clients
  BY <1>1, <1>2, ServedIsNot, ClientsAssumption DEF SInv, Due, Wire
<1>5. CASE gone[c]
  <2>1. (\A d \in Clients : down'[d] = down[d]) /\ Len(down[c]) <= MaxFrames
    BY <1>1, <1>2, <1>5
  <2>2. ~Active(c) /\ cpc[c] # "waiting" /\ cpc[c] # "ready"
    BY <1>4, <1>5 DEF ClientOK, LineOK, Active
  <2>3. FramesOK(c)' /\ LineOK(c)'
    BY <1>1, <1>4, <2>1, <2>2 DEF ClientOK, FramesOK, LineOK
  <2>4. cpc[c] = "ok" => AllDone(c)'
    BY <1>1, <1>4, HistoryKeeps DEF ClientOK, AllDone, BootOwed, Tries
  <2>5. QED BY <1>1, <1>2, <1>4, <2>1, <2>2, <2>3, <2>4 DEF ClientOK, Active
<1>6. CASE ~gone[c]
  <2>1. down' = [down EXCEPT ![c] = Append(@, frame)]
    BY <1>1, <1>6
  <2>2. /\ cpc[c] = "waiting" /\ up[c] = << >>
        /\ Len(down[c]) < MaxFrames /\ Len(down'[c]) = Len(down[c]) + 1 /\ Len(down[c]) \in Nat
        /\ \A i \in 1..Len(down[c]) : down[c][i].status = "log" /\ down'[c][i] = down[c][i]
        /\ down'[c][Len(down[c]) + 1] = frame
        /\ \A d \in Clients : down'[d] \in Seq(Frames) /\ (d # c => down'[d] = down[d])
    BY <1>1, <1>3, <1>6, <2>1, FrameGoesOut
  <2>3. FramesOK(c)' /\ Len(down'[c]) <= MaxFrames
    BY <2>2, ClientsAssumption DEF FramesOK
  <2>4. LineOK(c)'
    BY <1>1, <1>4, <2>2 DEF ClientOK, LineOK
  <2>5. Kept(c)'
    <3>1. OkComing(c)' => OkComing(c)
      <4>1. SUFFICES ASSUME OkComing(c)' PROVE OkComing(c)
        OBVIOUS
      <4>2. \E i \in 1..Len(down'[c]) : down'[c][i].status = "ok"
        BY <1>4, <4>1 DEF OkComing
      <4>3. frame.status = "ok"
        BY <2>2, <4>2
      <4>4. QED BY <1>1, <1>3, <2>2, <4>3 DEF OkComing
    <3>2. QED BY <1>1, <2>2, <3>1, KeptOn DEF Tries, Active
  <2>6. QED BY <1>1, <1>4, <2>2, <2>3, <2>4, <2>5 DEF ClientOK
<1>7. QED BY <1>5, <1>6

-----------------------------------------------------------------------------
(* Types.                                                                  *)

\* Only the command worked on goes into the history.
LEMMA DaemonTries ==
  ASSUME DaemonStep \/ Restart \/ Log \/ Enumerate \/ PowerCycle
  PROVE  Tries
<1>1. CASE Accept \/ Recv \/ HangUp \/ Start \/ Initialise \/ Reply \/ Log \/ Enumerate \/ PowerCycle
  BY <1>1 DEF Accept, Recv, HangUp, Start, Initialise, Reply, Log, Enumerate, PowerCycle, Tries
<1>2. CASE PickAlt \/ Verify
  BY <1>2 DEF PickAlt, WaitEnds, Verify, Fail, Finish, Tries, Tried
<1>3. CASE Work
  BY <1>3 DEF Work, Bootstrap, Erase, Write, Read, Reboot, Fail, Finish, Tries, Tried
<1>4. CASE Restart
  BY <1>4 DEF Restart, Tries, Tried
<1>5. QED BY <1>1, <1>2, <1>3, <1>4 DEF DaemonStep

\* The part of the types that a daemon's step changes, but for the connections.
StepTypes ==
  /\ stage \in Stages /\ flash \in Clients \union {"old", "blank", "garbage"}
  /\ dpc \in {"accept", "recv", "start", "init", "wait", "work", "verify", "reply"}
  /\ cmd \in Commands \union {Nothing}
  /\ answer \in [ok : BOOLEAN, says : Says]
  /\ state \in States /\ logTo \in {None, served}
  /\ conn \in [Clients -> {"none", "queued", "served", "closed"}]
  /\ up \in [Clients -> Seq(Commands)] /\ \A c \in Clients : Len(up[c]) <= 1
  /\ down \in [Clients -> Seq(Frames)] /\ \A c \in Clients : Len(down[c]) <= MaxFrames

LEMMA StepTypesHold == SInv => StepTypes
BY DEF SInv, Types, TypeOK, DaemonTypeOK, StepTypes

LEMMA TypesKept ==
  ASSUME SInv, IInv', Tries, StepTypes', UNCHANGED <<clientVars, http, gone>>
  PROVE  Types'
<1>1. hist' \in Seq(Entries)
  BY HistoryGrows
<1>2. /\ Types
      /\ backlog' \in Seq(Clients) /\ served' \in Clients \union {None}
      /\ served' = None <=> dpc' = "accept"
  BY DEF SInv, IInv, OnePlace
<1>3. QED BY <1>1, <1>2 DEF Types, TypeOK, DaemonTypeOK, StepTypes, clientVars

\* What is said is among what the daemon says.
LEMMA SaysAre ==
  /\ \A ok \in BOOLEAN, says \in Says :
       Answer(ok, says) => answer' \in [ok : BOOLEAN, says : Says] /\ dpc' = "reply"
  /\ Stages \subseteq Says /\ States \subseteq Says
  /\ {"OK", "report", "image", "refused", "failed", Nothing} \subseteq Says
  /\ \A op \in DOMAIN Doing : Doing[op] \in States
  /\ "idle" \in States /\ "verifying" \in States
BY DEF Answer, Says, States

\* A command that ends leaves the daemon between two states.
LEMMA FinishTypes ==
  ASSUME StepTypes, NEW ok \in BOOLEAN, NEW says \in Says, Finish(ok, says)
  PROVE  /\ answer' \in [ok : BOOLEAN, says : Says] /\ dpc' = "reply"
         /\ state' \in States /\ logTo' \in {None, served}
BY SaysAre DEF Finish, LogEnds, StepTypes

\* Each step of the daemon keeps them.
LEMMA DaemonTypes ==
  ASSUME SInv, IInv, IInv', DaemonStep, UNCHANGED clientVars
  PROVE  StepTypes'
<1> USE StepTypesHold
<1>0. dpc # "accept" => served \in Clients
  BY Serving
<1>1. CASE Accept
  <2>1. Head(backlog) \in Clients
    BY <1>1 DEF Accept, IInv, OnePlace
  <2>2. QED BY <1>1, <2>1 DEF Accept, StepTypes, boardVars
<1>2. CASE Recv
  <2>1. served \in Clients /\ cmd' \in Commands /\ up'[served] = << >>
    BY <1>0, <1>2, RecvClient DEF Recv, clientVars
  <2>2. up' = [up EXCEPT ![served] = << >>]
    <3>1. up' = [up EXCEPT ![served] = Tail(@)] /\ up \in [Clients -> Seq(Commands)]
      BY <1>2 DEF Recv, StepTypes
    <3>2. QED BY <2>1, <3>1
  <2>3. << >> \in Seq(Commands) /\ Len(<< >>) <= 1
    OBVIOUS
  <2>4. QED BY <1>2, <2>1, <2>2, <2>3 DEF Recv, StepTypes, boardVars
<1>3. CASE HangUp
  BY <1>0, <1>3 DEF HangUp, Close, LogEnds, StepTypes, boardVars
<1>4. CASE Start
  <2>1. answer' \in [ok : BOOLEAN, says : Says] /\ dpc' \in {"reply", "init"}
    BY <1>4, SaysAre DEF Start, Refuse, StepTypes
  <2>2. state' \in States /\ UNCHANGED <<stage, flash, served, cmd, logTo, conn, up, down>>
    BY <1>4, SaysAre DEF Start, Sets, StepTypes, boardVars, netVars
  <2>3. QED BY <2>1, <2>2 DEF StepTypes
<1>5. CASE Initialise
  <2>1. answer' \in [ok : BOOLEAN, says : Says] /\ dpc' \in {"reply", "work", "wait"}
    BY <1>5, SaysAre DEF Initialise, Refuse, StepTypes
  <2>2. state' \in States /\ logTo' \in {None, served}
    BY <1>5, SaysAre DEF Initialise, Sets, StepTypes
  <2>3. UNCHANGED <<stage, flash, served, cmd, conn, up, down>>
    BY <1>5 DEF Initialise, boardVars, netVars
  <2>4. QED BY <2>1, <2>2, <2>3 DEF StepTypes
<1>6. CASE PickAlt
  <2>1. /\ answer' \in [ok : BOOLEAN, says : Says] /\ dpc' \in {"reply", "work"}
        /\ state' \in States /\ logTo' \in {None, served}
    BY <1>6, FinishTypes, SaysAre DEF PickAlt, WaitEnds, Fail, StepTypes
  <2>2. UNCHANGED <<stage, flash, served, cmd, conn, up, down>>
    BY <1>6 DEF PickAlt, boardVars, netVars
  <2>3. QED BY <2>1, <2>2 DEF StepTypes
<1>7. CASE Work
  <2>1. /\ answer' \in [ok : BOOLEAN, says : Says] /\ dpc' \in {"reply", "verify"}
        /\ state' \in States /\ logTo' \in {None, served}
    BY <1>7, FinishTypes, SaysAre DEF Work, Bootstrap, Erase, Write, Read, Reboot, Fail, StepTypes
  <2>2. stage' \in Stages /\ flash' \in Clients \union {"old", "blank", "garbage"}
    BY <1>0, <1>7 DEF Work, Bootstrap, Erase, Write, Read, Reboot, StepTypes, Stages, boardVars
  <2>3. UNCHANGED <<served, cmd, conn, up, down>>
    BY <1>7 DEF Work, netVars
  <2>4. QED BY <2>1, <2>2, <2>3 DEF StepTypes
<1>8. CASE Verify
  <2>1. /\ answer' \in [ok : BOOLEAN, says : Says] /\ dpc' = "reply"
        /\ state' \in States /\ logTo' \in {None, served}
    BY <1>8, FinishTypes, SaysAre DEF Verify, Fail
  <2>2. UNCHANGED <<stage, flash, served, cmd, conn, up, down>>
    BY <1>8 DEF Verify, boardVars, netVars
  <2>3. QED BY <2>1, <2>2 DEF StepTypes
<1>9. CASE Reply
  <2>1. served \in Clients
    BY <1>0, <1>9 DEF Reply
  <2>2. \A c \in Clients : down'[c] \in Seq(Frames) /\ Len(down'[c]) <= MaxFrames
    <3>1. /\ \A d \in Clients : down'[d] \in Seq(Frames)
          /\ \A d \in Clients : d # served => down'[d] = down[d]
          /\ Len(down'[served]) <= MaxFrames
      BY <1>9, <2>1, ReplyClient
    <3>2. QED BY <3>1 DEF StepTypes
  <2>3. down' \in [Clients -> Seq(Frames)]
    BY <1>9, <2>2 DEF Reply, StepTypes
  <2>4. /\ cmd' = Nothing /\ answer' \in [ok : BOOLEAN, says : Says]
        /\ UNCHANGED <<stage, flash, state>>
    BY <1>9 DEF Reply, Says, boardVars
  <2>5. CASE dpc' = "recv" /\ UNCHANGED <<conn, up, served, logTo>>
    BY <2>2, <2>3, <2>4, <2>5 DEF StepTypes
  <2>6. CASE Close
    BY <2>1, <2>2, <2>3, <2>4, <2>6 DEF StepTypes, Close, LogEnds
  <2>7. QED BY <1>9, <2>5, <2>6 DEF Reply
<1>10. QED BY <1>1, <1>2, <1>3, <1>4, <1>5, <1>6, <1>7, <1>8, <1>9 DEF DaemonStep

-----------------------------------------------------------------------------
(* The steps of the daemon and of the board.                               *)

\* What a client sent, and was not received, may still be tried.
LEMMA SentStill ==
  ASSUME SInv, Tries, UNCHANGED asked, NEW c \in Clients, up'[c] \in {up[c], << >>}
  PROVE  SentFits(c)'
<1>1. SUFFICES ASSUME up'[c] = up[c], up[c] # << >>, up[c][1] \in Long
               PROVE  Fits(c, up[c][1])'
  BY DEF SentFits
<1>2. Fits(c, up[c][1])
  BY <1>1 DEF SInv, SentFits
<1>3. c # served \/ hist' = hist
  BY <1>1 DEF SInv, ClientOK, LineOK, Tries
<1>4. QED BY <1>1, <1>2, <1>3, HistoryKeeps

\* So may the command that is worked on, as long as it is not over.
LEMMA WorkStill ==
  ASSUME SInv, Tries, UNCHANGED asked,
         \/ dpc' \in {"accept", "recv", "reply"}
         \/ /\ UNCHANGED <<hist, served, cmd>>
            /\ dpc \in {"start", "init", "wait", "work", "verify"}
            /\ dpc = "start" => dpc' = "start" \/ cmd \in Long
  PROVE  WorkFits'
<1>1. CASE dpc' \in {"accept", "recv", "reply"}
  BY <1>1 DEF WorkFits
<1>2. CASE dpc' \notin {"accept", "recv", "reply"}
  <2>1. cmd \in Long => Fits(served, cmd)
    BY <1>2 DEF SInv, WorkFits
  <2>2. cmd' = cmd /\ served' = served /\ \A c, op : Fits(c, op) => Fits(c, op)'
    BY <1>2, HistoryKeeps
  <2>3. QED BY <1>2, <2>1, <2>2 DEF SInv, WorkFits
<1>3. QED BY <1>1, <1>2

\* A flash that nobody touches holds what it held.
LEMMA StoredStill ==
  ASSUME SInv, UNCHANGED <<asked, todo, cpc, http, flash>>, NEW c \in Clients,
         conn'[c] = "served" => conn[c] = "served",
         OkComing(c)' /\ Due(c) = "write" => OkComing(c) \/ flash = c
  PROVE  Stored(c)'
<1>1. Stored(c) /\ Due(c)' = Due(c)
  BY DEF SInv, Due
<1>2. QED BY <1>1 DEF Stored, Active, Verifying

\* What the invariant says of the clients and of their commands.
ClientsOK ==
  WorkFits /\ \A c \in Clients : SentFits(c) /\ ClientOK(c) /\ Stored(c)

\* A connection accepted is a browser's, or one that nothing was done for yet.
LEMMA AcceptClients ==
  ASSUME SInv, IInv, Accept, UNCHANGED clientVars
  PROVE  ClientsOK'
<1> DEFINE h == Head(backlog)
<1>1. /\ served = None /\ dpc = "accept" /\ dpc' = "recv" /\ served' = h
      /\ conn' = [conn EXCEPT ![h] = "served"]
      /\ UNCHANGED <<asked, todo, cpc, gone, http, up, down, hist, flash, answer>>
  BY DEF Accept, clientVars, boardVars, IInv, OnePlace
<1>2. h \in Clients /\ conn[h] = "queued"
  <2>1. backlog \in Seq(Clients) /\ backlog # << >>
    BY DEF Accept, IInv, OnePlace
  <2>2. 1 \in 1..Len(backlog) /\ h = backlog[1] /\ h \in Clients
    BY <2>1
  <2>3. QED BY <2>2 DEF IInv, OnePlace
<1> HIDE DEF h
<1>3. Tries
  BY <1>1 DEF Tries
<1>4. WorkFits'
  BY <1>1, <1>3, WorkStill
<1>5. ASSUME NEW c \in Clients
      PROVE  SentFits(c)' /\ ClientOK(c)' /\ Stored(c)'
  <2>1. served # c
    BY <1>1, ClientsAssumption
  <2>2. SentFits(c)' /\ ClientOK(c)'
    BY <1>1, <1>3, <2>1, SentStill, OtherClient
  <2>3. OkComing(c)' => OkComing(c)
    BY <1>1 DEF OkComing
  <2>4. CASE c # h
    <3>1. conn'[c] = conn[c]
      BY <1>1, <2>4 DEF IInv, OnePlace
    <3>2. QED BY <1>1, <2>2, <2>3, <3>1, StoredStill
  <2>5. CASE c = h /\ Verifying(c) /\ Active(c)
    <3>1. \A i \in 1..Len(hist) : hist[i].who # c
      BY <1>2, <2>5 DEF IInv, NothingYet, Verifying
    <3>2. /\ http[c] = asked[c].http /\ asked[c] \in Requests /\ hist \in Seq(Entries)
          /\ Kept(c) /\ todo[c] \subseteq Steps
      BY <2>5 DEF SInv, Types, TypeOK, ClientOK, Active
    <3>3. ~DoneFor(c, "writeVerify")
      BY <3>1, <3>2 DEF DoneFor
    <3>4. "write" \in Does(asked[c]) /\ OnWire("write", asked[c].flags) = "writeVerify"
      BY <2>5, <3>2, VerifyingOwes
    <3>5. "write" \in todo[c]
      BY <3>2, <3>3, <3>4 DEF Kept, Board
    <3>6. ~(OkComing(c) /\ Due(c) = "write")
      <4>1. Due(c) = "write" => Wire(c) = "writeVerify"
        BY <3>4 DEF Wire
      <4>2. QED BY <3>2, <3>3, <4>1 DEF Kept, Long
    <3>7. Due(c)' = Due(c)
      BY <1>1 DEF Due
    <3>8. Stored(c)'
      BY <1>1, <2>3, <3>5, <3>6, <3>7 DEF Stored
    <3>9. QED BY <2>2, <3>8
  <2>6. CASE ~(Verifying(c) /\ Active(c))
    <3>1. Stored(c)'
      BY <1>1, <2>6 DEF Stored, Verifying, Active
    <3>2. QED BY <2>2, <3>1
  <2>7. QED BY <2>4, <2>5, <2>6
<1>6. QED BY <1>4, <1>5 DEF ClientsOK

\* The command received is the one sent, and may be tried.
LEMMA RecvClients ==
  ASSUME SInv, IInv, Recv, UNCHANGED clientVars
  PROVE  ClientsOK'
<1>1. /\ dpc = "recv" /\ dpc' = "start" /\ served \in Clients
      /\ up' = [up EXCEPT ![served] = Tail(up[served])]
      /\ UNCHANGED <<served, asked, todo, cpc, gone, http, conn, down, hist, flash, answer>>
  BY Serving DEF Recv, clientVars, boardVars
<1>2. Tries
  BY <1>1 DEF Tries
<1>3. /\ up'[served] = << >> /\ cmd' = up[served][1] /\ up[served] # << >> /\ ClientOK(served)'
  BY <1>1, RecvClient
<1>4. WorkFits'
  <2>1. cmd' \in Long => Fits(served, cmd')
    BY <1>1, <1>3 DEF SInv, SentFits
  <2>2. \A c, op : Fits(c, op) => Fits(c, op)'
    BY <1>1, <1>2, HistoryKeeps
  <2>3. QED BY <1>1, <2>1, <2>2 DEF WorkFits
<1>5. ASSUME NEW c \in Clients
      PROVE  SentFits(c)' /\ ClientOK(c)' /\ Stored(c)'
  <2>1. c # served => up'[c] = up[c]
    BY <1>1 DEF SInv, Types, TypeOK, DaemonTypeOK
  <2>2. SentFits(c)'
    BY <1>1, <1>2, <1>3, <2>1, SentStill
  <2>3. ClientOK(c)'
    BY <1>1, <1>2, <1>3, <2>1, OtherClient
  <2>4. OkComing(c)' => OkComing(c)
    BY <1>1 DEF OkComing
  <2>5. QED BY <1>1, <2>2, <2>3, <2>4, StoredStill
<1>6. QED BY <1>4, <1>5 DEF ClientsOK

\* A connection that ends takes nothing back.
LEMMA HangUpClients ==
  ASSUME SInv, IInv, HangUp, UNCHANGED clientVars
  PROVE  ClientsOK'
<1>1. /\ dpc = "recv" /\ dpc' = "accept" /\ served \in Clients /\ served' = None
      /\ up' = [up EXCEPT ![served] = << >>] /\ conn' = [conn EXCEPT ![served] = "closed"]
      /\ UNCHANGED <<asked, todo, cpc, gone, http, down, hist, flash, answer>>
  BY Serving DEF HangUp, Close, clientVars, boardVars
<1>2. Tries /\ None \notin Clients
  BY <1>1, ClientsAssumption DEF Tries
<1>3. WorkFits'
  BY <1>1, <1>2, WorkStill
<1>4. ASSUME NEW c \in Clients
      PROVE  SentFits(c)' /\ ClientOK(c)' /\ Stored(c)'
  <2>1. /\ c # served => up'[c] = up[c] /\ conn'[c] = conn[c]
        /\ up'[served] = << >> /\ conn'[served] = "closed"
    BY <1>1 DEF SInv, Types, TypeOK, DaemonTypeOK
  <2>2. SentFits(c)'
    BY <1>1, <1>2, <2>1, SentStill
  <2>3. ClientOK(c)'
    BY <1>1, <1>2, <2>1, OtherClient, ClosedClient
  <2>4. OkComing(c)' => OkComing(c)
    BY <1>1 DEF OkComing
  <2>5. QED BY <1>1, <2>1, <2>2, <2>3, <2>4, StoredStill
<1>5. QED BY <1>3, <1>4 DEF ClientsOK

\* A step on the command: it changes the board or says how the command ended, and no success
\* but of a command that was tried, or of a query.
Works ==
  /\ UNCHANGED <<clientVars, served, cmd, netVars>>
  /\ dpc \in {"start", "init", "wait", "work", "verify"}
  /\ \/ dpc' = "reply"
     \/ /\ dpc' \in {"init", "wait", "work", "verify"} /\ UNCHANGED hist
        /\ dpc = "start" => cmd \in Long
  /\ dpc' = "reply" /\ answer'.ok => cmd \notin Long \/ Tried(TRUE)

\* What such a step may do to the flash: not once it holds what a client had verified.
FlashWorks ==
  \/ /\ flash' = flash
     /\ dpc' = "reply" /\ answer'.ok /\ cmd = "writeVerify" => flash = served
  \/ cmd \in {"erase", "write"}
  \/ cmd = "writeVerify" /\ ~(dpc' = "reply" /\ answer'.ok)

LEMMA WorksClients ==
  ASSUME SInv, IInv, Tries, Works, FlashWorks
  PROVE  ClientsOK'
<1>1. /\ UNCHANGED <<asked, todo, cpc, gone, http, conn, up, down, served, cmd>>
      /\ served \in Clients /\ dpc \notin {"recv", "reply"}
  BY Serving DEF Works, clientVars, netVars
<1>2. WorkFits'
  BY <1>1, WorkStill DEF Works
<1>3. ASSUME NEW c \in Clients
      PROVE  SentFits(c)' /\ ClientOK(c)' /\ Stored(c)'
  <2>1. SentFits(c)'
    BY <1>1, SentStill
  <2>2. CASE c # served
    <3>1. ClientOK(c)'
      BY <1>1, <2>2, OtherClient
    <3>2. conn[c] # "served"
      BY <2>2 DEF IInv, OnePlace
    <3>3. QED BY <1>1, <2>1, <3>1, <3>2 DEF Stored
  <2>3. CASE c = served /\ ~Active(c)
    <3>1. ClientOK(c)'
      BY <1>1, <2>3, ServedClient
    <3>2. QED BY <1>1, <2>1, <2>3, <3>1 DEF Stored, Active
  <2>4. CASE c = served /\ Active(c)
    <3>1. /\ cmd = Wire(c) /\ cpc[c] = "waiting" /\ \A i \in 1..Len(down[c]) : down[c][i].status = "log"
      BY <1>1, <2>4, WorkedOn
    <3>2. ClientOK(c)'
      BY <1>1, <2>4, <3>1, ServedClient DEF Works
    <3>3. OkComing(c)' <=> dpc' = "reply" /\ answer'.ok
      BY <1>1, <2>4, <3>1 DEF OkComing
    <3>4. Due(c)' = Due(c)
      BY <1>1 DEF Due
    <3>5. CASE ~(Verifying(c) /\ conn[c] = "served")
      BY <1>1, <2>1, <3>2, <3>5 DEF Stored, Verifying
    <3>6. CASE Verifying(c)
      <4>1. /\ http[c] = asked[c].http /\ asked[c] \in Requests /\ hist \in Seq(Entries)
            /\ todo[c] \subseteq Steps /\ Due(c) \in todo[c] /\ Kept(c) /\ Stored(c)
        <5>1. todo[c] # {} /\ todo[c] \subseteq Steps
          BY <3>1 DEF SInv, ClientOK, LineOK, Types, TypeOK
        <5>2. QED BY <2>4, <3>1, <5>1, DueIsFirst DEF SInv, Types, TypeOK, ClientOK
      <4>2. /\ "write" \in Does(asked[c]) /\ OnWire("write", asked[c].flags) = "writeVerify"
            /\ "writeVerify" \in Owed(c) /\ "write" \notin Owed(c)
        BY <3>6, <4>1, VerifyingOwes
      <4>3. Due(c) = "write" => cmd = "writeVerify"
        BY <3>1, <4>2 DEF Wire
      <4>4. CASE flash' = flash /\ (dpc' = "reply" /\ answer'.ok /\ cmd = "writeVerify" => flash = served)
        BY <1>1, <2>1, <2>4, <3>2, <3>3, <4>3, <4>4, StoredStill
      <4>5. CASE cmd \in {"erase", "writeVerify"} /\ ~(dpc' = "reply" /\ answer'.ok /\ cmd = "writeVerify")
        <5>1. Fits(c, cmd)
          BY <2>4, <4>5 DEF SInv, WorkFits, Works, Long
        <5>2. ~DoneFor(c, "writeVerify")
          <6>1. SUFFICES ASSUME DoneFor(c, "writeVerify") PROVE FALSE
            OBVIOUS
          <6>2. DOMAIN hist = 1..Len(hist)
            BY <4>1
          <6>3. PICK i \in 1..Len(hist) : hist[i] = [who |-> c, op |-> "writeVerify", ok |-> TRUE]
            BY <6>1, <6>2 DEF DoneFor
          <6>4. hist[i].who = c /\ hist[i].op = "writeVerify"
            BY <6>3
          <6>5. Turn["writeVerify"] < Turn[cmd]
            BY <5>1, <6>4 DEF Fits
          <6>6. QED BY <4>5, <6>5 DEF Turn
        <5>3. "write" \in todo[c]
          BY <4>1, <4>2, <5>2 DEF Kept, Board
        <5>4. ~(OkComing(c)' /\ Due(c) = "write")
          BY <3>3, <4>3, <4>5
        <5>5. QED BY <1>1, <2>1, <3>2, <3>4, <5>3, <5>4 DEF Stored
      <4>6. cmd # "write"
        <5>1. cmd = "write" => Fits(c, cmd)
          BY <2>4 DEF SInv, WorkFits, Works, Long
        <5>2. QED BY <4>2, <5>1 DEF Fits
      <4>7. QED BY <4>4, <4>5, <4>6 DEF FlashWorks
    <3>7. QED BY <3>5, <3>6
  <2>5. QED BY <2>2, <2>3, <2>4
<1>4. QED BY <1>2, <1>3 DEF ClientsOK

\* Every step of the daemon between a command and its answer is one.
LEMMA StepsWork ==
  ASSUME SInv, Start \/ Initialise \/ PickAlt \/ Work \/ Verify, UNCHANGED clientVars
  PROVE  Works /\ FlashWorks
<1>1. dpc \in {"init", "wait", "work", "verify"} => cmd \in Long
  BY DEF SInv, WorkFits
<1>2. \A ok, says : Answer(ok, says) => answer'.ok = ok /\ dpc' = "reply"
  BY DEF Answer
<1>3. \A ok, says : Finish(ok, says) => answer'.ok = ok /\ dpc' = "reply" /\ Tried(ok)
  BY DEF Finish, Tried, Answer
<1>4. CASE Start
  <2>1. Works
    BY <1>2, <1>4 DEF Start, Refuse, Works, Long
  <2>2. FlashWorks
    BY <1>2, <1>4 DEF Start, Refuse, FlashWorks, boardVars
  <2>3. QED BY <2>1, <2>2
<1>5. CASE Initialise
  BY <1>1, <1>2, <1>5 DEF Initialise, Refuse, Works, FlashWorks, boardVars
<1>6. CASE PickAlt
  BY <1>1, <1>3, <1>6 DEF PickAlt, WaitEnds, Fail, Works, FlashWorks, boardVars
<1>7. CASE Work
  <2>1. Works
    BY <1>1, <1>3, <1>7 DEF Work, Bootstrap, Erase, Write, Read, Reboot, Fail, Works
  <2>2. FlashWorks
    BY <1>3, <1>7 DEF Work, Bootstrap, Erase, Write, Read, Reboot, Fail, FlashWorks, Verifies, boardVars
  <2>3. QED BY <2>1, <2>2
<1>8. CASE Verify
  BY <1>1, <1>3, <1>8 DEF Verify, Fail, Works, FlashWorks, boardVars
<1>9. QED BY <1>4, <1>5, <1>6, <1>7, <1>8

\* An answer goes to the client that waits for it.
LEMMA ReplyClients ==
  ASSUME SInv, IInv, Reply, UNCHANGED clientVars
  PROVE  ClientsOK'
<1>1. /\ dpc = "reply" /\ dpc' \in {"recv", "accept"} /\ served \in Clients
      /\ served' \in {served, None} /\ up' \in {up, [up EXCEPT ![served] = << >>]}
      /\ conn' \in {conn, [conn EXCEPT ![served] = "closed"]}
      /\ UNCHANGED <<asked, todo, cpc, gone, http, hist, flash>>
      /\ down' = [down EXCEPT ![served] =
                    IF gone[served] THEN @
                    ELSE Append(@, [status |-> IF answer.ok THEN "ok" ELSE "error",
                                    says |-> answer.says])]
  BY Serving DEF Reply, Close, clientVars, boardVars
<1>2. Tries /\ None \notin Clients
  BY <1>1, ClientsAssumption DEF Tries
<1>3. WorkFits'
  BY <1>1, <1>2, WorkStill
<1>4. \A c \in Clients :
        /\ c = served => ClientOK(c)'
        /\ c # served => down'[c] = down[c] /\ up'[c] = up[c]
  BY <1>1, ReplyClient
<1>5. ASSUME NEW c \in Clients
      PROVE  SentFits(c)' /\ ClientOK(c)' /\ Stored(c)'
  <2>1. /\ up'[c] \in {up[c], << >>} /\ conn'[c] \in {conn[c], "closed"}
        /\ c # served => up'[c] = up[c] /\ down'[c] = down[c]
    BY <1>1, <1>4 DEF SInv, Types, TypeOK, DaemonTypeOK
  <2>2. SentFits(c)'
    BY <1>1, <1>2, <2>1, SentStill
  <2>3. ClientOK(c)'
    BY <1>1, <1>2, <1>4, <2>1, OtherClient
  <2>4. OkComing(c)' => OkComing(c)
    <3>1. CASE c # served
      BY <1>1, <2>1, <3>1 DEF OkComing
    <3>2. CASE c = served /\ gone[c]
      BY <1>1, <3>2 DEF SInv, ClientOK, LineOK, OkComing
    <3>3. CASE c = served /\ ~gone[c] /\ cpc[c] = "waiting"
      <4> DEFINE frame == [status |-> IF answer.ok THEN "ok" ELSE "error", says |-> answer.says]
      <4>1. /\ down[c] \in Seq(Frames) /\ c \in DOMAIN down
        BY DEF SInv, Types, TypeOK, DaemonTypeOK
      <4>2. /\ \A i \in 1..Len(down[c]) : down[c][i].status = "log"
            /\ frame.status = "ok" => answer.ok
        BY <1>1, <3>3, WorkedOn DEF Active
      <4>3. down'[c] = Append(down[c], frame)
        BY <1>1, <3>3, <4>1
      <4> HIDE DEF frame
      <4>4. /\ Len(down'[c]) = Len(down[c]) + 1 /\ Len(down[c]) \in Nat
            /\ down'[c][Len(down[c]) + 1] = frame
            /\ \A i \in 1..Len(down[c]) : down'[c][i] = down[c][i]
        BY <4>1, <4>3, AppendIs
      <4>5. (\E i \in 1..Len(down'[c]) : down'[c][i].status = "ok") => answer.ok
        BY <4>2, <4>4
      <4>6. QED BY <1>1, <3>3, <4>5, ClientsAssumption DEF OkComing
    <3>4. QED BY <1>1, <3>1, <3>2, <3>3 DEF OkComing
  <2>5. QED BY <1>1, <2>1, <2>2, <2>3, <2>4, StoredStill
<1>6. QED BY <1>3, <1>5 DEF ClientsOK

\* Log output is no answer.
LEMMA LogClients ==
  ASSUME SInv, IInv, Log, UNCHANGED clientVars
  PROVE  ClientsOK'
<1>1. /\ served \in Clients /\ dpc \in {"start", "init", "wait", "work", "verify"}
      /\ UNCHANGED <<asked, todo, cpc, gone, http, conn, up, served, cmd, dpc, hist, flash, answer>>
  BY Serving DEF Log, clientVars, boardVars, daemonVars
<1>2. Tries
  BY <1>1 DEF Tries
<1>3. WorkFits'
  BY <1>1, <1>2, WorkStill
<1>4. ClientOK(served)' /\ \A d \in Clients : d # served => down'[d] = down[d]
  BY <1>1, LogClient
<1>5. ASSUME NEW c \in Clients
      PROVE  SentFits(c)' /\ ClientOK(c)' /\ Stored(c)'
  <2>1. SentFits(c)'
    BY <1>1, <1>2, SentStill
  <2>2. ClientOK(c)'
    BY <1>1, <1>2, <1>4, OtherClient
  <2>3. CASE c # served
    <3>1. conn[c] # "served"
      BY <2>3 DEF IInv, OnePlace
    <3>2. QED BY <1>1, <2>1, <2>2, <3>1 DEF Stored
  <2>4. CASE c = served
    <3>1. ClientOK(c)' /\ (cpc[c] = "waiting" => ~OkComing(c)')
      <4>1. cpc[c] = "waiting" => \A i \in 1..Len(down'[c]) : down'[c][i].status = "log"
        BY <1>1, <1>4, <2>4 DEF ClientOK, LineOK
      <4>2. QED BY <1>1, <2>2, <4>1 DEF OkComing
    <3>2. ~OkComing(c)'
      BY <1>1, <3>1 DEF OkComing
    <3>3. QED BY <1>1, <2>1, <2>2, <3>2, StoredStill
  <2>5. QED BY <2>3, <2>4
<1>6. QED BY <1>3, <1>5 DEF ClientsOK

\* A restart ends connections, and what was worked on has failed.
LEMMA RestartClients ==
  ASSUME SInv, IInv, Restart, UNCHANGED clientVars
  PROVE  ClientsOK'
<1> DEFINE mine == {c \in Clients : conn[c] \in {"queued", "served"}}
<1>1. /\ dpc' = "accept" /\ served' = None
      /\ conn' = [c \in Clients |-> IF c \in mine THEN "closed" ELSE conn[c]]
      /\ up' = [c \in Clients |-> IF c \in mine THEN << >> ELSE up[c]]
      /\ UNCHANGED <<asked, todo, cpc, gone, http, down>>
  BY DEF Restart, clientVars
<1>2. Tries /\ None \notin Clients
  BY DaemonTries, ClientsAssumption
<1>3. WorkFits'
  BY <1>1, <1>2, WorkStill
<1>4. ASSUME NEW c \in Clients
      PROVE  SentFits(c)' /\ ClientOK(c)' /\ Stored(c)'
  <2>1. /\ up'[c] \in {up[c], << >>} /\ conn'[c] # "served"
        /\ c = served => up'[c] = << >>
    BY <1>1 DEF IInv, OnePlace
  <2>2. SentFits(c)'
    BY <1>1, <1>2, <2>1, SentStill
  <2>3. ClientOK(c)'
    BY <1>1, <1>2, <2>1, OtherClient, ClosedClient
  <2>4. QED BY <2>1, <2>2, <2>3 DEF Stored
<1>5. QED BY <1>3, <1>4 DEF ClientsOK

-----------------------------------------------------------------------------
(* The steps of the clients.                                               *)

\* Nothing changes for client d.
Untouched(d) ==
  /\ asked'[d] = asked[d] /\ todo'[d] = todo[d] /\ cpc'[d] = cpc[d]
  /\ conn'[d] = conn[d] /\ http'[d] = http[d] /\ gone'[d] = gone[d]
  /\ up'[d] = up[d] /\ down'[d] = down[d]

\* A client's own step: the daemon and the board stay, and so does every other client.
OwnStep(c) ==
  /\ UNCHANGED <<served, dpc, cmd, answer, state, logTo, stage, flash, hist>>
  /\ \A d \in Clients : d # c => Untouched(d)

LEMMA UntouchedStays ==
  ASSUME SInv, NEW d \in Clients, Untouched(d),
         UNCHANGED <<served, dpc, cmd, answer, flash, hist>>
  PROVE  SentFits(d)' /\ ClientOK(d)' /\ Stored(d)'
<1>1. /\ asked'[d] = asked[d] /\ todo'[d] = todo[d] /\ cpc'[d] = cpc[d]
      /\ conn'[d] = conn[d] /\ http'[d] = http[d] /\ gone'[d] = gone[d]
      /\ up'[d] = up[d] /\ down'[d] = down[d]
      /\ UNCHANGED <<served, dpc, cmd, answer, flash, hist>>
  BY DEF Untouched
<1>2. /\ Owed(d)' = Owed(d) /\ Due(d)' = Due(d) /\ Wire(d)' = Wire(d)
      /\ BootOwed(d)' = BootOwed(d) /\ Active(d)' = Active(d) /\ Verifying(d)' = Verifying(d)
      /\ OkComing(d)' = OkComing(d)
  BY <1>1 DEF Owed, Due, Wire, BootOwed, Active, Verifying, OkComing
<1>3. \A op : /\ DoneFor(d, op) <=> DoneFor(d, op)'
              /\ Fits(d, op) => Fits(d, op)'
  BY <1>1, <1>2 DEF DoneFor, Fits
<1>4. SentFits(d)' /\ Stored(d)'
  BY <1>1, <1>2, <1>3 DEF SInv, SentFits, Stored
<1>5. FramesOK(d)' /\ LineOK(d)'
  BY <1>1, <1>2 DEF SInv, ClientOK, FramesOK, LineOK
<1>6. Active(d) => Kept(d)'
  BY <1>1, <1>2, <1>3 DEF SInv, ClientOK, Kept
<1>7. cpc[d] = "ok" => AllDone(d)'
  BY <1>1, <1>2, <1>3 DEF SInv, ClientOK, AllDone
<1>8. QED BY <1>1, <1>2, <1>4, <1>5, <1>6, <1>7 DEF ClientOK

\* The history, and the command that is worked on, are as good as they were.
LEMMA HistoryStays ==
  ASSUME SInv, NEW c \in Clients, OwnStep(c),
         asked'[c] = asked[c] \/ (served # c /\ \A i \in 1..Len(hist) : hist[i].who # c)
  PROVE  StopsAtFailure' /\ WorkFits'
<1>1. /\ \A d \in Clients : d # c => asked'[d] = asked[d]
      /\ UNCHANGED <<hist, served, dpc, cmd>>
      /\ hist \in Seq(Entries)
  BY DEF OwnStep, Untouched, SInv, Types
<1>2. /\ DOMAIN hist = 1..Len(hist)
      /\ \A i \in 1..Len(hist) : hist[i].who \in Clients
  <2>1. DOMAIN hist = 1..Len(hist) /\ \A i \in 1..Len(hist) : hist[i] \in Entries
    BY <1>1
  <2>2. \A e \in Entries : e.who \in Clients
    BY DEF Entries
  <2>3. QED BY <2>1, <2>2
<1>3. \A d \in Clients : asked'[d] = asked[d] => Owed(d)' = Owed(d)
  BY DEF Owed
<1>4. StopsAtFailure'
  <2> SUFFICES ASSUME NEW i \in 1..Len(hist)
               PROVE  LET d == hist[i].who
                          op == hist[i].op
                      IN  /\ op \in Owed(d)' \union {"bootstrap"}
                          /\ \A j \in 1..(i - 1) : hist[j].who = d
                               => hist[j].ok /\ Turn[hist[j].op] < Turn[op]
                          /\ \A before \in Owed(d)' : Turn[before] < Turn[op] =>
                               \E j \in 1..(i - 1) :
                                 hist[j] = [who |-> d, op |-> before, ok |-> TRUE]
    BY <1>1, <1>2 DEF StopsAtFailure
  <2>1. Owed(hist[i].who)' = Owed(hist[i].who)
    BY <1>1, <1>2, <1>3
  <2>2. QED BY <1>2, <2>1 DEF SInv, StopsAtFailure
<1>5. WorkFits'
  <2>1. ASSUME dpc \in {"start", "init", "wait", "work", "verify"}, cmd \in Long
        PROVE  Fits(served, cmd)'
    <3>1. served \in Clients /\ Fits(served, cmd)
      BY <2>1, Serving DEF SInv, WorkFits
    <3>2. Owed(served)' = Owed(served)
      BY <1>1, <1>3, <3>1 DEF Owed
    <3>3. QED BY <1>1, <3>1, <3>2 DEF Fits, DoneFor
  <2>2. QED BY <1>1, <2>1 DEF SInv, WorkFits
<1>6. QED BY <1>4, <1>5

\* Together: what a client's own step has to establish is about itself.
LEMMA OwnStepKeeps ==
  ASSUME SInv, IInv', NEW c \in Clients, OwnStep(c),
         asked'[c] = asked[c] \/ (served # c /\ \A i \in 1..Len(hist) : hist[i].who # c),
         asked' \in [Clients -> Requests], http' \in [Clients -> BOOLEAN],
         gone' \in [Clients -> BOOLEAN], todo' \in [Clients -> SUBSET Steps],
         cpc' \in [Clients -> {"idle", "ready", "waiting", "ok", "failed", "killed"}],
         conn' \in [Clients -> {"none", "queued", "served", "closed"}],
         up' \in [Clients -> Seq(Commands)], Len(up'[c]) <= 1,
         down' \in [Clients -> Seq(Frames)], Len(down'[c]) <= MaxFrames,
         cpc'[c] = "idle" \/ http'[c] = asked'[c].http,
         SentFits(c)', ClientOK(c)', Stored(c)'
  PROVE  SInv'
<1>1. /\ UNCHANGED <<served, dpc, cmd, answer, state, logTo, stage, flash, hist>>
      /\ \A d \in Clients : d # c =>
           asked'[d] = asked[d] /\ cpc'[d] = cpc[d] /\ http'[d] = http[d]
             /\ up'[d] = up[d] /\ down'[d] = down[d]
  BY DEF OwnStep, Untouched
<1>2. \A d \in Clients : Len(up'[d]) <= 1 /\ Len(down'[d]) <= MaxFrames
  BY <1>1 DEF SInv, Types, TypeOK, DaemonTypeOK
<1>3. \A d \in Clients : cpc'[d] = "idle" \/ http'[d] = asked'[d].http
  BY <1>1 DEF SInv, Types
<1>4. TypeOK'
  <2>1. DaemonTypeOK'
    BY <1>1, <1>2 DEF SInv, Types, TypeOK, DaemonTypeOK, IInv, OnePlace
  <2>2. QED BY <1>2, <2>1 DEF TypeOK
<1>5. Types'
  BY <1>1, <1>3, <1>4 DEF SInv, Types
<1>6. StopsAtFailure' /\ WorkFits'
  BY HistoryStays
<1>7. \A d \in Clients : SentFits(d)' /\ ClientOK(d)' /\ Stored(d)'
  BY UntouchedStays DEF OwnStep
<1>8. QED BY <1>5, <1>6, <1>7 DEF SInv

\* A client begins with nothing done, and everything planned.
LEMMA BeginClients ==
  ASSUME SInv, IInv, IInv', NEW c \in Clients, Begin(c)
  PROVE  SInv'
<1>1. PICK o \in Requests :
        /\ asked' = [asked EXCEPT ![c] = o] /\ http' = [http EXCEPT ![c] = o.http]
        /\ todo' = [todo EXCEPT ![c] = Plan(o)]
  BY DEF Begin
<1>2. /\ cpc[c] = "idle" /\ cpc' = [cpc EXCEPT ![c] = "ready"]
      /\ UNCHANGED <<served, dpc, cmd, answer, state, logTo, stage, flash, hist, conn, gone, up, down>>
  BY DEF Begin, daemonVars, boardVars
<1>3. TypeOK /\ DaemonTypeOK
  BY DEF SInv, Types, TypeOK
<1>4. OwnStep(c)
  BY <1>1, <1>2, <1>3 DEF OwnStep, Untouched, TypeOK, DaemonTypeOK
<1>5. /\ served # c /\ conn[c] = "none" /\ \A i \in 1..Len(hist) : hist[i].who # c
      /\ up[c] = << >> /\ down[c] = << >> /\ ~gone[c]
  BY <1>2 DEF IInv, OnePlace, NothingYet, SInv, ClientOK, LineOK
<1>6. /\ asked'[c] = o /\ todo'[c] = Plan(o) /\ cpc'[c] = "ready" /\ http'[c] = o.http
      /\ Plan(o) \subseteq Steps /\ o.http \in BOOLEAN
  BY <1>1, <1>2, <1>3, PlanIs, RequestsAssumption DEF TypeOK, DaemonTypeOK
<1>7. FramesOK(c)' /\ LineOK(c)' /\ SentFits(c)' /\ Stored(c)'
  BY <1>2, <1>5, <1>6 DEF FramesOK, LineOK, SentFits, Stored
<1>8. Kept(c)'
  <2>1. ~OkComing(c)'
    BY <1>6 DEF OkComing
  <2>2. Does(o) \subseteq Plan(o) /\ (BootOwed(c)' => "bootstrap" \in Plan(o))
    BY <1>6, PlanIs DEF BootOwed
  <2>3. QED BY <1>2, <1>5, <1>6, <2>1, <2>2 DEF Kept
<1>9. ClientOK(c)'
  BY <1>6, <1>7, <1>8 DEF ClientOK
<1>10. /\ asked' \in [Clients -> Requests] /\ http' \in [Clients -> BOOLEAN]
       /\ todo' \in [Clients -> SUBSET Steps]
       /\ cpc' \in [Clients -> {"idle", "ready", "waiting", "ok", "failed", "killed"}]
  BY <1>1, <1>2, <1>3, <1>6 DEF TypeOK, DaemonTypeOK
<1>11. /\ gone' \in [Clients -> BOOLEAN] /\ conn' \in [Clients -> {"none", "queued", "served", "closed"}]
       /\ up' \in [Clients -> Seq(Commands)] /\ Len(up'[c]) <= 1
       /\ down' \in [Clients -> Seq(Frames)] /\ Len(down'[c]) <= MaxFrames
  BY <1>2, <1>3 DEF TypeOK, DaemonTypeOK
<1>12. QED BY <1>4, <1>5, <1>6, <1>7, <1>9, <1>10, <1>11, OwnStepKeeps

\* A client that ends takes no further part; success is claimed when nothing is left to do.
LEMMA EndClients ==
  ASSUME SInv, IInv, IInv', NEW c \in Clients, Active(c),
         NEW how \in {"ok", "failed", "killed"}, End(c, how),
         how = "ok" => cpc[c] = "ready" /\ todo[c] = {},
         UNCHANGED <<daemonVars, boardVars, conn, http, up, hist, asked>>
  PROVE  SInv'
<1>1. /\ cpc' = [cpc EXCEPT ![c] = how] /\ todo' = [todo EXCEPT ![c] = {}]
      /\ gone' = [gone EXCEPT ![c] = TRUE] /\ down' = [down EXCEPT ![c] = << >>]
      /\ UNCHANGED <<served, dpc, cmd, answer, state, logTo, stage, flash, hist, conn, http, up, asked>>
  BY DEF End, daemonVars, boardVars
<1>2. TypeOK /\ DaemonTypeOK
  BY DEF SInv, Types, TypeOK
<1>3. OwnStep(c)
  BY <1>1, <1>2 DEF OwnStep, Untouched, TypeOK, DaemonTypeOK
<1>4. cpc'[c] = how /\ todo'[c] = {} /\ gone'[c] = TRUE /\ down'[c] = << >>
  BY <1>1, <1>2 DEF TypeOK, DaemonTypeOK
<1>5. ClientOK(c) /\ SentFits(c) /\ (cpc[c] = "idle" \/ http[c] = asked[c].http) /\ cpc[c] # "idle"
  BY DEF SInv, Types, Active
<1>6. SentFits(c)'
  BY <1>1, <1>5 DEF SentFits, Fits, Owed, DoneFor
<1>7. FramesOK(c)' /\ Stored(c)'
  BY <1>4 DEF FramesOK, Stored, Active
<1>8. LineOK(c)'
  BY <1>1, <1>4, <1>5 DEF ClientOK, LineOK
<1>9. how = "ok" => AllDone(c)'
  <2>1. SUFFICES ASSUME how = "ok" PROVE AllDone(c)'
    OBVIOUS
  <2>2. Kept(c) /\ todo[c] = {} /\ asked[c] \in Requests
    BY <1>2, <1>5, <2>1 DEF ClientOK, TypeOK
  <2>3. AllDone(c)
    BY <2>2, OwedIs DEF Kept, AllDone, Owed
  <2>4. QED BY <1>1, <2>3 DEF AllDone, Owed, BootOwed, DoneFor
<1>10. ClientOK(c)'
  BY <1>4, <1>7, <1>8, <1>9 DEF ClientOK, Active
<1>11. /\ todo' \in [Clients -> SUBSET Steps] /\ gone' \in [Clients -> BOOLEAN]
       /\ cpc' \in [Clients -> {"idle", "ready", "waiting", "ok", "failed", "killed"}]
       /\ down' \in [Clients -> Seq(Frames)] /\ Len(down'[c]) <= MaxFrames
  <2>1. << >> \in Seq(Frames) /\ Len(<< >>) <= MaxFrames
    BY ClientsAssumption
  <2>2. QED BY <1>1, <1>2, <1>4, <2>1 DEF TypeOK, DaemonTypeOK
<1>12. /\ asked' \in [Clients -> Requests] /\ http' \in [Clients -> BOOLEAN]
       /\ conn' \in [Clients -> {"none", "queued", "served", "closed"}]
       /\ up' \in [Clients -> Seq(Commands)] /\ Len(up'[c]) <= 1
  BY <1>1, <1>2 DEF TypeOK, DaemonTypeOK
<1>13. asked'[c] = asked[c] /\ (cpc'[c] = "idle" \/ http'[c] = asked'[c].http)
  BY <1>1, <1>5
<1>14. QED BY <1>3, <1>6, <1>7, <1>10, <1>11, <1>12, <1>13, OwnStepKeeps

\* A client that is ready may have the command of its next step tried.
LEMMA ReadyFits ==
  ASSUME SInv, NEW c \in Clients, cpc[c] = "ready", todo[c] # {}, Wire(c) \in Long
  PROVE  Fits(c, Wire(c))
<1> DEFINE r == Due(c)
           o == asked[c]
<1>1. Kept(c) /\ todo[c] \subseteq Steps /\ o \in Requests
  BY DEF SInv, ClientOK, Types, TypeOK, Active
<1>2. r \in todo[c] /\ \A s \in todo[c] : s # r => Turn[r] < Turn[s]
  BY <1>1, DueIsFirst
<1>3. r \in Steps \intersect Long /\ Turn[Wire(c)] = Turn[r] /\ Turn[r] \in Nat
  BY <1>1, <1>2, WireIs, TurnsDiffer DEF Wire
<1>4. Wire(c) \in Owed(c) \union {"bootstrap"}
  <2>1. CASE r = "bootstrap"
    BY <1>2, <1>1, <2>1, WireIs DEF Wire
  <2>2. CASE r # "bootstrap"
    <3>1. r \in Does(o) \intersect Board
      BY <1>1, <1>2, <1>3, <2>2, PlanIs DEF Kept
    <3>2. QED BY <1>1, <3>1, OwedIs DEF Wire
  <2>3. QED BY <2>1, <2>2
<1>5. \A i \in 1..Len(hist) : hist[i].who = c => hist[i].ok /\ Turn[hist[i].op] < Turn[Wire(c)]
  BY <1>1, <1>2, <1>3 DEF Kept
<1>6. ASSUME NEW before \in Owed(c), Turn[before] < Turn[Wire(c)]
      PROVE  DoneFor(c, before)
  <2>1. PICK s \in Does(o) \intersect Board : OnWire(s, o.flags) = before /\ Turn[before] = Turn[s]
    BY <1>1, OwedIs
  <2>2. s \in Steps /\ Turn[s] \in Nat
    BY <1>1, <2>1, PlanIs, TurnsDiffer
  <2>3. s \notin todo[c]
    BY <1>2, <1>3, <1>6, <2>1, <2>2
  <2>4. QED BY <1>1, <2>1, <2>3 DEF Kept
<1>7. QED BY <1>4, <1>5, <1>6 DEF Fits

\* A client asks for its next step, and then waits.
LEMMA SendClients ==
  ASSUME SInv, IInv, IInv', NEW c \in Clients, Send(c)
  PROVE  SInv'
<1>1. /\ cpc[c] = "ready" /\ todo[c] # {} /\ cpc' = [cpc EXCEPT ![c] = "waiting"]
      /\ up' = [up EXCEPT ![c] = Append(@, Wire(c))]
      /\ conn' \in {conn, [conn EXCEPT ![c] = "queued"]}
      /\ UNCHANGED <<served, dpc, cmd, answer, state, logTo, stage, flash, hist, http, gone,
                     down, asked, todo>>
  BY DEF Send, Wire, boardVars
<1>2. TypeOK /\ DaemonTypeOK
  BY DEF SInv, Types, TypeOK
<1>3. OwnStep(c)
  BY <1>1, <1>2 DEF OwnStep, Untouched, TypeOK, DaemonTypeOK
<1>4. /\ ClientOK(c) /\ Kept(c) /\ Stored(c) /\ http[c] = asked[c].http
      /\ up[c] = << >> /\ down[c] = << >> /\ ~gone[c] /\ (served = c => dpc = "recv")
  BY <1>1 DEF SInv, Types, ClientOK, LineOK, Active
<1>5. Wire(c) \in Commands
  BY <1>1, <1>2, DueIsFirst, WireIs DEF Wire, TypeOK
<1>6. cpc'[c] = "waiting" /\ up'[c] = <<Wire(c)>> /\ conn'[c] \in {conn[c], "queued"}
  BY <1>1, <1>2, <1>4 DEF TypeOK, DaemonTypeOK
<1>7. Due(c)' = Due(c) /\ Wire(c)' = Wire(c) /\ ~OkComing(c)' /\ Verifying(c)' = Verifying(c)
  BY <1>1, <1>4 DEF Due, Wire, OkComing, Verifying
<1>8. SentFits(c)'
  <2>1. Wire(c) \in Long => Fits(c, Wire(c))
    BY <1>1, ReadyFits
  <2>2. \A op : Fits(c, op) => Fits(c, op)'
    BY <1>1 DEF Fits, Owed, DoneFor
  <2>3. up'[c][1] = Wire(c)
    BY <1>6
  <2>4. QED BY <2>1, <2>2, <2>3 DEF SentFits
<1>9. FramesOK(c)' /\ LineOK(c)'
  BY <1>1, <1>4, <1>6, <1>7 DEF ClientOK, FramesOK, LineOK
<1>10. Kept(c)'
  <2>1. \A op : DoneFor(c, op) => DoneFor(c, op)'
    BY <1>1 DEF DoneFor
  <2>2. BootOwed(c)' = BootOwed(c)
    BY <1>1 DEF BootOwed
  <2>3. QED BY <1>1, <1>4, <1>6, <1>7, <2>1, <2>2 DEF Kept
<1>11. Stored(c)'
  BY <1>1, <1>4, <1>6, <1>7 DEF Stored, Active
<1>12. ClientOK(c)'
  BY <1>6, <1>9, <1>10 DEF ClientOK, Active
<1>13. /\ asked' \in [Clients -> Requests] /\ http' \in [Clients -> BOOLEAN]
       /\ gone' \in [Clients -> BOOLEAN] /\ todo' \in [Clients -> SUBSET Steps]
       /\ cpc' \in [Clients -> {"idle", "ready", "waiting", "ok", "failed", "killed"}]
       /\ conn' \in [Clients -> {"none", "queued", "served", "closed"}]
       /\ down' \in [Clients -> Seq(Frames)] /\ Len(down'[c]) <= MaxFrames
  BY <1>1, <1>2 DEF TypeOK, DaemonTypeOK
<1>14. up' \in [Clients -> Seq(Commands)] /\ Len(up'[c]) <= 1
  <2>1. <<Wire(c)>> \in Seq(Commands) /\ Len(<<Wire(c)>>) = 1
    BY <1>5
  <2>2. up' = [up EXCEPT ![c] = <<Wire(c)>>]
    BY <1>1, <1>2, <1>4 DEF DaemonTypeOK
  <2>3. QED BY <1>2, <2>1, <2>2 DEF DaemonTypeOK
<1>15. asked'[c] = asked[c] /\ http'[c] = asked'[c].http
  BY <1>1, <1>4
<1>16. QED BY <1>3, <1>8, <1>11, <1>12, <1>13, <1>14, <1>15, OwnStepKeeps

\* A client reads on past a log frame.
LEMMA LogReadClients ==
  ASSUME SInv, IInv, IInv', NEW c \in Clients, cpc[c] = "waiting", down[c] # << >>,
         ~IsFinal(Head(down[c])), down' = [down EXCEPT ![c] = Tail(@)],
         UNCHANGED <<cpc, todo, gone, daemonVars, boardVars, conn, http, up, hist, asked>>
  PROVE  SInv'
<1>1. UNCHANGED <<served, dpc, cmd, answer, state, logTo, stage, flash, hist, conn, http, gone,
                  up, asked, todo, cpc>>
  BY DEF daemonVars, boardVars
<1>2. TypeOK /\ DaemonTypeOK
  BY DEF SInv, Types, TypeOK
<1>3. OwnStep(c)
  BY <1>1, <1>2 DEF OwnStep, Untouched, TypeOK, DaemonTypeOK
<1>4. /\ down'[c] = Tail(down[c]) /\ down[c] \in Seq(Frames) /\ Tail(down[c]) \in Seq(Frames)
      /\ Len(down'[c]) = Len(down[c]) - 1 /\ Len(down[c]) \in Nat
      /\ \A i \in 1..Len(down'[c]) : i + 1 \in 1..Len(down[c]) /\ down'[c][i] = down[c][i + 1]
  BY <1>2 DEF DaemonTypeOK
<1>5. /\ ClientOK(c) /\ Kept(c) /\ Stored(c) /\ SentFits(c) /\ http[c] = asked[c].http
      /\ up[c] = << >> /\ ~gone[c] /\ todo[c] # {} /\ FramesOK(c)
      /\ Len(down[c]) <= MaxFrames /\ MaxFrames \in Nat
  BY <1>2, ClientsAssumption DEF SInv, Types, ClientOK, LineOK, Active, DaemonTypeOK
<1>6. Due(c)' = Due(c) /\ Wire(c)' = Wire(c) /\ Verifying(c)' = Verifying(c)
  BY <1>1 DEF Due, Wire, Verifying
<1>7. OkComing(c)' => OkComing(c)
  BY <1>1, <1>4 DEF OkComing
<1>8. FramesOK(c)'
  BY <1>4, <1>5 DEF FramesOK
<1>9. LineOK(c)'
  <2>1. served = c /\ dpc # "recv" =>
          /\ cmd = Wire(c) /\ Len(down[c]) < MaxFrames
          /\ \A i \in 1..Len(down[c]) : down[c][i].status = "log"
    BY <1>5 DEF ClientOK, LineOK
  <2>2. served = c /\ dpc # "recv" =>
          /\ cmd = Wire(c) /\ Len(down'[c]) < MaxFrames
          /\ \A i \in 1..Len(down'[c]) : down'[c][i].status = "log"
    BY <1>4, <1>5, <2>1
  <2>3. QED BY <1>1, <1>5, <1>6, <2>2 DEF LineOK
<1>10. Kept(c)'
  BY <1>1, <1>7, KeptOn DEF Tries, Active
<1>11. ClientOK(c)'
  BY <1>1, <1>8, <1>9, <1>10 DEF ClientOK
<1>12. SentFits(c)' /\ Stored(c)'
  BY <1>1, <1>5, <1>6, <1>7 DEF SentFits, Stored, Active
<1>13. /\ asked' \in [Clients -> Requests] /\ http' \in [Clients -> BOOLEAN]
       /\ gone' \in [Clients -> BOOLEAN] /\ todo' \in [Clients -> SUBSET Steps]
       /\ cpc' \in [Clients -> {"idle", "ready", "waiting", "ok", "failed", "killed"}]
       /\ conn' \in [Clients -> {"none", "queued", "served", "closed"}]
       /\ up' \in [Clients -> Seq(Commands)] /\ Len(up'[c]) <= 1
  BY <1>1, <1>2 DEF TypeOK, DaemonTypeOK
<1>14. down' \in [Clients -> Seq(Frames)] /\ Len(down'[c]) <= MaxFrames
  BY <1>2, <1>4, <1>5 DEF DaemonTypeOK
<1>15. asked'[c] = asked[c] /\ http'[c] = asked'[c].http
  BY <1>1, <1>5
<1>16. QED BY <1>3, <1>11, <1>12, <1>13, <1>14, <1>15, OwnStepKeeps

\* The steps left after an answer that lets the session go on.
LEMMA RestIs ==
  ASSUME NEW c \in Clients, NEW frame
  PROVE  /\ Rest(c, frame) \subseteq todo[c] \ {Due(c)}
         /\ \A s \in todo[c] : s \notin Rest(c, frame) =>
              \/ s = Due(c)
              \/ s \in {"variant", "bootstrap"} /\ "boot" \notin asked[c].flags
BY DEF Rest

\* A client goes on to its next step when this one is done, or is one that need not be.
LEMMA GoOnClients ==
  ASSUME SInv, IInv, IInv', NEW c \in Clients, cpc[c] = "waiting", down[c] # << >>,
         IsFinal(Head(down[c])), Succeeded(Due(c), Head(down[c])) \/ Tolerated(Due(c)),
         down' = [down EXCEPT ![c] = Tail(@)], cpc' = [cpc EXCEPT ![c] = "ready"],
         todo' = [todo EXCEPT ![c] = Rest(c, Head(down[c]))],
         UNCHANGED <<gone, daemonVars, boardVars, conn, http, up, hist, asked>>
  PROVE  SInv'
<1> DEFINE frame == Head(down[c])
           r == Due(c)
<1>1. UNCHANGED <<served, dpc, cmd, answer, state, logTo, stage, flash, hist, conn, http, gone,
                  up, asked>>
  BY DEF daemonVars, boardVars
<1>2. TypeOK /\ DaemonTypeOK
  BY DEF SInv, Types, TypeOK
<1>3. OwnStep(c)
  BY <1>1, <1>2 DEF OwnStep, Untouched, TypeOK, DaemonTypeOK
<1>4. /\ ClientOK(c) /\ Kept(c) /\ Stored(c) /\ SentFits(c) /\ http[c] = asked[c].http
      /\ up[c] = << >> /\ ~gone[c] /\ todo[c] # {} /\ FramesOK(c)
      /\ todo[c] \subseteq Steps /\ asked[c] \in Requests
  BY <1>2 DEF SInv, Types, ClientOK, LineOK, Active, TypeOK
<1>5. /\ down[c] \in Seq(Frames) /\ Len(down[c]) \in Nat \ {0} /\ frame = down[c][1]
      /\ 1 \in 1..Len(down[c]) /\ frame.status # "log"
  BY <1>2 DEF DaemonTypeOK, IsFinal
<1> HIDE DEF frame
<1>6. Len(down[c]) = 1 /\ down'[c] = << >> /\ cpc'[c] = "ready" /\ todo'[c] = Rest(c, frame)
  <2>1. Len(down[c]) = 1
    <3>1. down[c][1].status # "log" /\ Len(down[c]) \in Nat /\ 1 <= Len(down[c])
      BY <1>5
    <3>2. Len(down[c]) <= 1
      BY <1>4, <3>1 DEF FramesOK
    <3>3. \A n \in Nat : 1 <= n /\ n <= 1 => n = 1
      OBVIOUS
    <3>4. QED BY <3>1, <3>2, <3>3
  <2>2. Tail(down[c]) = << >>
    <3>1. Tail(down[c]) \in Seq(Frames) /\ Len(Tail(down[c])) = 0
      BY <1>5, <2>1
    <3>2. QED BY <3>1, EmptySeq
  <2>3. QED BY <1>2, <2>1, <2>2 DEF TypeOK, DaemonTypeOK, frame
<1>7. served = c => dpc = "recv"
  BY <1>4, <1>5 DEF ClientOK, LineOK
<1>8. frame.status = "ok" => OkComing(c)
  BY <1>5 DEF OkComing
<1>9. r \in todo[c] /\ r \in Steps /\ (r \in Long <=> Wire(c) \in Long)
  BY <1>4, DueIsFirst, WireIs DEF Wire
<1>10. r \in Long => OkComing(c)
  BY <1>8 DEF Succeeded, Tolerated, Long, frame
<1>11. ~OkComing(c)'
  BY <1>6 DEF OkComing
<1>12. FramesOK(c)' /\ LineOK(c)'
  BY <1>1, <1>4, <1>6, <1>7 DEF FramesOK, LineOK
<1>13. /\ Rest(c, frame) \subseteq todo[c] \ {r}
       /\ \A s \in todo[c] : s \notin Rest(c, frame) =>
            s = r \/ (s \in {"variant", "bootstrap"} /\ "boot" \notin asked[c].flags)
  BY RestIs
<1>14. Kept(c)'
  <2>1. /\ \A op : DoneFor(c, op) <=> DoneFor(c, op)'
        /\ BootOwed(c)' = BootOwed(c) /\ asked'[c] = asked[c]
    BY <1>1 DEF DoneFor, BootOwed
  <2>2. Rest(c, frame) \subseteq Plan(asked[c])
    BY <1>4, <1>13 DEF Kept
  <2>3. r \in Long => DoneFor(c, Wire(c))
    BY <1>4, <1>9, <1>10 DEF Kept
  <2>4. ASSUME NEW op \in Does(asked[c]) \intersect Board
        PROVE  op \in Rest(c, frame) \/ DoneFor(c, OnWire(op, asked[c].flags))
    <3>1. CASE op = r
      BY <1>4, <2>3, <2>4, <3>1, PlanIs DEF Wire
    <3>2. CASE op # r
      BY <1>4, <1>13, <2>4, <3>2 DEF Kept, Board
    <3>3. QED BY <3>1, <3>2
  <2>5. BootOwed(c) => "bootstrap" \in Rest(c, frame) \/ DoneFor(c, "bootstrap")
    <3>1. r = "bootstrap" => Wire(c) = "bootstrap" /\ r \in Long
      BY <1>9, WireIs DEF Wire, Long
    <3>2. BootOwed(c) => "boot" \in asked[c].flags
      BY DEF BootOwed
    <3>3. QED BY <1>4, <1>13, <2>3, <3>1, <3>2 DEF Kept
  <2>6. \A i \in 1..Len(hist) : hist[i].who = c =>
          /\ \A s \in Rest(c, frame) \intersect Long : Turn[hist[i].op] < Turn[s]
          /\ hist[i].ok
    BY <1>4, <1>9, <1>10, <1>13 DEF Kept
  <2>7. QED BY <1>1, <1>6, <1>11, <2>1, <2>2, <2>4, <2>5, <2>6 DEF Kept
<1>15. ClientOK(c)'
  BY <1>6, <1>12, <1>14 DEF ClientOK
<1>16. SentFits(c)'
  BY <1>1, <1>4 DEF SentFits
<1>17. Stored(c)'
  <2>1. Active(c) /\ Verifying(c)' = Verifying(c)
    BY <1>1 DEF Active, Verifying
  <2>2. "write" \in todo[c] /\ "write" \notin Rest(c, frame) => r = "write" /\ OkComing(c)
    BY <1>10, <1>13 DEF Long
  <2>3. QED BY <1>1, <1>4, <1>6, <1>11, <2>1, <2>2 DEF Stored
<1>18. /\ asked' \in [Clients -> Requests] /\ http' \in [Clients -> BOOLEAN]
       /\ gone' \in [Clients -> BOOLEAN] /\ todo' \in [Clients -> SUBSET Steps]
       /\ cpc' \in [Clients -> {"idle", "ready", "waiting", "ok", "failed", "killed"}]
       /\ conn' \in [Clients -> {"none", "queued", "served", "closed"}]
       /\ up' \in [Clients -> Seq(Commands)] /\ Len(up'[c]) <= 1
  <2>1. Rest(c, frame) \in SUBSET Steps
    BY <1>4, <1>13
  <2>2. QED BY <1>1, <1>2, <2>1 DEF TypeOK, DaemonTypeOK, frame
<1>19. down' \in [Clients -> Seq(Frames)] /\ Len(down'[c]) <= MaxFrames
  BY <1>2, <1>5, <1>6, ClientsAssumption DEF DaemonTypeOK
<1>20. asked'[c] = asked[c] /\ http'[c] = asked'[c].http
  BY <1>1, <1>4
<1>21. QED BY <1>3, <1>15, <1>16, <1>17, <1>18, <1>19, <1>20, OwnStepKeeps

\* Whatever a client does, it is one of these steps.
LEMMA ClientKeeps ==
  ASSUME SInv, IInv, IInv', NEW c \in Clients, Begin(c) \/ ClientStep(c) \/ GiveUp(c) \/ Kill(c)
  PROVE  SInv'
<1>1. CASE Begin(c)
  BY <1>1, BeginClients
<1>2. CASE Send(c)
  BY <1>2, SendClients
<1>3. CASE Receive(c)
  <2>1. /\ cpc[c] = "waiting" /\ down[c] # << >>
        /\ UNCHANGED <<daemonVars, boardVars, conn, http, up, hist, asked>>
    BY <1>3 DEF Receive
  <2>2. \/ /\ ~IsFinal(Head(down[c])) /\ down' = [down EXCEPT ![c] = Tail(@)]
           /\ UNCHANGED <<cpc, todo, gone>>
        \/ /\ IsFinal(Head(down[c])) /\ (Succeeded(Due(c), Head(down[c])) \/ Tolerated(Due(c)))
           /\ down' = [down EXCEPT ![c] = Tail(@)]
           /\ todo' = [todo EXCEPT ![c] = Rest(c, Head(down[c]))]
           /\ cpc' = [cpc EXCEPT ![c] = "ready"] /\ UNCHANGED gone
        \/ End(c, "failed")
    BY <1>3 DEF Receive
  <2>3. CASE /\ ~IsFinal(Head(down[c])) /\ down' = [down EXCEPT ![c] = Tail(@)]
             /\ UNCHANGED <<cpc, todo, gone>>
    BY <2>1, <2>3, LogReadClients
  <2>4. CASE /\ IsFinal(Head(down[c])) /\ (Succeeded(Due(c), Head(down[c])) \/ Tolerated(Due(c)))
             /\ down' = [down EXCEPT ![c] = Tail(@)]
             /\ todo' = [todo EXCEPT ![c] = Rest(c, Head(down[c]))]
             /\ cpc' = [cpc EXCEPT ![c] = "ready"] /\ UNCHANGED gone
    BY <2>1, <2>4, GoOnClients
  <2>5. CASE End(c, "failed")
    BY <2>1, <2>5, EndClients DEF Active
  <2>6. QED BY <2>2, <2>3, <2>4, <2>5
<1>4. CASE LoseConnection(c)
  BY <1>4, EndClients DEF LoseConnection, Active
<1>5. CASE Leave(c)
  BY <1>5, EndClients DEF Leave, Active
<1>6. CASE GiveUp(c)
  BY <1>6, EndClients DEF GiveUp, Active
<1>7. CASE Kill(c)
  BY <1>7, EndClients DEF Kill
<1>8. QED BY <1>1, <1>2, <1>3, <1>4, <1>5, <1>6, <1>7 DEF ClientStep

\* A board that comes, or goes, or a step of nobody, changes nothing.
LEMMA BoardKeeps ==
  ASSUME SInv, IInv', UNCHANGED <<clientVars, daemonVars, netVars, flash, hist>>,
         stage' \in Stages
  PROVE  SInv'
<1>1. /\ UNCHANGED <<asked, todo, cpc, conn, http, gone, up, down, hist, flash>>
      /\ UNCHANGED <<served, dpc, cmd, answer, state, logTo, backlog>>
  BY DEF clientVars, daemonVars, netVars
<1>2. Types'
  BY <1>1 DEF SInv, Types, TypeOK, DaemonTypeOK
<1>3. WorkFits' /\ StopsAtFailure'
  BY <1>1 DEF SInv, WorkFits, Fits, StopsAtFailure, Owed, DoneFor
<1>4. \A c \in Clients : SentFits(c)' /\ ClientOK(c)' /\ Stored(c)'
  BY <1>1, UntouchedStays DEF Untouched
<1>5. QED BY <1>2, <1>3, <1>4 DEF SInv

\* Whatever the daemon and the board do, the clients may count on the same.
LEMMA DaemonKeeps ==
  ASSUME SInv, IInv, IInv', UNCHANGED clientVars,
         DaemonStep \/ Log \/ Restart
  PROVE  SInv'
<1>1. Tries /\ UNCHANGED <<asked, todo, cpc, http, gone>>
  BY DaemonTries DEF DaemonStep, Accept, Recv, HangUp, Start, Initialise, PickAlt, Work, Verify,
                     Reply, Close, Log, Restart, clientVars, netVars
<1>2. StopsAtFailure'
  BY <1>1, HistoryKeeps
<1>3. SUFFICES StepTypes' /\ ClientsOK'
  BY <1>1, <1>2, TypesKept DEF SInv, ClientsOK
<1>4. CASE DaemonStep
  <2>1. StepTypes'
    BY <1>4, DaemonTypes
  <2>2. CASE Accept \/ Recv \/ HangUp \/ Reply
    BY <2>1, <2>2, AcceptClients, RecvClients, HangUpClients, ReplyClients
  <2>3. CASE Start \/ Initialise \/ PickAlt \/ Work \/ Verify
    BY <1>1, <2>1, <2>3, StepsWork, WorksClients
  <2>4. QED BY <1>4, <2>2, <2>3 DEF DaemonStep
<1>5. CASE Log
  <2>1. served \in Clients
    BY <1>5, Serving DEF Log
  <2>2. /\ \A d \in Clients : down'[d] \in Seq(Frames) /\ (d # served => down'[d] = down[d])
        /\ Len(down'[served]) <= MaxFrames
    BY <1>5, <2>1, LogClient
  <2>3. /\ \A d \in Clients : down'[d] \in Seq(Frames) /\ Len(down'[d]) <= MaxFrames
        /\ down' \in [Clients -> Seq(Frames)]
    BY <1>5, <2>2, StepTypesHold DEF Log, StepTypes
  <2>4. StepTypes'
    BY <1>5, <2>3, StepTypesHold DEF Log, StepTypes, daemonVars, boardVars
  <2>5. QED BY <1>5, <2>4, LogClients
<1>6. CASE Restart
  <2> DEFINE mine == {c \in Clients : conn[c] \in {"queued", "served"}}
  <2>1. /\ conn' = [c \in Clients |-> IF c \in mine THEN "closed" ELSE conn[c]]
        /\ up' = [c \in Clients |-> IF c \in mine THEN << >> ELSE up[c]]
        /\ served' = None /\ dpc' = "accept" /\ cmd' = Nothing
        /\ answer' = [ok |-> FALSE, says |-> Nothing] /\ state' = "idle" /\ logTo' = None
        /\ flash' \in {flash, "garbage"} /\ UNCHANGED <<stage, down>>
    BY <1>6 DEF Restart
  <2>2. up' \in [Clients -> Seq(Commands)] /\ \A c \in Clients : Len(up'[c]) <= 1
    BY <2>1, StepTypesHold DEF StepTypes
  <2>3. conn' \in [Clients -> {"none", "queued", "served", "closed"}]
    BY <2>1, StepTypesHold DEF StepTypes
  <2>4. StepTypes'
    BY <2>1, <2>2, <2>3, StepTypesHold, SaysAre DEF StepTypes
  <2>5. QED BY <1>6, <2>4, RestartClients
<1>7. QED BY <1>4, <1>5, <1>6

-----------------------------------------------------------------------------
(* The theorems.                                                           *)

\* Every step keeps what the clients count on.
LEMMA SessionsKeep == SInv /\ IInv /\ IInv' /\ [Next]_vars => SInv'
<1>1. SUFFICES ASSUME SInv, IInv, IInv', [Next]_vars PROVE SInv'
  OBVIOUS
<1>2. CASE (DaemonStep \/ Log \/ Restart) /\ UNCHANGED clientVars
  BY <1>1, <1>2, DaemonKeeps
<1>3. CASE (Enumerate \/ PowerCycle) /\ UNCHANGED clientVars
  <2>1. UNCHANGED <<clientVars, daemonVars, netVars, flash, hist>> /\ stage' \in Stages
    BY <1>3 DEF Enumerate, PowerCycle, Stages
  <2>2. QED BY <1>1, <2>1, BoardKeeps
<1>4. CASE UNCHANGED vars
  <2>1. UNCHANGED <<clientVars, daemonVars, netVars, flash, hist>> /\ stage' \in Stages
    BY <1>1, <1>4, StepTypesHold DEF vars, serverVars, boardVars, StepTypes
  <2>2. QED BY <1>1, <2>1, BoardKeeps
<1>5. ASSUME NEW c \in Clients, Begin(c) \/ ClientStep(c) \/ GiveUp(c) \/ Kill(c)
      PROVE  SInv'
  BY <1>1, <1>5, ClientKeeps
<1>6. QED BY <1>1, <1>2, <1>3, <1>4, <1>5 DEF Next

\* Before the first connection there is nothing to count on.
LEMMA SessionsBegin == Init => SInv
<1>1. SUFFICES ASSUME Init PROVE SInv
  OBVIOUS
<1>2. /\ hist = << >> /\ Len(hist) = 0 /\ hist \in Seq(Entries)
      /\ served = None /\ dpc = "accept" /\ backlog = << >> /\ None \notin Clients
      /\ \A c \in Clients :
           /\ cpc[c] = "idle" /\ up[c] = << >> /\ down[c] = << >> /\ gone[c] = FALSE
           /\ conn[c] = "none" /\ todo[c] = {}
  BY <1>1, ClientsAssumption DEF Init, DaemonInit
<1>3. TypeOK
  <2>1. (CHOOSE o \in Requests : TRUE) \in Requests
    BY RequestsAssumption
  <2>2. /\ asked \in [Clients -> Requests] /\ todo \in [Clients -> SUBSET Steps]
        /\ cpc \in [Clients -> {"idle", "ready", "waiting", "ok", "failed", "killed"}]
    BY <1>1, <2>1 DEF Init
  <2>3. /\ up \in [Clients -> Seq(Commands)] /\ down \in [Clients -> Seq(Frames)]
        /\ \A c \in Clients : Len(up[c]) <= 1 /\ Len(down[c]) <= MaxFrames
    <3>1. /\ << >> \in Seq(Commands) /\ << >> \in Seq(Frames)
          /\ Len(<< >>) <= 1 /\ Len(<< >>) <= MaxFrames
      BY ClientsAssumption
    <3>2. QED BY <1>1, <1>2, <3>1 DEF Init, DaemonInit
  <2>4. /\ answer \in [ok : BOOLEAN, says : Says] /\ state \in States /\ logTo = None
        /\ cmd = Nothing /\ stage \in Stages /\ flash = "old"
        /\ conn \in [Clients -> {"none", "queued", "served", "closed"}]
        /\ http \in [Clients -> BOOLEAN] /\ gone \in [Clients -> BOOLEAN]
    BY <1>1, SaysAre DEF Init, DaemonInit, Stages
  <2>5. backlog \in Seq(Clients)
    BY <1>2
  <2>6. DaemonTypeOK
    BY <1>2, <2>3, <2>4, <2>5 DEF DaemonTypeOK
  <2>7. QED BY <2>2, <2>3, <2>6 DEF TypeOK
<1>4. Types /\ WorkFits /\ StopsAtFailure
  BY <1>2, <1>3 DEF Types, WorkFits, StopsAtFailure
<1>5. ASSUME NEW c \in Clients PROVE SentFits(c) /\ ClientOK(c) /\ Stored(c)
  <2>1. c # None
    BY <1>2
  <2>2. FramesOK(c) /\ LineOK(c)
    BY <1>2, <2>1 DEF FramesOK, LineOK
  <2>3. QED BY <1>2, <2>2 DEF SentFits, Stored, ClientOK, Active
<1>6. QED BY <1>4, <1>5 DEF SInv

\* For any clients, requests and frames, what the clients count on holds.
THEOREM SpecSInv == Spec => []SInv
<1>1. IInv /\ SInv /\ [Next]_vars => IInv' /\ SInv'
  BY NextKeeps, SessionsKeep
<1>2. Init => IInv /\ SInv
  BY InitHolds, SessionsBegin
<1>3. QED BY <1>1, <1>2, PTL DEF Spec

\* Frames, commands and answers stay what they are, and no client reads more than it may.
THEOREM SpecTypeOK == Spec => []TypeOK
<1>1. SInv => TypeOK
  BY DEF SInv, Types
<1>2. QED BY <1>1, SpecSInv, PTL

\* Whoever is killed or restarted, and whatever fails: nothing is tried for a client before
\* what it had asked for first, nor after a failure.
THEOREM SpecStopsAtFailure == Spec => []StopsAtFailure
<1>1. SInv => StopsAtFailure
  BY DEF SInv
<1>2. QED BY <1>1, SpecSInv, PTL

\* An exit status of zero, or a browser's success, means that all that was asked of the
\* branch taken was done by the daemon.
THEOREM SpecExitZeroMeansDone == Spec => []ExitZeroMeansDone
<1>1. SInv => ExitZeroMeansDone
  BY DEF SInv, ClientOK, AllDone, ExitZeroMeansDone
<1>2. QED BY <1>1, SpecSInv, PTL

\* A command line that leaves with success while it is served leaves its image in the flash.
THEOREM SpecVerifiedIsStored == Spec => VerifiedIsStored
<1> DEFINE A == \A c \in Clients :
                  cpc[c] # "ok" /\ cpc'[c] = "ok" /\ ~http[c] /\ conn[c] = "served"
                    /\ Branch(asked[c].flags) = "write" /\ "verify" \in asked[c].flags
                    => flash = c
<1>1. SInv /\ [Next]_vars => [A]_vars
  <2>1. SUFFICES ASSUME SInv, Next, NEW c \in Clients, cpc[c] # "ok", cpc'[c] = "ok",
                        conn[c] = "served", Verifying(c)
                 PROVE  flash = c
    BY DEF Verifying
  <2>2. cpc' # cpc /\ ~UNCHANGED clientVars
    BY <2>1 DEF clientVars
  <2>3. PICK d \in Clients : Begin(d) \/ ClientStep(d) \/ GiveUp(d) \/ Kill(d)
    BY <2>1, <2>2 DEF Next
  <2>4. cpc \in [Clients -> {"idle", "ready", "waiting", "ok", "failed", "killed"}]
    BY <2>1 DEF SInv, Types, TypeOK
  <2>5. Leave(d) /\ d = c
    BY <2>1, <2>3, <2>4 DEF Begin, ClientStep, Send, Receive, LoseConnection, Leave, GiveUp, Kill, End
  <2>6. Active(c) /\ todo[c] = {} /\ Stored(c)
    BY <2>1, <2>5 DEF SInv, Leave, Active
  <2>7. QED BY <2>1, <2>6 DEF Stored
<1>2. Spec => []SInv
  BY SpecSInv
<1>3. QED BY <1>1, <1>2, PTL DEF Spec, VerifiedIsStored
=============================================================================
