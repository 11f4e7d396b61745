------------------------------ MODULE LspProofs ------------------------------
(* Proofs about Lsp, for any callers, processes and edits: an answer is the *)
(* response to its own request and about contents no older than the op.     *)
EXTENDS Lsp, FiniteSetTheorems, TLAPS

Places == {"idle", "spawn", "sync", "notified", "requested", "header", "body", "reap", "answered",
           "unavailable"}
\* Where a request has been written.
Waits == {"requested", "header", "body"}
Frames == [id : Int, text : Int]
Caller == [at : Places, srv : Servers \union {None}, op : {"query", "initialize"}, id : Int, began : Int,
           answer : Frames]

\* What is on the way to and from a server: ids that were given out, contents it has heard of.
WireOk(s) ==
    /\ nextId[s] \in Int /\ opened[s] \in Int /\ opened[s] <= disk
    /\ \A id \in pending[s] : id \in Int /\ id < nextId[s]
    /\ arrived[s] \in Seq(Frames)
    /\ \A i \in DOMAIN arrived[s] : arrived[s][i].id < nextId[s]

\* A query that waits was sent after the server heard of contents as new as the op: that, and
\* that no frame with its id was there before, makes the answer to come a fresh one.
CallerOk(r) ==
    /\ r \in Caller /\ r.began <= disk
    /\ r.at \in Waits \union {"sync", "notified", "reap"} => r.srv \in Servers
    /\ r.at = "requested" => r.op = "query"
    /\ r.at = "notified" => r.began <= opened[r.srv]
    /\ r.at \in Waits => r.id < nextId[r.srv]
    /\ r.at \in Waits /\ r.op = "query" =>
          /\ r.began <= opened[r.srv]
          /\ \A i \in DOMAIN arrived[r.srv] : arrived[r.srv][i].id = r.id => arrived[r.srv][i].text >= r.began
    /\ r.at = "answered" => r.answer.id = r.id /\ r.answer.text >= r.began

Inv ==
    /\ disk \in Int /\ cache \in Servers \union {None, Broken}
    /\ nextId = [s \in Servers |-> nextId[s]] /\ pending = [s \in Servers |-> pending[s]]
    /\ arrived = [s \in Servers |-> arrived[s]] /\ opened = [s \in Servers |-> opened[s]]
    /\ caller = [c \in Callers |-> caller[c]]
    /\ \A s \in Servers : WireOk(s)
    /\ \A c \in Callers : CallerOk(caller[c])

\* A reader inside a frame is alone in its stream, and the frame is there, until the stream is misread.
Heads ==
    /\ misread = [s \in Servers |-> misread[s]]
    /\ \A c \in Callers : caller[c].at = "body" =>
          \/ misread[caller[c].srv]
          \/ /\ arrived[caller[c].srv] # <<>>
             /\ \A d \in Callers \ {c} : ~(caller[d].at = "body" /\ caller[d].srv = caller[c].srv)

WireTyped ==
    /\ nextId = [s \in Servers |-> nextId[s]] /\ pending = [s \in Servers |-> pending[s]]
    /\ arrived = [s \in Servers |-> arrived[s]] /\ opened = [s \in Servers |-> opened[s]]

\* Ids and contents only grow, and a new frame is of the contents its server has now.
Grows ==
    /\ disk' \in Int /\ disk' >= disk
    /\ \A s \in Servers :
          /\ nextId'[s] >= nextId[s] /\ nextId'[s] \in Int
          /\ opened'[s] >= opened[s] /\ opened'[s] \in Int
          /\ \A i \in DOMAIN arrived'[s] :
                \/ \E j \in DOMAIN arrived[s] : arrived'[s][i] = arrived[s][j]
                \/ arrived'[s][i].text = opened[s]

LEMMA Persists ==
  ASSUME Inv, Grows, NEW r, CallerOk(r)
  PROVE  CallerOk(r)'
<1>1. r \in Caller /\ r.began \in Int /\ r.id \in Int /\ r.began <= disk'
  BY DEF CallerOk, Caller, Inv, Grows
<1>2. /\ r.at \in Waits => r.id < nextId'[r.srv]
      /\ r.at = "notified" => r.began <= opened'[r.srv]
  <2>1. ASSUME r.at \in Waits PROVE r.id < nextId'[r.srv]
    BY <1>1, <2>1 DEF CallerOk, Inv, WireOk, Grows
  <2>2. ASSUME r.at = "notified" PROVE r.began <= opened'[r.srv]
    BY <1>1, <2>2 DEF CallerOk, Inv, WireOk, Grows
  <2>3. QED
    BY <2>1, <2>2
<1>3. ASSUME r.at \in Waits, r.op = "query"
      PROVE  /\ r.began <= opened'[r.srv]
             /\ \A i \in DOMAIN arrived'[r.srv] : arrived'[r.srv][i].id = r.id => arrived'[r.srv][i].text >= r.began
  <2>1. r.srv \in Servers /\ r.began <= opened[r.srv]
    BY <1>3 DEF CallerOk
  <2>2. r.began <= opened'[r.srv]
    BY <1>1, <2>1 DEF Inv, WireOk, Grows
  <2>3. ASSUME NEW i \in DOMAIN arrived'[r.srv], arrived'[r.srv][i].id = r.id
        PROVE  arrived'[r.srv][i].text >= r.began
    <3>1. CASE \E j \in DOMAIN arrived[r.srv] : arrived'[r.srv][i] = arrived[r.srv][j]
      BY <1>3, <2>3, <3>1 DEF CallerOk
    <3>2. CASE arrived'[r.srv][i].text = opened[r.srv]
      BY <2>1, <3>2, <1>1 DEF Inv, WireOk
    <3>3. QED
      BY <2>1, <3>1, <3>2 DEF Grows
  <2>4. QED
    BY <2>2, <2>3
<1>4. r.at = "requested" => r.op = "query"
  BY DEF CallerOk
<1>5. QED
  BY <1>1, <1>2, <1>3, <1>4 DEF CallerOk

\* One caller moves on; the others keep what they had.
LEMMA OneCaller ==
  ASSUME Inv, Grows, WireTyped', \A s \in Servers : WireOk(s)', cache' \in Servers \union {None, Broken},
         NEW c \in Callers, NEW r, caller' = [caller EXCEPT ![c] = r], CallerOk(r)'
  PROVE  Inv'
<1>1. caller' = [d \in Callers |-> caller'[d]] /\ caller'[c] = r
  BY DEF Inv
<1>2. ASSUME NEW d \in Callers PROVE CallerOk(caller[d])'
  <2>1. PICK q : q = IF d = c THEN r ELSE caller[d]
    OBVIOUS
  <2>2. d # c => CallerOk(q) /\ q = caller[d]
    BY <2>1 DEF Inv
  <2>3. CallerOk(q)'
    BY <2>1, <2>2, Persists
  <2>4. caller'[d] = q
    BY <1>1, <2>1 DEF Inv
  <2>5. QED
    BY <2>3, <2>4 DEF CallerOk
<1>3. QED
  BY <1>1, <1>2 DEF Inv, WireTyped, Grows
\* An op goes to another place with what it has.
LEMMA Placed ==
  ASSUME NEW r, CallerOk(r), NEW at \in Places,
         \/ at = "unavailable"
         \/ at \in {"reap", "sync"} /\ r.srv \in Servers
         \/ at \in {"header", "body"} /\ r.at \in Waits
         \/ at = "notified" /\ r.srv \in Servers /\ r.began <= opened[r.srv]
  PROVE  CallerOk([r EXCEPT !.at = at])
  BY DEF CallerOk, Caller, Places, Waits

LEMMA Goes ==
  ASSUME Inv, Grows, WireTyped', \A s \in Servers : WireOk(s)', cache' \in Servers \union {None, Broken},
         NEW c \in Callers, NEW at \in Places, caller' = [caller EXCEPT ![c].at = at],
         \/ at = "unavailable"
         \/ at \in {"reap", "sync"} /\ caller[c].srv \in Servers
         \/ at \in {"header", "body"} /\ caller[c].at \in Waits
  PROVE  Inv'
<1>1. PICK q : q = caller[c]
  OBVIOUS
<1>2. PICK r : r = [q EXCEPT !.at = at]
  OBVIOUS
<1>3. CallerOk(q)
  BY <1>1 DEF Inv
<1>4. CallerOk(r)
  BY <1>1, <1>2, <1>3, Placed
<1>5. caller' = [caller EXCEPT ![c] = r]
  BY <1>1, <1>2
<1>6. QED
  BY <1>4, <1>5, Persists, OneCaller

LEMMA Quiet == ASSUME Inv, UNCHANGED <<wire, disk>> PROVE Grows /\ WireTyped' /\ \A s \in Servers : WireOk(s)'
  BY DEF Inv, WireOk, WireTyped, Grows, wire

LEMMA TailIs ==
  ASSUME NEW q \in Seq(Frames), q # <<>>
  PROVE  /\ Tail(q) \in Seq(Frames)
         /\ \A i \in DOMAIN Tail(q) : i + 1 \in DOMAIN q /\ Tail(q)[i] = q[i + 1]
<1>1. Len(q) \in Nat /\ Len(q) > 0 /\ DOMAIN q = 1 .. Len(q)
  OBVIOUS
<1>2. Tail(q) \in Seq(Frames) /\ Len(Tail(q)) = Len(q) - 1
  BY <1>1
<1>3. DOMAIN Tail(q) = 1 .. Len(q) - 1
  BY <1>1, <1>2
<1>4. QED
  BY <1>1, <1>2, <1>3

\* A frame is taken off the stream.
LEMMA Taken ==
  ASSUME Inv, NEW s \in Servers, arrived[s] # <<>>, arrived' = [arrived EXCEPT ![s] = Tail(@)],
         UNCHANGED <<nextId, pending, opened, disk>>
  PROVE  Grows /\ WireTyped' /\ \A t \in Servers : WireOk(t)'
<1>1. \A t \in Servers : t # s => arrived'[t] = arrived[t]
  BY DEF Inv
<1>2. arrived'[s] = Tail(arrived[s]) /\ arrived[s] \in Seq(Frames) /\ arrived' = [t \in Servers |-> arrived'[t]]
  BY DEF Inv, WireOk
<1>3. /\ arrived'[s] \in Seq(Frames)
      /\ \A i \in DOMAIN arrived'[s] : i + 1 \in DOMAIN arrived[s] /\ arrived'[s][i] = arrived[s][i + 1]
  BY <1>2, TailIs
<1>4. Grows
  <2>1. \A t \in Servers : \A i \in DOMAIN arrived'[t] : \E j \in DOMAIN arrived[t] : arrived'[t][i] = arrived[t][j]
    BY <1>1, <1>3
  <2>2. QED
    BY <2>1 DEF Grows, Inv, WireOk
<1>5. \A t \in Servers : WireOk(t)'
  BY <1>1, <1>2, <1>3 DEF Inv, WireOk
<1>6. WireTyped'
  BY <1>2 DEF Inv, WireTyped
<1>7. QED
  BY <1>4, <1>5, <1>6

LEMMA FailedGoes ==
  ASSUME Inv, Grows, WireTyped', \A s \in Servers : WireOk(s)', UNCHANGED cache,
         NEW c \in Callers, caller[c].at \in {"header", "body"}, Failed(c)
  PROVE  Inv'
<1>1. caller[c].srv \in Servers /\ cache' \in Servers \union {None, Broken}
  BY DEF Inv, CallerOk, Waits
<1>2. \E at \in {"reap", "unavailable"} : caller' = [caller EXCEPT ![c].at = at]
  BY DEF Failed, Unavailable
<1>3. QED
  BY <1>1, <1>2, Goes DEF Places

\* The steps of an op that read, fail or end.
LEMMA FailKeeps ==
  ASSUME Inv, NEW c \in Callers,
         Timeout(c) \/ ReadMisread(c) \/ ReadClosed(c) \/ (\E d \in Callers : Collide(c, d))
  PROVE  Inv'
<1>1. CASE Timeout(c) \/ ReadClosed(c) \/ \E d \in Callers : Collide(c, d)
  <2>1. caller[c].at \in {"header", "body"} /\ Failed(c) /\ UNCHANGED <<cache, nextId, pending, arrived, opened, disk>>
    BY <1>1 DEF Timeout, ReadClosed, Collide, wire
  <2>2. Grows /\ WireTyped' /\ \A s \in Servers : WireOk(s)'
    BY <2>1 DEF Inv, WireOk, WireTyped, Grows
  <2>3. QED
    BY <2>1, <2>2, FailedGoes
<1>2. CASE ReadMisread(c)
  <2>1. caller[c].srv \in Servers
    BY <1>2 DEF ReadMisread, Inv, CallerOk, Waits
  <2>2. QED
    BY <1>2, <2>1, Taken, FailedGoes DEF ReadMisread
<1>3. QED
  BY <1>1, <1>2

LEMMA ReadKeeps == ASSUME Inv, NEW c \in Callers, ReadHeader(c) \/ Requested(c) \/ Reap(c) PROVE Inv'
<1>1. CASE ReadHeader(c) \/ Requested(c)
  <2>1. UNCHANGED <<wire, disk, cache>> /\ caller[c].at \in Waits
    BY <1>1 DEF ReadHeader, Requested, Waits
  <2>2. PICK at \in {"header", "body", "unavailable"} : caller' = [caller EXCEPT ![c].at = at]
    BY <1>1 DEF ReadHeader, Requested, Unavailable
  <2>3. cache' \in Servers \union {None, Broken}
    BY <2>1 DEF Inv
  <2>4. QED
    BY <2>1, <2>2, <2>3, Quiet, Goes DEF Places
<1>2. CASE Reap(c)
  BY <1>2, Quiet, Goes DEF Reap, Unavailable, Places
<1>3. QED
  BY <1>1, <1>2

\* What was written is what the op began with, or newer.
LEMMA SyncKeeps == ASSUME Inv, NEW c \in Callers, Sync(c) PROVE Inv'
<1>1. PICK q : q = caller[c]
  OBVIOUS
<1>2. PICK s : s = q.srv
  OBVIOUS
<1>3. CallerOk(q) /\ q \in Caller /\ s \in Servers /\ disk \in Int
  BY <1>1, <1>2 DEF Inv, CallerOk, Sync
<1>4. opened' = [opened EXCEPT ![s] = disk] /\ UNCHANGED <<cache, nextId, pending, arrived, disk>>
  BY <1>1, <1>2 DEF Sync
<1>5. Grows /\ WireTyped' /\ (\A t \in Servers : WireOk(t)') /\ opened'[s] = disk
  <2>1. opened = [t \in Servers |-> opened[t]]
    BY DEF Inv
  <2>2. opened' = [t \in Servers |-> opened'[t]]
    BY <1>4, <2>1
  <2>3. opened'[s] = disk
    BY <1>3, <1>4, <2>1
  <2>4. ASSUME NEW t \in Servers
        PROVE  opened'[t] >= opened[t] /\ opened'[t] \in Int /\ opened'[t] <= disk
    <3>1. CASE t = s
      BY <1>3, <2>3, <3>1 DEF Inv, WireOk
    <3>2. CASE t # s
      <4>1. opened'[t] = opened[t]
        BY <1>4, <2>1, <3>2
      <4>2. QED
        BY <4>1 DEF Inv, WireOk
    <3>3. QED
      BY <3>1, <3>2
  <2>5. \A t \in Servers : WireOk(t)'
    BY <1>4, <2>4 DEF Inv, WireOk
  <2>6. Grows
    BY <1>3, <1>4, <2>4 DEF Inv, WireOk, Grows
  <2>7. WireTyped'
    BY <1>4, <2>2 DEF Inv, WireTyped
  <2>8. QED
    BY <2>3, <2>5, <2>6, <2>7
<1>6. PICK r : r = [q EXCEPT !.at = "notified"]
  OBVIOUS
<1>7. caller' = [caller EXCEPT ![c] = r]
  BY <1>1, <1>6 DEF Sync
<1>8. r \in Caller /\ r.at = "notified" /\ r.srv = s /\ r.began = q.began
  BY <1>2, <1>3, <1>6, Zenon DEF Caller, Places
<1>9. CallerOk(r)'
  BY <1>3, <1>4, <1>5, <1>8 DEF CallerOk, Waits
<1>10. QED
  BY <1>4, <1>5, <1>7, <1>9, OneCaller DEF Inv

\* The frame of an answer is the one with the id of the op, and a fresh one.
LEMMA ReadBodyKeeps == ASSUME Inv, Heads, NEW c \in Callers, ReadBody(c) PROVE Inv'
<1>1. PICK q : q = caller[c]
  OBVIOUS
<1>2. PICK s : s = q.srv
  OBVIOUS
<1>3. PICK f : f = Head(arrived[s])
  OBVIOUS
<1>4. CallerOk(q) /\ q.at = "body" /\ s \in Servers /\ WireOk(s)
  BY <1>1, <1>2 DEF Inv, CallerOk, ReadBody, Waits
<1>5. arrived[s] # <<>>
  BY <1>1, <1>2, <1>4 DEF Heads, ReadBody
<1>6. f \in Frames /\ 1 \in DOMAIN arrived[s] /\ f = arrived[s][1]
  BY <1>3, <1>4, <1>5 DEF WireOk
<1>7. Grows /\ WireTyped' /\ \A t \in Servers : WireOk(t)'
  BY <1>1, <1>2, <1>4, <1>5, Taken DEF ReadBody
<1>8. CASE caller' = [caller EXCEPT ![c].at = "header"] /\ cache' = cache
  BY <1>1, <1>4, <1>7, <1>8, Goes DEF Places, Inv, Waits
<1>9. CASE caller' = [caller EXCEPT ![c].at = "sync"] /\ cache' = s
  BY <1>1, <1>2, <1>4, <1>7, <1>9, Goes DEF Places
<1>10. CASE f.id = q.id /\ q.op # "initialize" /\ Answered(c, f) /\ cache' = cache
  <2>1. PICK r : r = [q EXCEPT !.at = "answered", !.answer = f]
    OBVIOUS
  <2>2. caller' = [caller EXCEPT ![c] = r]
    BY <1>1, <1>10, <2>1, Zenon DEF Answered, Inv
  <2>3. /\ r.at = "answered" /\ r.answer = f /\ r.id = q.id /\ r.began = q.began
    BY <1>4, <2>1, Zenon DEF CallerOk, Caller
  <2>4. "answered" \in Places
    BY DEF Places
  <2>5. r \in Caller
    BY <1>4, <1>6, <2>1, <2>4, Zenon DEF CallerOk, Caller
  <2>6. q.op = "query"
    BY <1>4, <1>10 DEF CallerOk, Caller
  <2>7. f.text >= q.began
    BY <1>2, <1>4, <1>6, <1>10, <2>6 DEF CallerOk, Waits
  <2>8. CallerOk(r)
    BY <1>4, <1>10, <2>3, <2>5, <2>7 DEF CallerOk, Waits
  <2>9. QED
    BY <1>7, <1>10, <2>2, <2>8, Persists, OneCaller DEF Inv
<1>11. QED
  BY <1>1, <1>2, <1>3, <1>8, <1>9, <1>10 DEF ReadBody, Matches
\* A request goes out: its id is that of no frame, past or under way.
LEMMA Sent ==
  ASSUME Inv, NEW s \in Servers, NEW up \in BOOLEAN, Send(s, up), UNCHANGED <<arrived, disk>>,
         opened' = opened \/ opened' = [opened EXCEPT ![s] = disk]
  PROVE  /\ Grows /\ WireTyped' /\ \A t \in Servers : WireOk(t)'
         /\ nextId'[s] = nextId[s] + 1
         /\ \A i \in DOMAIN arrived'[s] : arrived'[s][i].id # nextId[s]
<1>1. \A t \in Servers : nextId[t] \in Int /\ opened[t] \in Int /\ opened[t] <= disk /\ WireOk(t)
  BY DEF Inv, WireOk
<1>2. nextId' = [nextId EXCEPT ![s] = nextId[s] + 1] /\ disk \in Int
  BY DEF Send, Inv
<1>3. \A t \in Servers : /\ nextId'[t] = IF t = s THEN nextId[s] + 1 ELSE nextId[t]
                         /\ opened'[t] = opened[t] \/ opened'[t] = disk
                         /\ \A id \in pending'[t] : id \in pending[t] \/ (t = s /\ id = nextId[s])
  BY <1>2 DEF Inv, Send
<1>4. nextId'[s] = nextId[s] + 1
  BY <1>2 DEF Inv
<1>5. \A t \in Servers : t # s => nextId'[t] = nextId[t]
  BY <1>2 DEF Inv
<1>6. Grows
  BY <1>1, <1>2, <1>3 DEF Grows
<1>7. ASSUME NEW t \in Servers PROVE WireOk(t)'
  <2>1. nextId'[t] \in Int /\ nextId'[t] >= nextId[t] /\ (t = s => nextId'[t] = nextId[s] + 1)
    <3>1. nextId[t] \in Int
      BY <1>1
    <3>2. CASE t = s
      <4>1. nextId'[t] = nextId[t] + 1
        BY <1>4, <3>2
      <4>2. QED
        BY <3>1, <3>2, <4>1
    <3>3. CASE t # s
      <4>1. nextId'[t] = nextId[t]
        BY <1>5, <3>3
      <4>2. QED
        BY <3>1, <3>3, <4>1
    <3>4. QED
      BY <3>2, <3>3
  <2>2. opened'[t] \in Int /\ opened'[t] <= disk
    BY <1>1, <1>2, <1>3
  <2>3. \A id \in pending'[t] : id \in Int /\ id < nextId'[t]
    BY <1>1, <1>3, <2>1 DEF WireOk
  <2>4. \A i \in DOMAIN arrived[t] : arrived[t][i].id < nextId'[t]
    <3>1. \A i \in DOMAIN arrived[t] : arrived[t][i].id \in Int
      <4>1. arrived[t] \in Seq(Frames)
        BY <1>1 DEF WireOk
      <4>2. \A i \in DOMAIN arrived[t] : arrived[t][i] \in Frames
        BY <4>1
      <4>3. QED
        BY <4>2 DEF Frames
    <3>2. \A i \in DOMAIN arrived[t] : arrived[t][i].id < nextId[t]
      BY <1>1 DEF WireOk
    <3>3. nextId[t] \in Int
      BY <1>1
    <3>4. QED
      BY <2>1, <3>1, <3>2, <3>3
  <2>5. QED
    BY <1>1, <2>1, <2>2, <2>3, <2>4 DEF WireOk
<1>8. WireTyped'
  BY <1>2 DEF Inv, WireTyped, Send
<1>9. \A i \in DOMAIN arrived[s] : arrived[s][i].id # nextId[s]
  <2>1. \A i \in DOMAIN arrived[s] : arrived[s][i].id < nextId[s]
    BY <1>1 DEF WireOk
  <2>2. nextId[s] \in Int
    BY <1>1
  <2>3. \A i \in DOMAIN arrived[s] : arrived[s][i] \in Frames
    BY <1>1 DEF WireOk
  <2>4. \A i \in DOMAIN arrived[s] : arrived[s][i].id \in Int
    BY <2>3 DEF Frames
  <2>5. QED
    BY <2>1, <2>2, <2>4
<1>10. QED
  BY <1>6, <1>7, <1>8, <1>9, <1>4

LEMMA RequestKeeps == ASSUME Inv, NEW c \in Callers, Request(c) PROVE Inv'
<1>1. PICK q : q = caller[c]
  OBVIOUS
<1>2. PICK s : s = q.srv
  OBVIOUS
<1>3. PICK id : id = nextId[s]
  OBVIOUS
<1>4. /\ CallerOk(q) /\ q \in Caller /\ s \in Servers /\ WireOk(s) /\ id \in Int /\ disk \in Int
      /\ q.began <= opened[s]
  BY <1>1, <1>2, <1>3 DEF Inv, CallerOk, WireOk, Request
<1>5. UNCHANGED <<cache, arrived, opened, disk>>
  BY DEF Request
<1>6. ASSUME Send(s, proc[s] = "up")
      PROVE
      /\ Grows /\ WireTyped' /\ (\A t \in Servers : WireOk(t)') /\ nextId'[s] = id + 1
      /\ \A i \in DOMAIN arrived'[s] : arrived'[s][i].id # id
  BY <1>3, <1>4, <1>5, <1>6, Sent
<1>8. CASE Unavailable(c) /\ UNCHANGED <<nextId, pending>>
  <2>1. UNCHANGED <<wire, disk>> /\ cache' \in Servers \union {None, Broken}
    BY <1>8 DEF Request, Inv, wire
  <2>2. QED
    BY <1>8, <2>1, Quiet, Goes DEF Unavailable, Places
<1>9. ASSUME NEW at \in {"requested", "header"}, Send(s, proc[s] = "up"),
             caller' = [caller EXCEPT ![c].at = at, ![c].op = "query", ![c].id = nextId[s]]
      PROVE  Inv'
  <2>1. PICK r : r = [q EXCEPT !.at = at, !.op = "query", !.id = id]
    OBVIOUS
  <2>2. caller' = [caller EXCEPT ![c] = r]
    BY <1>1, <1>3, <1>9, <2>1, Zenon DEF Inv
  <2>3. r.at = at /\ r.op = "query" /\ r.id = id /\ r.srv = s /\ r.began = q.began
    BY <1>2, <1>4, <2>1, Zenon DEF Caller
  <2>4. at \in Places
    BY <1>9 DEF Places
  <2>5. r \in Caller
    BY <1>4, <2>1, <2>4, Zenon DEF Caller
  <2>6. CallerOk(r)'
    BY <1>4, <1>5, <1>6, <1>9, <2>3, <2>5 DEF CallerOk, Waits
  <2>7. QED
    BY <1>5, <1>6, <1>9, <2>2, <2>6, OneCaller DEF Inv
<1>10. QED
  BY <1>1, <1>2, <1>8, <1>9 DEF Request

LEMMA SpawnKeeps == ASSUME Inv, NEW c \in Callers, Spawn(c) PROVE Inv'
<1>1. CASE cache' = Broken /\ Unavailable(c) /\ UNCHANGED <<proc, nextId, pending>>
  BY <1>1, Quiet, Goes DEF Spawn, Unavailable, Places, wire
<1>2. ASSUME NEW s \in Servers, Send(s, TRUE), UNCHANGED cache,
             caller' = [caller EXCEPT ![c].at = "header", ![c].srv = s, ![c].op = "initialize", ![c].id = nextId[s]]
      PROVE  Inv'
  <2>1. PICK q : q = caller[c]
    OBVIOUS
  <2>2. PICK id : id = nextId[s]
    OBVIOUS
  <2>3. CallerOk(q) /\ q \in Caller /\ id \in Int /\ disk \in Int /\ UNCHANGED <<arrived, opened, disk>>
    BY <2>1, <2>2 DEF Inv, CallerOk, WireOk, Spawn
  <2>4. Grows /\ WireTyped' /\ (\A t \in Servers : WireOk(t)') /\ nextId'[s] = id + 1
    BY <1>2, <2>2, <2>3, Sent
  <2>5. PICK r : r = [q EXCEPT !.at = "header", !.srv = s, !.op = "initialize", !.id = id]
    OBVIOUS
  <2>6. caller' = [caller EXCEPT ![c] = r]
    BY <1>2, <2>1, <2>2, <2>5, Zenon DEF Inv
  <2>7. r.at = "header" /\ r.op = "initialize" /\ r.id = id /\ r.srv = s /\ r.began = q.began
    BY <2>3, <2>5, Zenon DEF Caller
  <2>8. "header" \in Places /\ s \in Servers \union {None}
    BY DEF Places
  <2>9. r \in Caller
    BY <2>3, <2>5, <2>8, Zenon DEF Caller
  <2>10. CallerOk(r)'
    BY <2>3, <2>4, <2>7, <2>9 DEF CallerOk, Waits
  <2>11. QED
    BY <1>2, <2>4, <2>6, <2>10, OneCaller DEF Inv
<1>3. QED
  BY <1>1, <1>2 DEF Spawn

LEMMA GetKeeps == ASSUME Inv, NEW c \in Callers, Get(c) PROVE Inv'
<1>1. PICK now : now = disk
  OBVIOUS
<1>2. /\ Grows /\ WireTyped' /\ \A s \in Servers : WireOk(s)'
      /\ cache' \in Servers \union {None, Broken} /\ now \in Int /\ disk' = now
  BY <1>1, Quiet DEF Get, Inv
<1>3. PICK at \in {"unavailable", "sync", "spawn"}, s \in Servers \union {None} :
         /\ at = "sync" => s \in Servers
         /\ caller' = [caller EXCEPT ![c] = [Resting EXCEPT !.at = at, !.srv = s, !.began = disk]]
  BY Zenon DEF Get, Inv
<1>4. PICK r : r = [Resting EXCEPT !.at = at, !.srv = s, !.began = now]
  OBVIOUS
<1>5. caller' = [caller EXCEPT ![c] = r]
  BY <1>1, <1>3, <1>4
<1>6. r = [at |-> at, srv |-> s, op |-> "query", id |-> 0, began |-> now, answer |-> NoFrame]
  BY <1>4, Zenon DEF Resting
<1>7. r \in Caller
  BY <1>2, <1>3, <1>6 DEF Caller, Places, Frames, NoFrame, Frame
<1>8. CallerOk(r)'
  BY <1>2, <1>3, <1>6, <1>7 DEF CallerOk, Waits
<1>9. QED
  BY <1>2, <1>5, <1>8, OneCaller

\* The server, the editor and the end of the session.
LEMMA AnswerKeeps == ASSUME Inv, NEW s \in Servers, Answer(s) PROVE Inv'
<1>1. PICK id \in pending[s] :
         /\ pending' = [pending EXCEPT ![s] = @ \ {id}]
         /\ arrived' = [arrived EXCEPT ![s] = Append(@, Frame(id, opened[s]))]
  BY DEF Answer
<1>2. PICK f : f = Frame(id, opened[s])
  OBVIOUS
<1>3. UNCHANGED <<cache, nextId, opened, disk, caller>> /\ WireOk(s)
  BY DEF Answer, Inv
<1>4. f \in Frames /\ f.id = id /\ f.text = opened[s] /\ id < nextId[s]
  BY <1>2, <1>3 DEF WireOk, Frame, Frames
<1>5. /\ arrived'[s] \in Seq(Frames)
      /\ \A i \in DOMAIN arrived'[s] :
            (i \in DOMAIN arrived[s] /\ arrived'[s][i] = arrived[s][i]) \/ arrived'[s][i] = f
  <2>1. arrived'[s] = Append(arrived[s], f)
    BY <1>1, <1>2 DEF Inv
  <2>2. arrived[s] \in Seq(Frames)
    BY <1>3 DEF WireOk
  <2>3. QED
    BY <1>4, <2>1, <2>2
<1>6. \A t \in Servers : t # s => arrived'[t] = arrived[t] /\ pending'[t] = pending[t]
  BY <1>1 DEF Inv
<1>7. pending'[s] \subseteq pending[s]
  BY <1>1 DEF Inv
<1>8. Grows
  <2>1. \A t \in Servers : \A i \in DOMAIN arrived'[t] :
          (\E j \in DOMAIN arrived[t] : arrived'[t][i] = arrived[t][j]) \/ arrived'[t][i].text = opened[t]
    BY <1>4, <1>5, <1>6
  <2>2. QED
    BY <1>3, <2>1 DEF Grows, Inv, WireOk
<1>9. \A t \in Servers : WireOk(t)'
  BY <1>3, <1>4, <1>5, <1>6, <1>7 DEF Inv, WireOk
<1>10. ASSUME NEW c \in Callers PROVE CallerOk(caller[c])'
  <2>1. PICK q : q = caller[c]
    OBVIOUS
  <2>2. CallerOk(q)'
    BY <1>8, <2>1, Persists DEF Inv
  <2>3. caller'[c] = q
    BY <1>3, <2>1
  <2>4. QED
    BY <2>2, <2>3 DEF CallerOk
<1>11. WireTyped'
  BY <1>1, <1>3 DEF Inv, WireTyped
<1>12. QED
  BY <1>3, <1>9, <1>10, <1>11 DEF Inv, WireTyped

LEMMA WorldKeeps ==
  ASSUME Inv, (\E s \in Servers : Crash(s) \/ Reads(s)) \/ Edit \/ BeginExit \/ ShutdownAll \/ UNCHANGED vars
  PROVE  Inv'
<1>1. /\ UNCHANGED <<nextId, arrived, opened, caller>> /\ cache' \in Servers \union {None, Broken}
      /\ disk' \in Int /\ disk' >= disk
      /\ pending' = [s \in Servers |-> pending'[s]] /\ \A s \in Servers : pending'[s] \subseteq pending[s]
  BY DEF Inv, Crash, Reads, Edit, BeginExit, ShutdownAll, vars, wire
<1>2. \A s \in Servers : WireOk(s)'
  BY <1>1 DEF Inv, WireOk
<1>3. Grows
  BY <1>1 DEF Inv, WireOk, Grows
<1>4. ASSUME NEW c \in Callers PROVE CallerOk(caller[c])'
  <2>1. PICK q : q = caller[c]
    OBVIOUS
  <2>2. CallerOk(q)'
    BY <1>3, <2>1, Persists DEF Inv
  <2>3. caller'[c] = q
    BY <1>1, <2>1
  <2>4. QED
    BY <2>2, <2>3 DEF CallerOk
<1>5. QED
  BY <1>1, <1>2, <1>4 DEF Inv

\* Where each caller stands after one of them moved.
LEMMA Moved ==
  ASSUME Inv, NEW c \in Callers, NEW r,
         caller' = [caller EXCEPT ![c] = r] \/ caller' = [caller EXCEPT ![c].at = r.at]
  PROVE  /\ caller'[c].at = r.at
         /\ \A d \in Callers \ {c} : caller'[d] = caller[d]
<1>1. PICK q : q = caller[c]
  OBVIOUS
<1>2. q \in Caller
  BY <1>1 DEF Inv, CallerOk
<1>3. CASE caller' = [caller EXCEPT ![c] = r]
  BY <1>3 DEF Inv
<1>4. CASE caller' = [caller EXCEPT ![c].at = r.at]
  <2>1. caller'[c] = [q EXCEPT !.at = r.at]
    BY <1>1, <1>4 DEF Inv
  <2>2. [q EXCEPT !.at = r.at].at = r.at
    BY <1>2, Zenon DEF Caller
  <2>3. \A d \in Callers \ {c} : caller'[d] = caller[d]
    BY <1>4 DEF Inv
  <2>4. QED
    BY <2>1, <2>2, <2>3
<1>5. QED
  BY <1>3, <1>4

\* No one enters a body, and a stream that runs dry has no reader inside a frame.
LEMMA HeadsStay ==
  ASSUME Heads, misread' = [s \in Servers |-> misread'[s]],
         \A c \in Callers : caller'[c].at = "body" =>
            /\ caller[c].at = "body" /\ caller'[c].srv = caller[c].srv
            /\ misread[caller[c].srv] => misread'[caller[c].srv]
            /\ \/ misread'[caller[c].srv]
               \/ arrived[caller[c].srv] # <<>> => arrived'[caller[c].srv] # <<>>
  PROVE  Heads'
  BY DEF Heads

LEMMA Leaves ==
  ASSUME Inv, NEW c \in Callers,
         Get(c) \/ Spawn(c) \/ Sync(c) \/ Request(c) \/ Requested(c) \/ ReadBody(c)
         \/ ReadMisread(c) \/ ReadClosed(c) \/ Timeout(c) \/ Reap(c)
         \/ (\E d \in Callers : Collide(c, d))
  PROVE  caller'[c].at # "body" /\ \A d \in Callers \ {c} : caller'[d] = caller[d]
<1>1. PICK q : q = caller[c]
  OBVIOUS
<1>2. q \in Caller
  BY <1>1 DEF Inv, CallerOk
<1>3. ASSUME NEW at \in Places \ {"body"}, caller' = [caller EXCEPT ![c].at = at]
      PROVE  caller'[c].at # "body" /\ \A d \in Callers \ {c} : caller'[d] = caller[d]
  <2>1. PICK r : r = [at |-> at]
    OBVIOUS
  <2>2. r.at = at
    BY <2>1
  <2>3. QED
    BY <1>3, <2>2, Moved
<1>4. CASE Failed(c)
  BY <1>3, <1>4 DEF Failed, Unavailable, Places
<1>5. CASE Get(c)
  <2>1. PICK at \in {"unavailable", "sync", "spawn"}, s \in Servers \union {None} :
           caller' = [caller EXCEPT ![c] = [Resting EXCEPT !.at = at, !.srv = s, !.began = disk]]
    BY <1>5, Zenon DEF Get, Inv
  <2>2. PICK r : r = [Resting EXCEPT !.at = at, !.srv = s, !.began = disk]
    OBVIOUS
  <2>3. r.at = at
    BY <2>2, Zenon DEF Resting
  <2>4. QED
    BY <2>1, <2>2, <2>3, Moved
<1>6. CASE Spawn(c)
  <2>1. CASE Unavailable(c)
    BY <1>3, <2>1 DEF Unavailable, Places
  <2>2. ASSUME NEW s \in Servers, caller' = [caller EXCEPT ![c].at = "header", ![c].srv = s,
                                            ![c].op = "initialize", ![c].id = nextId[s]]
        PROVE  caller'[c].at # "body" /\ \A d \in Callers \ {c} : caller'[d] = caller[d]
    <3>1. PICK r : r = [q EXCEPT !.at = "header", !.srv = s, !.op = "initialize", !.id = nextId[s]]
      OBVIOUS
    <3>2. caller' = [caller EXCEPT ![c] = r]
      BY <1>1, <2>2, <3>1, Zenon DEF Inv
    <3>3. r.at = "header"
      BY <1>2, <3>1, Zenon DEF Caller
    <3>4. QED
      BY <3>2, <3>3, Moved
  <2>3. QED
    BY <1>6, <2>1, <2>2 DEF Spawn
<1>7. CASE Sync(c) \/ Request(c) \/ Requested(c)
  <2>1. CASE Unavailable(c) \/ Sync(c) \/ caller' = [caller EXCEPT ![c].at = "header"]
    BY <1>3, <2>1 DEF Unavailable, Sync, Places
  <2>2. ASSUME NEW id, NEW at \in {"requested", "header"},
               caller' = [caller EXCEPT ![c].at = at, ![c].op = "query", ![c].id = id]
        PROVE  caller'[c].at # "body" /\ \A d \in Callers \ {c} : caller'[d] = caller[d]
    <3>1. PICK r : r = [q EXCEPT !.at = at, !.op = "query", !.id = id]
      OBVIOUS
    <3>2. caller' = [caller EXCEPT ![c] = r]
      BY <1>1, <2>2, <3>1, Zenon DEF Inv
    <3>3. r.at = at
      BY <1>2, <3>1, Zenon DEF Caller
    <3>4. r.at # "body"
      BY <2>2, <3>3
    <3>5. QED
      BY <3>2, <3>4, Moved
  <2>3. ASSUME Request(c), ~Unavailable(c)
        PROVE  \E at \in {"requested", "header"}, id \in {nextId[caller[c].srv]} :
                  caller' = [caller EXCEPT ![c].at = at, ![c].op = "query", ![c].id = id]
    BY <2>3 DEF Request
  <2>4. QED
    BY <1>7, <2>1, <2>2, <2>3 DEF Requested
<1>8. CASE ReadBody(c)
  <2>1. ASSUME NEW f, Answered(c, f)
        PROVE  caller'[c].at # "body" /\ \A d \in Callers \ {c} : caller'[d] = caller[d]
    <3>1. PICK r : r = [q EXCEPT !.at = "answered", !.answer = f]
      OBVIOUS
    <3>2. caller' = [caller EXCEPT ![c] = r]
      BY <1>1, <2>1, <3>1, Zenon DEF Answered, Inv
    <3>3. r.at = "answered"
      BY <1>2, <3>1, Zenon DEF Caller
    <3>4. QED
      BY <3>2, <3>3, Moved
  <2>2. QED
    BY <1>3, <1>8, <2>1 DEF ReadBody, Places
<1>9. CASE Reap(c)
  BY <1>3, <1>9 DEF Reap, Unavailable, Places
<1>10. QED
  BY <1>4, <1>5, <1>6, <1>7, <1>8, <1>9 DEF ReadMisread, ReadClosed, Timeout, Collide

LEMMA StepKeepsHeads ==
  ASSUME Inv, Heads, [Next]_vars
  PROVE  Heads'
<1>1. ASSUME NEW c \in Callers, Get(c) \/ Spawn(c) \/ Sync(c) \/ Drained(c) \/ ReadClosed(c) \/ Reap(c) PROVE Heads'
  <2>1. UNCHANGED <<arrived, misread>>
    BY <1>1 DEF Get, Spawn, Sync, Drained, Request, Requested, ReadClosed, Reap, wire
  <2>2. QED
    BY <1>1, <2>1, Leaves, HeadsStay DEF Heads, Drained
<1>2. ASSUME NEW c \in Callers, Timeout(c) \/ \E d \in Callers : Collide(c, d) PROVE Heads'
  <2>1. /\ arrived' = arrived /\ misread' = [s \in Servers |-> misread'[s]]
        /\ \A s \in Servers : misread[s] => misread'[s]
    BY <1>2 DEF Timeout, Collide, Heads
  <2>2. \A d \in Callers : caller[d].at = "body" => caller[d].srv \in Servers
    BY DEF Inv, CallerOk, Waits
  <2>3. QED
    BY <1>2, <2>1, <2>2, Leaves, HeadsStay
<1>3. ASSUME NEW c \in Callers, ReadMisread(c) \/ ReadBody(c) PROVE Heads'
  <2>1. PICK s : s = caller[c].srv
    OBVIOUS
  <2>2. s \in Servers /\ misread' = misread /\ \A t \in Servers : t # s => arrived'[t] = arrived[t]
    BY <1>3, <2>1 DEF Inv, CallerOk, Waits, ReadMisread, ReadBody
  <2>3. \A d \in Callers : caller[d].at = "body" => caller[d].srv \in Servers
    BY DEF Inv, CallerOk, Waits
  <2>4. \A d \in Callers \ {c} : caller[d].at = "body" /\ caller[d].srv = s => misread[s]
    BY <1>3, <2>1, <2>3 DEF Heads, ReadMisread, ReadBody
  <2>5. QED
    BY <1>3, <2>2, <2>3, <2>4, Leaves, HeadsStay DEF Heads
<1>4. ASSUME NEW c \in Callers, ReadHeader(c) PROVE Heads'
  <2>1. PICK s : s = caller[c].srv
    OBVIOUS
  <2>2. PICK q : q = caller[c]
    OBVIOUS
  <2>3. caller'[c] = [q EXCEPT !.at = "body"] /\ \A d \in Callers \ {c} : caller'[d] = caller[d]
    BY <1>4, <2>2 DEF ReadHeader, Inv
  <2>4. caller'[c].srv = s
    BY <2>1, <2>2, <2>3, Zenon DEF Inv, CallerOk, Caller
  <2>5. UNCHANGED <<arrived, misread>> /\ arrived[s] # <<>>
    BY <1>4, <2>1 DEF ReadHeader, wire
  <2>6. \A d \in Callers : ~(caller[d].at = "body" /\ caller[d].srv = s)
    BY <1>4, <2>1 DEF ReadHeader
  <2>7. ASSUME NEW d \in Callers, caller'[d].at = "body"
        PROVE  \/ misread'[caller'[d].srv]
               \/ /\ arrived'[caller'[d].srv] # <<>>
                  /\ \A e \in Callers \ {d} : ~(caller'[e].at = "body" /\ caller'[e].srv = caller'[d].srv)
    <3>1. CASE d = c
      BY <2>3, <2>4, <2>5, <2>6, <3>1
    <3>2. CASE d # c
      <4>1. caller'[d] = caller[d] /\ caller[d].at = "body" /\ caller[d].srv # s
        BY <2>3, <2>6, <2>7, <3>2
      <4>2. \A e \in Callers \ {d, c} : caller'[e] = caller[e]
        BY <2>3
      <4>3. QED
        BY <2>4, <2>5, <4>1, <4>2 DEF Heads
    <3>3. QED
      BY <3>1, <3>2
  <2>8. QED
    BY <2>5, <2>7 DEF Heads
<1>5. ASSUME NEW s \in Servers, Answer(s) PROVE Heads'
  <2>1. UNCHANGED <<misread, caller>> /\ \A t \in Servers : arrived[t] # <<>> => arrived'[t] # <<>>
    <3>1. PICK f \in Frames : arrived' = [arrived EXCEPT ![s] = Append(@, f)]
      BY <1>5 DEF Answer, Frame, Frames, Inv, WireOk
    <3>2. arrived[s] \in Seq(Frames)
      BY DEF Inv, WireOk
    <3>3. Append(arrived[s], f) # <<>>
      <4>1. Len(Append(arrived[s], f)) = Len(arrived[s]) + 1 /\ Len(arrived[s]) \in Nat
        BY <3>1, <3>2
      <4>2. QED
        BY <4>1
    <3>4. QED
      BY <1>5, <3>1, <3>3 DEF Answer, Inv
  <2>2. \A d \in Callers : caller[d].at = "body" => caller[d].srv \in Servers
    BY DEF Inv, CallerOk, Waits
  <2>3. QED
    BY <2>1, <2>2, HeadsStay DEF Heads
<1>6. ASSUME (\E s \in Servers : Crash(s) \/ Reads(s)) \/ Edit \/ BeginExit \/ ShutdownAll \/ UNCHANGED vars
      PROVE  Heads'
  BY <1>6 DEF Crash, Reads, Edit, BeginExit, ShutdownAll, vars, wire, Heads
<1>7. QED
  BY <1>1, <1>2, <1>3, <1>4, <1>5, <1>6 DEF Next, Op

\* What AnswerIsRight rests on: every request on the wire has an id of its own and
\* was sent after didOpen or didChange told the server of the file as it was when
\* the op began, and a reader inside a frame finds that frame first.
THEOREM LspInv == Spec => [](Inv /\ Heads)
<1>1. Init => Inv /\ Heads
  <2>1. Init => Heads
    BY DEF Init, Heads, Resting
  <2>2. ASSUME Init PROVE Inv
    <3>1. \A s \in Servers : WireOk(s)
      BY <2>2 DEF Init, WireOk
    <3>2. Resting \in Caller /\ Resting.at = "idle" /\ Resting.began = 0
      BY DEF Resting, Caller, Places, Frames, NoFrame, Frame
    <3>3. CallerOk(Resting)
      BY <2>2, <3>2 DEF CallerOk, Init, Waits
    <3>4. QED
      BY <2>2, <3>1, <3>3 DEF Init, Inv
  <2>3. QED
    BY <2>1, <2>2
<1>2. Inv /\ Heads /\ [Next]_vars => Inv' /\ Heads'
  <2>1. SUFFICES ASSUME Inv, Heads, [Next]_vars PROVE Inv'
    BY StepKeepsHeads
  <2>2. QED
    BY <2>1, GetKeeps, SpawnKeeps, SyncKeeps, RequestKeeps, ReadKeeps, ReadBodyKeeps, FailKeeps, AnswerKeeps,
       WorldKeeps DEF Next, Op, Drained
<1>3. QED
  BY <1>1, <1>2, PTL DEF Spec

\* AnswerIsRight, for any callers, servers and edits: however the frames of timed-out
\* requests linger and whatever two ops do to one stream, an answer is to the op's
\* own request and about contents no older than the op.
THEOREM LspAnswerIsRight == Spec => []AnswerIsRight
<1>1. Inv => AnswerIsRight
  BY DEF Inv, CallerOk, AnswerIsRight, AnswerIsMine, AnswerIsFresh
<1>2. QED
  BY <1>1, LspInv, PTL

-----------------------------------------------------------------------------
(* One process at a time, while no two ops overlapped *)

\* An op has a process that is not in the cache yet, or no longer will be.
Owns(r) == r.at = "reap" \/ (r.at \in {"header", "body"} /\ r.op = "initialize")

\* Each process that is up has one keeper: the cache, or the op that started it while the
\* cache is empty.
Solo ==
    /\ proc = [s \in Servers |-> proc[s]]
    /\ exit # "open" => \A c \in Callers : ~Busy(c)
    /\ ~overlapped =>
          /\ \A c, d \in Callers : Busy(c) /\ Busy(d) => c = d
          /\ \A c \in Callers : caller[c].at = "spawn" \/ Owns(caller[c]) => cache \notin Servers
          /\ \A s \in Servers : proc[s] = "up" =>
                s = cache \/ \E c \in Callers : Owns(caller[c]) /\ caller[c].srv = s
          /\ exit = "closed" => \A s \in Servers : proc[s] # "up"

\* What a move from one place to another leaves in the record of the op.
LEMMA MovedTo ==
  ASSUME Inv, NEW c \in Callers, NEW at, caller' = [caller EXCEPT ![c].at = at]
  PROVE  /\ caller'[c].at = at /\ caller'[c].srv = caller[c].srv /\ caller'[c].op = caller[c].op
         /\ \A d \in Callers \ {c} : caller'[d] = caller[d]
<1>1. PICK q : q = caller[c]
  OBVIOUS
<1>2. q \in Caller
  BY <1>1 DEF Inv, CallerOk
<1>3. PICK r : r = [q EXCEPT !.at = at]
  OBVIOUS
<1>4. caller'[c] = r /\ \A d \in Callers \ {c} : caller'[d] = caller[d]
  BY <1>1, <1>3 DEF Inv
<1>5. r.at = at /\ r.srv = q.srv /\ r.op = q.op
  BY <1>2, <1>3, Zenon DEF Caller
<1>6. QED
  BY <1>1, <1>4, <1>5

\* An op goes on with the process it has, or without one.
LEMMA SoloGoesOn ==
  ASSUME Solo, NEW c \in Callers, Busy(c), UNCHANGED <<proc, cache, overlapped, exit>>,
         \A d \in Callers \ {c} : caller'[d] = caller[d],
         caller'[c].at # "spawn", Owns(caller[c]) <=> Owns(caller'[c]),
         Owns(caller[c]) => caller'[c].srv = caller[c].srv
  PROVE  Solo'
<1>1. \A d \in Callers : Owns(caller[d])' <=> Owns(caller[d])
  BY DEF Owns
<1>2. \A d \in Callers : Busy(d)' => Busy(d)
  BY DEF Busy
<1>3. \A d \in Callers : Owns(caller[d]) => caller'[d].srv = caller[d].srv
  OBVIOUS
<1>4. ASSUME ~overlapped' PROVE \A d \in Callers : caller'[d].at = "spawn" => caller[d].at = "spawn"
  OBVIOUS
<1>5. QED
  BY <1>1, <1>2, <1>3, <1>4 DEF Solo

LEMMA SoloReads ==
  ASSUME Inv, Solo, NEW c \in Callers,
         ReadHeader(c) \/ ReadMisread(c) \/ ReadClosed(c) \/ Timeout(c) \/ \E d \in Callers : Collide(c, d)
  PROVE  Solo'
<1>1. caller[c].at \in {"header", "body"} /\ Busy(c) /\ UNCHANGED <<proc, cache, overlapped, exit>>
  BY DEF ReadHeader, ReadMisread, ReadClosed, Timeout, Collide, Busy, count
<1>2. \/ caller' = [caller EXCEPT ![c].at = "body"]
      \/ caller[c].op = "initialize" /\ caller' = [caller EXCEPT ![c].at = "reap"]
      \/ caller[c].op # "initialize" /\ caller' = [caller EXCEPT ![c].at = "unavailable"]
  BY DEF ReadHeader, ReadMisread, ReadClosed, Timeout, Collide, Failed, Unavailable
<1>3. /\ \A d \in Callers \ {c} : caller'[d] = caller[d]
      /\ caller'[c].at # "spawn" /\ caller'[c].srv = caller[c].srv
      /\ Owns(caller[c]) <=> Owns(caller'[c])
  <2>1. CASE caller' = [caller EXCEPT ![c].at = "body"]
    BY <1>1, <2>1, MovedTo DEF Owns
  <2>2. CASE caller[c].op = "initialize" /\ caller' = [caller EXCEPT ![c].at = "reap"]
    BY <1>1, <2>2, MovedTo DEF Owns
  <2>3. CASE caller[c].op # "initialize" /\ caller' = [caller EXCEPT ![c].at = "unavailable"]
    BY <1>1, <2>3, MovedTo DEF Owns
  <2>4. QED
    BY <1>2, <2>1, <2>2, <2>3
<1>4. QED
  BY <1>1, <1>3, SoloGoesOn

LEMMA SoloQuery == ASSUME Inv, Solo, NEW c \in Callers, Sync(c) \/ Drained(c) PROVE Solo'
<1>1. /\ Busy(c) /\ ~Owns(caller[c])
      /\ UNCHANGED <<proc, cache, overlapped, exit>>
  BY DEF Sync, Drained, Request, Requested, Busy, Owns, count
<1>2. ASSUME NEW at \in {"notified", "unavailable"}, caller' = [caller EXCEPT ![c].at = at] PROVE Solo'
  <2>1. caller'[c].at = at /\ \A d \in Callers \ {c} : caller'[d] = caller[d]
    BY <1>2, MovedTo
  <2>2. QED
    BY <1>1, <1>2, <2>1, SoloGoesOn DEF Owns
<1>3. ASSUME NEW id, NEW at \in {"requested", "header"},
             caller' = [caller EXCEPT ![c].at = at, ![c].op = "query", ![c].id = id]
      PROVE  Solo'
  <2>1. PICK q : q = caller[c]
    OBVIOUS
  <2>2. q \in Caller
    BY <2>1 DEF Inv, CallerOk
  <2>3. PICK r : r = [q EXCEPT !.at = at, !.op = "query", !.id = id]
    OBVIOUS
  <2>4. caller' = [caller EXCEPT ![c] = r]
    BY <1>3, <2>1, <2>3, Zenon DEF Inv
  <2>5. r.at = at /\ r.op = "query"
    BY <2>2, <2>3, Zenon DEF Caller
  <2>6. caller'[c] = r /\ \A d \in Callers \ {c} : caller'[d] = caller[d]
    BY <2>4 DEF Inv
  <2>7. QED
    BY <1>1, <1>3, <2>5, <2>6, SoloGoesOn DEF Owns
<1>4. ASSUME caller[c].op = "query", caller' = [caller EXCEPT ![c].at = "header"] PROVE Solo'
  <2>1. caller'[c].at = "header" /\ caller'[c].op = "query" /\ \A d \in Callers \ {c} : caller'[d] = caller[d]
    BY <1>4, MovedTo
  <2>2. QED
    BY <1>1, <2>1, SoloGoesOn DEF Owns
<1>5. CASE Request(c)
  <2>1. Unavailable(c) \/ \E at \in {"requested", "header"}, id \in {nextId[caller[c].srv]} :
                  caller' = [caller EXCEPT ![c].at = at, ![c].op = "query", ![c].id = id]
    BY <1>5 DEF Request
  <2>2. QED
    BY <1>2, <1>3, <2>1 DEF Unavailable
<1>6. CASE Requested(c)
  <2>1. caller[c].op = "query"
    BY <1>6 DEF Requested, Inv, CallerOk
  <2>2. QED
    BY <1>2, <1>4, <1>6, <2>1 DEF Requested, Unavailable
<1>7. QED
  BY <1>2, <1>5, <1>6 DEF Sync, Drained

LEMMA SoloSpawn == ASSUME Inv, Solo, NEW c \in Callers, Spawn(c) PROVE Solo'
<1>1. caller[c].at = "spawn" /\ Busy(c) /\ ~Owns(caller[c]) /\ UNCHANGED <<overlapped, exit>>
  BY DEF Spawn, Busy, Owns, count
<1>2. CASE cache' = Broken /\ Unavailable(c) /\ UNCHANGED proc
  <2>1. caller'[c].at = "unavailable" /\ \A d \in Callers \ {c} : caller'[d] = caller[d]
    BY <1>2, MovedTo DEF Unavailable
  <2>2. Broken \notin Servers
    BY LspAssumption
  <2>3. \A d \in Callers : Busy(d)' => d # c /\ Busy(d)
    BY <2>1 DEF Busy
  <2>4. QED
    BY <1>1, <1>2, <2>1, <2>2, <2>3 DEF Solo, Owns
<1>3. ASSUME NEW s \in Servers, proc' = [proc EXCEPT ![s] = "up"], UNCHANGED cache,
             caller' = [caller EXCEPT ![c].at = "header", ![c].srv = s, ![c].op = "initialize", ![c].id = nextId[s]]
      PROVE  Solo'
  <2>1. PICK q : q = caller[c]
    OBVIOUS
  <2>2. q \in Caller
    BY <2>1 DEF Inv, CallerOk
  <2>3. PICK r : r = [q EXCEPT !.at = "header", !.srv = s, !.op = "initialize", !.id = nextId[s]]
    OBVIOUS
  <2>4. caller' = [caller EXCEPT ![c] = r]
    BY <1>3, <2>1, <2>3, Zenon DEF Inv
  <2>5. r.at = "header" /\ r.op = "initialize" /\ r.srv = s
    BY <2>2, <2>3, Zenon DEF Caller
  <2>6. caller'[c] = r /\ \A d \in Callers \ {c} : caller'[d] = caller[d]
    BY <2>4 DEF Inv
  <2>7. \A d \in Callers : Busy(d)' => Busy(d)
    BY <1>1, <2>6 DEF Busy
  <2>8. proc' = [t \in Servers |-> proc'[t]] /\ \A t \in Servers : proc'[t] = "up" => t = s \/ proc[t] = "up"
    BY <1>3 DEF Solo
  <2>9. Owns(caller'[c]) /\ caller'[c].srv = s
    BY <2>5, <2>6 DEF Owns
  <2>10. ASSUME ~overlapped PROVE \A t \in Servers : proc'[t] = "up" => t = s
    BY <1>1, <2>8, <2>10 DEF Solo, Owns, Busy
  <2>11. QED
    BY <1>1, <1>3, <2>6, <2>7, <2>8, <2>9, <2>10 DEF Solo
<1>4. QED
  BY <1>2, <1>3 DEF Spawn

LEMMA SoloBody == ASSUME Inv, Solo, NEW c \in Callers, ReadBody(c) PROVE Solo'
<1>1. caller[c].at = "body" /\ Busy(c) /\ UNCHANGED <<proc, overlapped, exit>>
  BY DEF ReadBody, Busy, count
<1>2. CASE caller' = [caller EXCEPT ![c].at = "header"] /\ UNCHANGED cache
  <2>1. /\ \A d \in Callers \ {c} : caller'[d] = caller[d]
        /\ caller'[c].at # "spawn" /\ caller'[c].srv = caller[c].srv /\ (Owns(caller[c]) <=> Owns(caller'[c]))
    BY <1>1, <1>2, MovedTo DEF Owns
  <2>2. QED
    BY <1>1, <1>2, <2>1, SoloGoesOn
<1>3. CASE caller[c].op = "initialize" /\ caller' = [caller EXCEPT ![c].at = "sync"] /\ cache' = caller[c].srv
  <2>1. caller'[c].at = "sync" /\ \A d \in Callers \ {c} : caller'[d] = caller[d]
    BY <1>3, MovedTo
  <2>2. \A d \in Callers : Busy(d)' => Busy(d)
    BY <1>1, <2>1 DEF Busy
  <2>3. Owns(caller[c]) /\ ~Owns(caller'[c])
    BY <1>1, <1>3, <2>1 DEF Owns
  <2>4. ASSUME ~overlapped
        PROVE  /\ \A d \in Callers : ~(caller'[d].at = "spawn" \/ Owns(caller'[d]))
               /\ \A t \in Servers : proc[t] = "up" => t = cache'
    BY <1>1, <1>3, <2>1, <2>3, <2>4 DEF Solo, Owns, Busy
  <2>5. QED
    BY <1>1, <2>1, <2>2, <2>4 DEF Solo
<1>4. ASSUME NEW f, caller[c].op # "initialize", Answered(c, f), UNCHANGED cache PROVE Solo'
  <2>1. PICK q : q = caller[c]
    OBVIOUS
  <2>2. q \in Caller
    BY <2>1 DEF Inv, CallerOk
  <2>3. PICK r : r = [q EXCEPT !.at = "answered", !.answer = f]
    OBVIOUS
  <2>4. caller' = [caller EXCEPT ![c] = r]
    BY <1>4, <2>1, <2>3, Zenon DEF Answered, Inv
  <2>5. r.at = "answered"
    BY <2>2, <2>3, Zenon DEF Caller
  <2>6. caller'[c] = r /\ \A d \in Callers \ {c} : caller'[d] = caller[d]
    BY <2>4 DEF Inv
  <2>7. QED
    BY <1>1, <1>4, <2>5, <2>6, SoloGoesOn DEF Owns
<1>5. QED
  BY <1>2, <1>3, <1>4 DEF ReadBody

LEMMA SoloReap == ASSUME Inv, Solo, NEW c \in Callers, Reap(c) PROVE Solo'
<1>1. /\ caller[c].at = "reap" /\ Busy(c) /\ Owns(caller[c]) /\ cache' = Broken
      /\ proc' = [proc EXCEPT ![caller[c].srv] = "dead"] /\ UNCHANGED <<overlapped, exit>>
  BY DEF Reap, Busy, Owns, count
<1>2. caller'[c].at = "unavailable" /\ \A d \in Callers \ {c} : caller'[d] = caller[d]
  BY MovedTo DEF Reap, Unavailable
<1>3. \A d \in Callers : Busy(d)' => Busy(d) /\ d # c
  BY <1>2 DEF Busy
<1>4. proc' = [s \in Servers |-> proc'[s]] /\ \A s \in Servers : proc'[s] = "up" => proc[s] = "up" /\ s # caller[c].srv
  BY <1>1 DEF Solo
<1>5. ASSUME ~overlapped PROVE \A s \in Servers : proc'[s] # "up"
  BY <1>1, <1>4, <1>5 DEF Solo, Owns, Busy
<1>6. Broken \notin Servers
  BY LspAssumption
<1>7. QED
  BY <1>1, <1>2, <1>3, <1>4, <1>5, <1>6 DEF Solo

LEMMA SoloGet == ASSUME Inv, Solo, NEW c \in Callers, Get(c) PROVE Solo'
<1>1. /\ ~Busy(c) /\ exit = "open" /\ exit' = "open" /\ proc' = proc
      /\ ~overlapped' => ~overlapped /\ \A d \in Callers \ {c} : ~Busy(d)
      /\ \/ cache' = cache
         \/ cache' = None /\ ~Alive(cache)
  BY DEF Get
<1>2. None \notin Servers /\ Broken \notin Servers
  BY LspAssumption
<1>3. PICK at \in {"unavailable", "sync", "spawn"}, s \in Servers \union {None} :
         /\ at = "spawn" => cache' = None
         /\ caller' = [caller EXCEPT ![c] = [Resting EXCEPT !.at = at, !.srv = s, !.began = disk]]
  BY Zenon DEF Get, Inv
<1>4. PICK r : r = [Resting EXCEPT !.at = at, !.srv = s, !.began = disk]
  OBVIOUS
<1>5. r.at = at
  BY <1>4, Zenon DEF Resting
<1>6. caller'[c] = r /\ \A d \in Callers \ {c} : caller'[d] = caller[d]
  BY <1>3, <1>4 DEF Inv
<1>7. ~Owns(caller'[c]) /\ ~Owns(caller[c])
  BY <1>1, <1>5, <1>6 DEF Owns, Busy
<1>8. ASSUME ~overlapped'
      PROVE  /\ \A d \in Callers \ {c} : ~Busy(d)' /\ ~Owns(caller[d]) /\ caller'[d].at # "spawn"
             /\ \A t \in Servers : proc'[t] = "up" => t = cache'
  <2>1. \A d \in Callers \ {c} : ~Busy(d) /\ ~Busy(d)' /\ ~Owns(caller[d]) /\ caller'[d].at # "spawn"
    BY <1>1, <1>6, <1>8 DEF Busy, Owns
  <2>2. \A t \in Servers : proc[t] = "up" => t = cache
    BY <1>1, <1>7, <1>8, <2>1 DEF Solo
  <2>3. QED
    BY <1>1, <2>1, <2>2 DEF Alive
<1>9. QED
  BY <1>1, <1>2, <1>3, <1>5, <1>6, <1>7, <1>8 DEF Solo, Owns

LEMMA SoloWorld ==
  ASSUME Inv, Solo,
         (\E s \in Servers : Answer(s) \/ Crash(s) \/ Reads(s)) \/ Edit \/ BeginExit \/ ShutdownAll \/ UNCHANGED vars
  PROVE  Solo'
<1>1. CASE (\E s \in Servers : Answer(s) \/ Crash(s) \/ Reads(s)) \/ Edit \/ UNCHANGED vars
  <2>1. /\ UNCHANGED <<caller, cache, overlapped, exit>> /\ proc' = [s \in Servers |-> proc'[s]]
        /\ \A s \in Servers : proc'[s] = "up" => proc[s] = "up"
    BY <1>1 DEF Answer, Crash, Reads, Edit, vars, count, Solo
  <2>2. QED
    BY <2>1 DEF Solo, Busy, Owns
<1>2. CASE BeginExit
  BY <1>2 DEF BeginExit, Solo, Busy, Owns, count
<1>3. CASE ShutdownAll
  <2>1. /\ UNCHANGED <<caller, overlapped>> /\ cache' = None /\ proc' = [s \in Servers |-> proc'[s]]
        /\ \A c \in Callers : ~Busy(c)
        /\ \A s \in Servers : proc'[s] = "up" => proc[s] = "up" /\ s # cache
    BY <1>3 DEF ShutdownAll, count, Solo
  <2>2. \A c \in Callers : ~Owns(caller[c]) /\ ~Busy(c)' /\ caller[c].at # "spawn"
    BY <2>1 DEF Busy, Owns
  <2>3. ASSUME ~overlapped PROVE \A s \in Servers : proc'[s] # "up"
    BY <2>1, <2>2, <2>3 DEF Solo
  <2>4. QED
    BY <2>1, <2>2, <2>3 DEF Solo
<1>4. QED
  BY <1>1, <1>2, <1>3

\* OneServer, for any callers and servers: while ops came one after the other, each process
\* was started for an empty cache (services/lsp/service.py, _get_client) and stopped or
\* collected before the next one.
THEOREM LspOneServer == Spec => []OneServer
<1>1. Init => Solo
  BY DEF Init, Solo, Resting, Busy, Owns
<1>2. Inv /\ Solo /\ [Next]_vars => Solo'
  <2>1. SUFFICES ASSUME Inv, Solo, [Next]_vars PROVE Solo'
    OBVIOUS
  <2>2. QED
    BY <2>1, SoloGet, SoloSpawn, SoloQuery, SoloReads, SoloBody, SoloReap, SoloWorld DEF Next, Op, Drained
<1>3. Solo => OneServer
  <2>1. SUFFICES ASSUME Solo, ~overlapped
                 PROVE  Cardinality({s \in Servers : proc[s] = "up"}) <= IF exit = "closed" THEN 0 ELSE 1
    BY DEF OneServer
  <2>2. PICK S : S = {s \in Servers : proc[s] = "up"}
    OBVIOUS
  <2>3. \A s, t \in S : s = t
    BY <2>1, <2>2 DEF Solo, Owns, Busy
  <2>4. CASE S = {}
    BY <2>2, <2>4, FS_EmptySet
  <2>5. CASE S # {}
    <3>1. PICK s \in S : TRUE
      BY <2>5
    <3>2. S = {s} /\ Cardinality({s}) = 1
      BY <2>3, <3>1, FS_Singleton
    <3>3. exit # "closed"
      BY <2>1, <2>2, <3>1 DEF Solo
    <3>4. QED
      BY <2>2, <3>2, <3>3
  <2>6. QED
    BY <2>4, <2>5
<1>4. QED
  BY <1>1, <1>2, <1>3, LspInv, PTL DEF Spec
=============================================================================
