---------------------------- MODULE SandboxProofs ----------------------------
(* Proofs about Sandbox, for any callers, sandboxes and writes: while calls *)
(* come one after the other no sandbox is left running and no write is lost *)
(* without a word.                                                          *)
EXTENDS Sandbox, FiniteSetTheorems, TLAPS

Place == {"idle", "creating", "probing", "reviving", "running"}
CallIn(n) == {r \in [op : Op \cup {"none"}, box : 0 .. n, retried : BOOLEAN, pc : Place] :
                r.pc = "idle" \/ r.op \in Op}
Writes == 1 .. MaxWrites
Box == [status : {"up", "gone", "terminated"}, files : SUBSET Writes]

\* What each variable may hold, as far as the proof needs it.
Typed ==
  /\ boxes \in Seq(Box) /\ handle \in 0 .. Len(boxes)
  /\ call \in [Caller -> CallIn(Len(boxes))]
  /\ {created, recreated, closed, swept, overlapped} \subseteq BOOLEAN
  /\ host \subseteq Writes /\ acked \subseteq Writes

\* A call goes where it goes, and the others stay.
Goes(c, r) == call' = [call EXCEPT ![c] = r]

LEMMA GoesTyped ==
  ASSUME Typed, NEW c \in Caller, NEW n \in Nat, n >= Len(boxes), NEW r \in CallIn(n), Goes(c, r)
  PROVE  /\ call' \in [Caller -> CallIn(n)] /\ call'[c] = r
         /\ \A d \in Caller \ {c} : call'[d] = call[d]
<1>1. CallIn(Len(boxes)) \subseteq CallIn(n)
  <2>1. Len(boxes) \in Nat
    BY DEF Typed
  <2>2. 0 .. Len(boxes) \subseteq 0 .. n
    BY <2>1
  <2>3. QED
    BY <2>2 DEF CallIn
<1>2. call \in [Caller -> CallIn(n)]
  BY <1>1 DEF Typed
<1>3. QED
  BY <1>2 DEF Goes

LEMMA EndGoes ==
  ASSUME Typed, NEW c \in Caller, NEW result, End(c, result)
  PROVE  Goes(c, Idle) /\ Idle \in CallIn(Len(boxes))
<1>1. 0 \in 0 .. Len(boxes)
  BY DEF Typed
<1>2. QED
  BY <1>1 DEF End, Goes, Idle, CallIn, Place

\* The record of a call that Revive leaves.
LEMMA ReviveGoes ==
  ASSUME Typed, NEW c \in Caller, NEW retried \in BOOLEAN, Revive(c, retried), call[c].pc # "idle"
  PROVE  \E r \in CallIn(Len(boxes)) : r.pc = "reviving" /\ r.box = 0 /\ r.op = call[c].op /\ Goes(c, r)
<1>1. PICK q : q = call[c]
  OBVIOUS
<1>2. q \in CallIn(Len(boxes)) /\ 0 \in 0 .. Len(boxes) /\ "reviving" \in Place
  BY <1>1 DEF Typed, Place
<1>3. PICK r : r = [q EXCEPT !.pc = "reviving", !.box = 0, !.retried = retried]
  OBVIOUS
<1>4. call' = [call EXCEPT ![c] = r]
  BY <1>1, <1>3, Zenon DEF Revive, Typed
<1>5. q \in [op : Op \cup {"none"}, box : 0 .. Len(boxes), retried : BOOLEAN, pc : Place] /\ q.op \in Op
  BY <1>1, <1>2 DEF CallIn
<1>6. /\ r \in [op : Op \cup {"none"}, box : 0 .. Len(boxes), retried : BOOLEAN, pc : Place]
      /\ r.pc = "reviving" /\ r.box = 0 /\ r.op = q.op
  BY <1>2, <1>3, <1>5, Zenon
<1>7. QED
  BY <1>1, <1>4, <1>5, <1>6 DEF Goes, CallIn

LEMMA GotoGoes ==
  ASSUME Typed, NEW c \in Caller, NEW op \in Op, NEW pc \in Place, NEW b \in 0 .. Len(boxes), Goto(c, op, pc, b)
  PROVE  \E r \in CallIn(Len(boxes)) : r.pc = pc /\ r.box = b /\ r.op = op /\ Goes(c, r)
<1>1. PICK q : q = call[c]
  OBVIOUS
<1>2. q \in CallIn(Len(boxes))
  BY <1>1 DEF Typed
<1>3. PICK r : r = [op |-> op, pc |-> pc, box |-> b, retried |-> q.retried]
  OBVIOUS
<1>4. r \in CallIn(Len(boxes)) /\ r.pc = pc /\ r.box = b /\ r.op = op
  BY <1>2, <1>3 DEF CallIn
<1>5. Goes(c, r)
  BY <1>1, <1>3 DEF Goes, Goto
<1>6. QED
  BY <1>4, <1>5

-----------------------------------------------------------------------------
(* One call at a time *)

\* What one call that is under way knows of the session's sandbox.
CallOk(r) ==
  /\ r.pc \in {"creating", "reviving"} =>
        handle = 0 /\ (r.box # 0 => boxes[r.box].status # "terminated" /\ r.box \notin asked)
  /\ r.pc = "creating" => ~created
  /\ r.pc = "reviving" => recreated
  /\ r.pc \in {"probing", "running"} => r.box = handle /\ handle # 0

\* A sandbox that is up has a keeper, or was given up.
Kept(b) == b = handle \/ b \in asked \/ \E c \in Caller : Building(c) /\ call[c].box = b

\* Where the writes are that were reported as done.
WritesOk ==
  /\ created <=> handle # 0 \/ recreated
  /\ ~created /\ ~closed => acked = {}
  /\ handle # 0 /\ ~recreated => acked \ boxes[handle].files \subseteq told \cup muted
  /\ ~EndedEarly => IF closed THEN swept => acked \subseteq host
               ELSE acked = {} \/ (handle # 0 /\ acked \subseteq boxes[handle].files)

\* The properties alone are not inductive: that a sandbox is terminated or written to by its
\* one keeper needs where the one call that is under way stands.
Alone ==
  /\ \A c, d \in Caller : call[c].pc # "idle" /\ call[d].pc # "idle" => c = d
  /\ \A c \in Caller : CallOk(call[c])
  /\ \A b \in DOMAIN boxes : Up(b) => Kept(b)
  /\ handle # 0 => boxes[handle].status # "terminated" /\ handle \notin asked
  /\ asked \subseteq DOMAIN boxes
  /\ closed => handle = 0 /\ AllIdle
  /\ WritesOk

SandboxInv == Typed /\ (~overlapped => Alone)

LEMMA OnlyOne ==
  ASSUME Typed, Typed', NEW c \in Caller, NEW r, Goes(c, r),
         \A d \in Caller \ {c} : call[d].pc = "idle", CallOk(r)',
         \A b \in DOMAIN boxes' :
            Up(b)' => b = handle' \/ b \in asked' \/ (r.pc \in {"creating", "reviving"} /\ r.box = b),
         handle' # 0 => boxes'[handle'].status # "terminated" /\ handle' \notin asked',
         asked' \subseteq DOMAIN boxes',
         closed' => handle' = 0 /\ r.pc = "idle",
         WritesOk'
  PROVE  Alone'
<1>1. call'[c] = r /\ \A d \in Caller \ {c} : call'[d] = call[d]
  BY DEF Goes, Typed
<1>2. \A d \in Caller : CallOk(call[d])'
  BY <1>1 DEF CallOk
<1>3. \A b \in DOMAIN boxes' : Up(b)' => Kept(b)'
  BY <1>1 DEF Kept, Building
<1>4. closed' => AllIdle'
  BY <1>1 DEF AllIdle
<1>5. \A d, e \in Caller : call'[d].pc # "idle" /\ call'[e].pc # "idle" => d = e
  BY <1>1
<1>6. QED
  BY <1>2, <1>3, <1>4, <1>5 DEF Alone

\* A call goes on or ends, and the sandboxes and the session are as they were.
LEMMA Stays ==
  ASSUME Typed, Alone, NEW c \in Caller, NEW r \in CallIn(Len(boxes)), Goes(c, r),
         \A d \in Caller \ {c} : call[d].pc = "idle",
         UNCHANGED <<session, boxes, host, closed, asked, acked, told, muted, swept>>, overlapped' \in BOOLEAN,
         CallOk(r), ~closed,
         Building(c) => ~Up(call[c].box) \/ (r.pc \in {"creating", "reviving"} /\ r.box = call[c].box)
  PROVE  Typed' /\ Alone'
<1>1. Typed'
  <2>1. Len(boxes) \in Nat
    BY DEF Typed
  <2>2. call' \in [Caller -> CallIn(Len(boxes))]
    BY <2>1, GoesTyped
  <2>3. QED
    BY <2>2 DEF Typed, session
<1>2. CallOk(r)'
  BY DEF CallOk, session
<1>3. \A b \in DOMAIN boxes' :
         Up(b)' => b = handle' \/ b \in asked' \/ (r.pc \in {"creating", "reviving"} /\ r.box = b)
  <2>1. ASSUME NEW b \in DOMAIN boxes, Up(b)
        PROVE  b = handle \/ b \in asked \/ (r.pc \in {"creating", "reviving"} /\ r.box = b)
    BY <2>1 DEF Alone, Kept, Building
  <2>2. QED
    BY <2>1 DEF Up, session
<1>4. /\ WritesOk' /\ asked' \subseteq DOMAIN boxes'
      /\ handle' # 0 => boxes'[handle'].status # "terminated" /\ handle' \notin asked'
  BY DEF Alone, WritesOk, EndedEarly, session
<1>5. QED
  BY <1>1, <1>2, <1>3, <1>4, OnlyOne

\* The sandbox of a call is gone: the session has none, and will tell.
LEMMA Revived ==
  ASSUME Typed, Alone, NEW c \in Caller, NEW retried \in BOOLEAN, Revive(c, retried),
         call[c].pc \in {"probing", "running", "reviving"}, call[c].box = 0 \/ ~Up(call[c].box),
         UNCHANGED <<created, boxes, host, closed, asked, history>>
  PROVE  Typed' /\ Alone'
<1>1. PICK r \in CallIn(Len(boxes)) : r.pc = "reviving" /\ r.box = 0 /\ Goes(c, r)
  BY ReviveGoes
<1>2. handle' = 0 /\ recreated' = TRUE /\ UNCHANGED <<acked, told, muted, swept, overlapped>>
  BY DEF Revive, history
<1>3. Typed'
  <2>1. Len(boxes) \in Nat /\ 0 \in 0 .. Len(boxes)
    BY DEF Typed
  <2>2. call' \in [Caller -> CallIn(Len(boxes))]
    BY <1>1, <2>1, GoesTyped
  <2>3. QED
    BY <1>2, <2>1, <2>2 DEF Typed
<1>4. \A d \in Caller \ {c} : call[d].pc = "idle"
  BY DEF Alone
<1>5. ~closed /\ created
  BY DEF Alone, AllIdle, CallOk, WritesOk
<1>6. CallOk(r)'
  BY <1>1, <1>2 DEF CallOk
<1>7. /\ \A b \in DOMAIN boxes : Up(b) => b \in asked
      /\ handle # 0 => handle \notin asked /\ ~Up(handle)
  BY DEF Alone, Kept, Building, CallOk, Up
<1>8. ~EndedEarly => acked = {}
  <2>1. CASE handle = 0
    BY <1>5, <2>1 DEF Alone, WritesOk
  <2>2. CASE handle # 0
    <3>1. handle \in DOMAIN boxes /\ boxes[handle] \in Box
      BY <2>2 DEF Typed
    <3>2. boxes[handle].status = "gone"
      BY <1>7, <2>2, <3>1 DEF Alone, Up, Box
    <3>3. QED
      BY <1>7, <2>2, <3>1, <3>2 DEF EndedEarly
  <2>3. QED
    BY <2>1, <2>2
<1>9. WritesOk'
  BY <1>2, <1>5, <1>8 DEF WritesOk, EndedEarly
<1>10. asked' \subseteq DOMAIN boxes' /\ UNCHANGED <<boxes, closed, asked>>
  BY DEF Alone
<1>11. QED
  BY <1>1, <1>2, <1>3, <1>4, <1>5, <1>6, <1>7, <1>9, <1>10, OnlyOne DEF Up

-----------------------------------------------------------------------------
(* The types *)

\* A step of one call, between sandboxes that are as they were.
LEMMA CallTyped ==
  ASSUME Typed, NEW c \in Caller, NEW r \in CallIn(Len(boxes)), Goes(c, r),
         Len(boxes') = Len(boxes), boxes' \in Seq(Box), handle' \in 0 .. Len(boxes),
         {created', recreated', closed', swept', overlapped'} \subseteq BOOLEAN,
         host' \subseteq Writes, acked' \subseteq Writes
  PROVE  Typed'
<1>1. Len(boxes) \in Nat
  BY DEF Typed
<1>2. call' \in [Caller -> CallIn(Len(boxes))]
  BY <1>1, GoesTyped
<1>3. QED
  BY <1>2 DEF Typed

LEMMA EnterGoes ==
  ASSUME Typed, NEW c \in Caller, NEW op \in Op, NEW b \in 0 .. Len(boxes), Enter(c, op, b)
  PROVE  \E r \in CallIn(Len(boxes)) :
            /\ Goes(c, r)
            /\ r.pc \in {"probing", "running"} => r.box = b /\ b # 0
            /\ r.pc = "reviving" => r.box = 0 /\ b = 0
            /\ r.pc # "creating"
<1>1. CASE End(c, "ok") \/ End(c, "noSandbox")
  BY <1>1, EndGoes DEF Idle
<1>2. ASSUME Goto(c, op, "probing", b), b # 0
      PROVE  \E r \in CallIn(Len(boxes)) : r.pc = "probing" /\ r.box = b /\ Goes(c, r)
  BY <1>2, GotoGoes DEF Place
<1>3. ASSUME Goto(c, op, "reviving", 0), b = 0
      PROVE  \E r \in CallIn(Len(boxes)) : r.pc = "reviving" /\ r.box = 0 /\ Goes(c, r)
  BY <1>3, GotoGoes DEF Place
<1>4. ASSUME Goto(c, op, "running", b), b # 0
      PROVE  \E r \in CallIn(Len(boxes)) : r.pc = "running" /\ r.box = b /\ Goes(c, r)
  BY <1>4, GotoGoes DEF Place
<1>5. CASE op = "warm"
  BY <1>1, <1>5 DEF Enter, Execs
<1>6. CASE op \in Execs
  BY <1>2, <1>3, <1>6 DEF Enter, Execs
<1>7. CASE op = "write"
  BY <1>1, <1>4, <1>7 DEF Enter, Execs
<1>8. QED
  BY <1>5, <1>6, <1>7 DEF Op, Execs

LEMMA BeginGoes ==
  ASSUME Typed, NEW c \in Caller, NEW op \in Op, Begin(c, op)
  PROVE  \E r \in CallIn(Len(boxes)) :
            /\ Goes(c, r)
            /\ r.pc \in {"probing", "running"} => r.box = handle /\ handle # 0
            /\ r.pc = "reviving" => r.box = 0 /\ handle = 0 /\ created
            /\ r.pc = "creating" => r.box = 0 /\ handle = 0 /\ ~created
<1>1. CASE created \/ handle # 0
  <2>1. Enter(c, op, handle) /\ handle \in 0 .. Len(boxes)
    BY <1>1 DEF Begin, Typed
  <2>2. QED
    BY <1>1, <2>1, EnterGoes
<1>2. CASE ~(created \/ handle # 0)
  <2>1. Goto(c, op, "creating", 0) /\ 0 \in 0 .. Len(boxes)
    BY <1>2 DEF Begin, Typed
  <2>2. QED
    BY <1>2, <2>1, GotoGoes DEF Place
<1>3. QED
  BY <1>1, <1>2

LEMMA FilesTyped ==
  ASSUME Typed, NEW b \in DOMAIN boxes, NEW q \in Box, boxes' = [boxes EXCEPT ![b] = q]
  PROVE  /\ boxes' \in Seq(Box) /\ Len(boxes') = Len(boxes) /\ DOMAIN boxes' = DOMAIN boxes
         /\ boxes'[b] = q /\ \A e \in DOMAIN boxes : e # b => boxes'[e] = boxes[e]
  BY DEF Typed

LEMMA StatusBox ==
  ASSUME Typed, NEW b \in DOMAIN boxes, NEW st \in {"up", "gone", "terminated"},
         boxes' = [boxes EXCEPT ![b].status = st]
  PROVE  /\ boxes' \in Seq(Box) /\ Len(boxes') = Len(boxes) /\ DOMAIN boxes' = DOMAIN boxes
         /\ boxes'[b].status = st /\ boxes'[b].files = boxes[b].files
         /\ \A e \in DOMAIN boxes : e # b => boxes'[e] = boxes[e]
<1>0. PICK o : o = boxes[b]
  OBVIOUS
<1>1. PICK q : q = [o EXCEPT !.status = st]
  OBVIOUS
<1>5. o \in Box
  BY <1>0 DEF Typed
<1>2. q \in Box /\ q.status = st /\ q.files = boxes[b].files
  BY <1>0, <1>1, <1>5, Zenon DEF Box
<1>3. boxes' = [boxes EXCEPT ![b] = q]
  BY <1>0, <1>1
<1>4. QED
  BY <1>2, <1>3, FilesTyped

LEMMA FilesBox ==
  ASSUME Typed, NEW b \in DOMAIN boxes, NEW F \in SUBSET Writes, boxes' = [boxes EXCEPT ![b].files = F]
  PROVE  /\ boxes' \in Seq(Box) /\ Len(boxes') = Len(boxes) /\ DOMAIN boxes' = DOMAIN boxes
         /\ boxes'[b].status = boxes[b].status /\ boxes'[b].files = F
         /\ \A e \in DOMAIN boxes : e # b => boxes'[e] = boxes[e]
<1>0. PICK o : o = boxes[b]
  OBVIOUS
<1>1. PICK q : q = [o EXCEPT !.files = F]
  OBVIOUS
<1>5. o \in Box
  BY <1>0 DEF Typed
<1>2. q \in Box /\ q.status = boxes[b].status /\ q.files = F
  BY <1>0, <1>1, <1>5, Zenon DEF Box
<1>3. boxes' = [boxes EXCEPT ![b] = q]
  BY <1>0, <1>1
<1>4. QED
  BY <1>2, <1>3, FilesTyped

LEMMA FreshTyped == ASSUME Typed PROVE Fresh \subseteq Writes
<1>0. IsFiniteSet(Writes)
  BY BoundsAssumption, FS_Interval DEF Writes
<1>1. IsFiniteSet(acked)
  BY <1>0, FS_Subset DEF Typed
<1>2. Cardinality(acked) \in Nat
  BY <1>1, FS_CardinalityType
<1>3. QED
  BY <1>2, BoundsAssumption DEF Fresh, Writes

\* A reported write: it is in the sandbox it was made in.
LEMMA WriteBox ==
  ASSUME Typed, NEW b \in DOMAIN boxes, Write(b)
  PROVE  /\ boxes' \in Seq(Box) /\ Len(boxes') = Len(boxes) /\ DOMAIN boxes' = DOMAIN boxes
         /\ boxes'[b].status = boxes[b].status
         /\ acked' \subseteq Writes
         /\ \A e \in DOMAIN boxes : e # b => boxes'[e] = boxes[e]
         /\ acked' \ boxes'[b].files \subseteq acked \ boxes[b].files
<1>1. PICK F : F = boxes[b].files \cup Fresh
  OBVIOUS
<1>0. boxes[b] \in Box
  BY DEF Typed
<1>2. F \in SUBSET Writes
  BY <1>0, <1>1, FreshTyped DEF Box
<1>3. boxes' = [boxes EXCEPT ![b].files = F]
  BY <1>1 DEF Write, Typed
<1>4. acked' = acked \cup Fresh
  BY DEF Write
<1>5. boxes'[b].files = F
  BY <1>2, <1>3, FilesBox
<1>6. acked' \subseteq Writes
  BY <1>4, FreshTyped DEF Typed
<1>7. QED
  BY <1>1, <1>2, <1>3, <1>4, <1>5, <1>6, FilesBox

LEMMA UpIsBox == ASSUME Typed, NEW b \in 0 .. Len(boxes), b # 0 PROVE b \in DOMAIN boxes
  BY DEF Typed

LEMMA CallBox == ASSUME Typed, NEW c \in Caller 
  PROVE  call[c].box \in 0 .. Len(boxes) /\ call[c].pc \in Place /\ (call[c].pc = "idle" \/ call[c].op \in Op)
  BY DEF Typed, CallIn

-----------------------------------------------------------------------------
(* The steps of a call *)

LEMMA BeginKeeps ==
  ASSUME Typed, NEW c \in Caller, NEW op \in Op, Begin(c, op)
  PROVE  Typed' /\ (Alone /\ AllIdle => Alone')
<1>1. PICK r \in CallIn(Len(boxes)) :
         /\ Goes(c, r)
         /\ r.pc \in {"probing", "running"} => r.box = handle /\ handle # 0
         /\ r.pc = "reviving" => r.box = 0 /\ handle = 0 /\ created
         /\ r.pc = "creating" => r.box = 0 /\ handle = 0 /\ ~created
  BY BeginGoes
<1>2. /\ UNCHANGED <<handle, recreated, boxes, host, closed, asked, acked, told, muted, swept>> /\ ~closed
      /\ overlapped' \in BOOLEAN /\ call[c].pc = "idle"
      /\ created' = created \/ (handle # 0 /\ created' = TRUE)
  BY DEF Begin, Typed
<1>3. Typed'
  BY <1>1, <1>2, CallTyped DEF Typed
<1>4. ASSUME Alone, AllIdle PROVE Alone'
  <2>1. created' = created
    BY <1>2, <1>4 DEF Alone, WritesOk, Typed
  <2>2. CallOk(r)
    BY <1>1, <1>4 DEF CallOk, Alone, WritesOk
  <2>3. QED
    BY <1>1, <1>2, <1>4, <2>1, <2>2, Stays DEF AllIdle, Building, session
<1>5. QED
  BY <1>3, <1>4

\* A call that ends leaves the sandboxes as they are.
LEMMA EndKeeps ==
  ASSUME Typed, NEW c \in Caller, NEW result, End(c, result), call[c].pc # "idle",
         Building(c) => ~Up(call[c].box),
         UNCHANGED <<session, boxes, host, closed, asked, history>>
  PROVE  Typed' /\ (Alone => Alone')
<1>1. Goes(c, Idle) /\ Idle \in CallIn(Len(boxes)) /\ UNCHANGED <<acked, told, muted, swept, overlapped>>
  BY EndGoes DEF history
<1>2. Typed'
  BY <1>1, CallTyped DEF Typed, session
<1>3. ASSUME Alone PROVE Alone'
  <2>1. CallOk(Idle)
    BY DEF CallOk, Idle
  <2>2. ~closed /\ \A d \in Caller \ {c} : call[d].pc = "idle"
    BY <1>3 DEF Alone, AllIdle
  <2>3. overlapped' \in BOOLEAN
    BY <1>1 DEF Typed
  <2>4. QED
    BY <1>1, <1>3, <2>1, <2>2, <2>3, Stays
<1>4. QED
  BY <1>2, <1>3

LEMMA ReviveKeeps ==
  ASSUME Typed, NEW c \in Caller, NEW retried \in BOOLEAN, Revive(c, retried),
         call[c].pc \in {"probing", "running", "reviving"}, call[c].box = 0 \/ ~Up(call[c].box),
         UNCHANGED <<created, boxes, host, closed, asked, history>>
  PROVE  Typed' /\ (Alone => Alone')
<1>1. PICK r \in CallIn(Len(boxes)) : Goes(c, r)
  BY ReviveGoes
<1>2. handle' = 0 /\ recreated' = TRUE /\ 0 \in 0 .. Len(boxes)
  BY DEF Revive, Typed
<1>3. Typed'
  BY <1>1, <1>2, CallTyped DEF Typed, history
<1>4. QED
  BY <1>3, Revived

LEMMA GoneKeeps ==
  ASSUME Typed, NEW c \in Caller, BootGone(c) \/ Gone(c) \/ Unreachable(c)
  PROVE  Typed' /\ (Alone => Alone')
<1>1. CASE BootGone(c)
  <2>1. CASE call[c].pc = "reviving" /\ Revive(c, TRUE)
    BY <1>1, <2>1, ReviveKeeps DEF BootGone
  <2>2. ASSUME NEW result, End(c, result), UNCHANGED <<handle, recreated>> PROVE Typed' /\ (Alone => Alone')
    BY <1>1, <2>2, EndKeeps DEF BootGone, Building, session
  <2>3. QED
    BY <1>1, <2>1, <2>2 DEF BootGone
<1>2. CASE Gone(c)
  <2>1. CASE Revive(c, TRUE)
    BY <1>2, <2>1, ReviveKeeps DEF Gone, Running
  <2>2. CASE End(c, "lost") /\ UNCHANGED <<handle, recreated>>
    BY <1>2, <2>2, EndKeeps DEF Gone, Running, Building, session
  <2>3. QED
    BY <1>2, <2>1, <2>2 DEF Gone
<1>3. CASE Unreachable(c)
  BY <1>3, EndKeeps DEF Unreachable, Building
<1>4. QED
  BY <1>1, <1>2, <1>3

LEMMA ProbedKeeps ==
  ASSUME Typed, NEW c \in Caller, Probed(c)
  PROVE  Typed' /\ (Alone => Alone')
<1>1. call[c].pc = "probing" /\ UNCHANGED <<created, boxes, host, closed, asked, history>>
  BY DEF Probed
<1>2. CASE ~Up(call[c].box) /\ Revive(c, FALSE)
  BY <1>1, <1>2, ReviveKeeps
<1>3. CASE End(c, "raised") /\ UNCHANGED <<handle, recreated>>
  BY <1>1, <1>3, EndKeeps DEF Building, session
<1>4. CASE handle # 0 /\ Goto(c, call[c].op, "running", handle) /\ UNCHANGED <<handle, recreated>>
  <2>1. PICK op : op = call[c].op
    OBVIOUS
  <2>2. op \in Op /\ handle \in 0 .. Len(boxes) /\ "running" \in Place
    BY <1>1, <2>1, CallBox DEF Typed, Place
  <2>3. PICK r \in CallIn(Len(boxes)) : r.pc = "running" /\ r.box = handle /\ Goes(c, r)
    BY <1>4, <2>1, <2>2, GotoGoes
  <2>4. Typed'
    BY <1>1, <1>4, <2>3, CallTyped DEF Typed, history
  <2>5. ASSUME Alone PROVE Alone'
    <3>1. CallOk(r)
      BY <1>4, <2>3 DEF CallOk
    <3>2. ~closed /\ \A d \in Caller \ {c} : call[d].pc = "idle"
      BY <1>1, <2>5 DEF Alone, AllIdle
    <3>3. overlapped' \in BOOLEAN /\ UNCHANGED <<session, boxes, host, closed, asked, acked, told, muted, swept>>
      BY <1>1, <1>4 DEF Typed, history, session
    <3>4. QED
      BY <1>1, <2>3, <2>5, <3>1, <3>2, <3>3, Stays DEF Building
  <2>6. QED
    BY <2>4, <2>5
<1>5. QED
  BY <1>2, <1>3, <1>4 DEF Probed

LEMMA MakeBoxKeeps == ASSUME Typed, NEW c \in Caller, MakeBox(c) PROVE Typed' /\ (Alone => Alone')
<1>1. PICK n : n = Len(boxes) + 1
  OBVIOUS
<1>2. PICK fresh : fresh = [status |-> "up", files |-> {}]
  OBVIOUS
<1>3. fresh \in Box /\ fresh.status = "up"
  BY <1>2 DEF Box
<1>4. boxes' = Append(boxes, fresh) /\ boxes \in Seq(Box)
  BY <1>2 DEF MakeBox, Typed
<1>5. /\ boxes' \in Seq(Box) /\ Len(boxes') = n /\ n \in Nat /\ n # 0 /\ n >= Len(boxes)
      /\ DOMAIN boxes' = DOMAIN boxes \cup {n} /\ boxes'[n] = fresh /\ n \notin DOMAIN boxes
      /\ \A e \in DOMAIN boxes : boxes'[e] = boxes[e]
  BY <1>1, <1>3, <1>4
<1>6. PICK q : q = call[c]
  OBVIOUS
<1>7. PICK r : r = [q EXCEPT !.box = n]
  OBVIOUS
<1>8. q \in CallIn(Len(boxes)) /\ n \in 0 .. n
  BY <1>5, <1>6 DEF Typed
<1>9. 0 .. Len(boxes) \subseteq 0 .. n
  BY <1>1, <1>4
<1>10. q \in CallIn(n)
  BY <1>8, <1>9 DEF CallIn
<1>11. r \in CallIn(n) /\ r.box = n /\ r.pc = q.pc
  BY <1>7, <1>8, <1>10, Zenon DEF CallIn
<1>12. Goes(c, r)
  BY <1>5, <1>6, <1>7 DEF MakeBox, Goes
<1>13. UNCHANGED <<created, handle, recreated, host, closed, asked, acked, told, muted, swept, overlapped>>
  BY DEF MakeBox, session, history
<1>14. Typed'
  <2>1. call' \in [Caller -> CallIn(n)]
    BY <1>5, <1>11, <1>12, GoesTyped
  <2>2. handle' \in 0 .. n
    BY <1>9, <1>13 DEF Typed
  <2>3. QED
    BY <1>5, <1>13, <2>1, <2>2 DEF Typed
<1>15. ASSUME Alone PROVE Alone'
  <2>1. /\ q.pc \in {"creating", "reviving"} /\ q.box = 0 /\ handle = 0 /\ CallOk(q) /\ ~closed
        /\ \A d \in Caller \ {c} : call[d].pc = "idle"
    BY <1>6, <1>15 DEF MakeBox, Building, Alone, AllIdle, CallOk
  <2>3. (\A b \in DOMAIN boxes : Up(b) => b \in asked) /\ asked \subseteq DOMAIN boxes
    BY <1>6, <1>15, <2>1 DEF Alone, Kept, Building, Up
  <2>4. (\A b \in DOMAIN boxes' : Up(b)' => b = n \/ b \in asked') /\ n \notin asked'
    BY <1>5, <1>13, <2>3 DEF Up
  <2>2. CallOk(r)'
    BY <1>3, <1>5, <1>11, <1>13, <2>1, <2>3, <2>4 DEF CallOk
  <2>5. WritesOk'
    BY <1>3, <1>5, <1>13, <1>15, <2>1 DEF Alone, WritesOk, EndedEarly
  <2>6. asked' \subseteq DOMAIN boxes' /\ handle' = 0 /\ ~closed'
    BY <1>5, <1>13, <2>1, <2>3
  <2>7. QED
    BY <1>5, <1>11, <1>12, <1>13, <1>14, <2>1, <2>2, <2>4, <2>5, <2>6, OnlyOne
<1>16. QED
  BY <1>14, <1>15

\* What became of a request to terminate: the sandbox ended, or it is one that was given up.
LEMMA TerminateBox ==
  ASSUME Typed, NEW b \in 0 .. Len(boxes), Terminate(b)
  PROVE  /\ boxes' \in Seq(Box) /\ Len(boxes') = Len(boxes) /\ DOMAIN boxes' = DOMAIN boxes
         /\ \A e \in DOMAIN boxes : e # b => boxes'[e] = boxes[e]
         /\ asked \subseteq asked' /\ asked' \subseteq asked \cup {b} /\ (asked' # asked => Up(b) /\ b \in DOMAIN boxes)
         /\ \A e \in DOMAIN boxes : Up(e)' => Up(e) /\ (e = b => e \in asked')
         /\ EndedEarly => EndedEarly'
<1>1. CASE ~Up(b)
  BY <1>1 DEF Terminate, Typed, EndedEarly, Up
<1>2. CASE Up(b)
  <2>1. b \in DOMAIN boxes /\ boxes[b].status = "up" /\ asked' = asked \cup {b}
    BY <1>2, UpIsBox DEF Up, Terminate
  <2>2. CASE UNCHANGED boxes
    BY <1>2, <2>1, <2>2 DEF Typed, EndedEarly, Up
  <2>3. CASE boxes' = [boxes EXCEPT ![b].status = "terminated"]
    <3>1. /\ boxes' \in Seq(Box) /\ Len(boxes') = Len(boxes) /\ DOMAIN boxes' = DOMAIN boxes
          /\ boxes'[b].status = "terminated"
          /\ \A e \in DOMAIN boxes : e # b => boxes'[e] = boxes[e]
      BY <2>1, <2>3, StatusBox
    <3>2. QED
      BY <1>2, <2>1, <3>1 DEF EndedEarly, Up
  <2>4. QED
    BY <1>2, <2>2, <2>3 DEF Terminate
<1>3. QED
  BY <1>1, <1>2

LEMMA SpawnFailsKeeps == ASSUME Typed, NEW c \in Caller, SpawnFails(c) PROVE Typed' /\ (Alone => Alone')
<1>1. PICK b : b = call[c].box
  OBVIOUS
<1>2. /\ b \in 0 .. Len(boxes) /\ (b # 0 => Up(b)) /\ call[c].pc \in {"creating", "reviving"}
      /\ Terminate(b)
      /\ \E result : End(c, result)
      /\ UNCHANGED <<created, handle, recreated, host, closed, acked, told, muted, swept, overlapped>>
  BY <1>1, CallBox DEF SpawnFails, Building, session, history
<1>4. /\ boxes' \in Seq(Box) /\ Len(boxes') = Len(boxes) /\ DOMAIN boxes' = DOMAIN boxes
      /\ asked \subseteq asked' /\ asked' \subseteq asked \cup {b} /\ (asked' # asked => b \in DOMAIN boxes)
      /\ \A e \in DOMAIN boxes : Up(e)' => Up(e) /\ (e = b => e \in asked')
      /\ EndedEarly => EndedEarly'
  BY <1>2, TerminateBox
<1>5. Goes(c, Idle) /\ Idle \in CallIn(Len(boxes))
  BY <1>2, EndGoes
<1>6. Typed'
  BY <1>2, <1>4, <1>5, CallTyped DEF Typed
<1>7. ASSUME Alone PROVE Alone'
  <2>1. handle = 0 /\ ~closed /\ \A d \in Caller \ {c} : call[d].pc = "idle"
    BY <1>2, <1>7 DEF Alone, AllIdle, CallOk
  <2>2. \A e \in DOMAIN boxes : e # b => (Up(e) => e \in asked)
    BY <1>1, <1>7, <2>1 DEF Alone, Kept, Building, Up
  <2>3. \A e \in DOMAIN boxes' : Up(e)' => e \in asked'
    BY <1>4, <2>2
  <2>4. asked' \subseteq DOMAIN boxes'
    BY <1>4, <1>7 DEF Alone
  <2>5. WritesOk'
    BY <1>2, <1>4, <1>7, <2>1 DEF Alone, WritesOk
  <2>6. CallOk(Idle)' /\ Idle.pc = "idle"
    BY DEF CallOk, Idle
  <2>7. QED
    BY <1>2, <1>5, <1>6, <2>1, <2>3, <2>4, <2>5, <2>6, OnlyOne
<1>8. QED
  BY <1>6, <1>7

LEMMA BootstrappedKeeps == ASSUME Typed, NEW c \in Caller, Bootstrapped(c) PROVE Typed' /\ (Alone => Alone')
<1>1. PICK b : b = call[c].box
  OBVIOUS
<1>2. /\ b \in 0 .. Len(boxes) /\ b # 0 /\ boxes[b].status = "up" /\ host \in SUBSET Writes
      /\ call[c].pc \in {"creating", "reviving"}
      /\ boxes' = [boxes EXCEPT ![b].files = host] /\ handle' = b
      /\ UNCHANGED <<recreated, host, closed, asked, acked, told, muted, swept, overlapped>>
  BY <1>1, CallBox DEF Bootstrapped, Building, Up, history, Typed
<1>3. b \in DOMAIN boxes
  BY <1>2, UpIsBox
<1>4. /\ boxes' \in Seq(Box) /\ Len(boxes') = Len(boxes) /\ DOMAIN boxes' = DOMAIN boxes
      /\ boxes'[b].status = "up" /\ boxes'[b].files = host
      /\ \A e \in DOMAIN boxes : e # b => boxes'[e] = boxes[e]
  BY <1>2, <1>3, FilesBox
<1>5. PICK r \in CallIn(Len(boxes)) :
         /\ Goes(c, r) /\ r.pc \notin {"creating", "reviving"} /\ (r.pc \in {"probing", "running"} => r.box = b)
         /\ created' = created \/ (call[c].pc = "creating" /\ created' = TRUE)
         /\ call[c].pc = "creating" => created' = TRUE
  <2>1. PICK op : op = call[c].op
    OBVIOUS
  <2>2. CASE call[c].pc = "creating" /\ created' = TRUE /\ Enter(c, op, b)
    <3>1. op \in Op
      BY <1>2, <2>1, CallBox
    <3>2. QED
      BY <1>2, <2>2, <3>1, EnterGoes
  <2>3. CASE call[c].pc = "reviving" /\ created' = created /\ Goto(c, op, "running", b)
    BY <1>2, <2>1, <2>3, CallBox, GotoGoes DEF Place
  <2>4. QED
    BY <1>1, <2>1, <2>2, <2>3 DEF Bootstrapped
<1>6. Typed'
  BY <1>2, <1>4, <1>5, CallTyped DEF Typed
<1>7. ASSUME Alone PROVE Alone'
  <2>1. handle = 0 /\ ~closed /\ CallOk(call[c]) /\ \A d \in Caller \ {c} : call[d].pc = "idle"
    BY <1>2, <1>7 DEF Alone, AllIdle, CallOk
  <2>2. /\ \A e \in DOMAIN boxes : e # b => (Up(e) => e \in asked)
        /\ asked \subseteq DOMAIN boxes /\ b \notin asked
    BY <1>1, <1>2, <1>7, <2>1 DEF Alone, Kept, Building, Up, CallOk
  <2>3. \A e \in DOMAIN boxes' : Up(e)' => e = handle' \/ e \in asked'
    BY <1>2, <1>4, <2>2 DEF Up
  <2>4. CallOk(r)'
    BY <1>2, <1>5 DEF CallOk
  <2>5. EndedEarly' <=> EndedEarly
    BY <1>2, <1>3, <1>4 DEF EndedEarly
  <2>6. created' = TRUE
    BY <1>2, <1>5, <1>7, <2>1 DEF CallOk, Alone, WritesOk
  <2>7. ~recreated => acked = {}
    BY <1>2, <1>7, <2>1 DEF CallOk, Alone, WritesOk
  <2>8. ~EndedEarly => acked = {}
    BY <1>7, <2>1 DEF Alone, WritesOk
  <2>9. WritesOk'
    BY <1>2, <2>1, <2>5, <2>6, <2>7, <2>8 DEF WritesOk
  <2>10. QED
    BY <1>2, <1>4, <1>5, <1>6, <2>1, <2>2, <2>3, <2>4, <2>9, OnlyOne
<1>8. QED
  BY <1>6, <1>7

\* The Workspace of the session's sandbox gets what is reported, and no less is told than before.
LEMMA DoneKeeps ==
  ASSUME Typed, NEW c \in Caller, Running(c), Up(call[c].box), End(c, "ok"),
         boxes' \in Seq(Box), Len(boxes') = Len(boxes), DOMAIN boxes' = DOMAIN boxes, acked' \subseteq Writes,
         \A e \in DOMAIN boxes : boxes'[e].status = boxes[e].status,
         acked' \ boxes'[call[c].box].files \subseteq acked \ boxes[call[c].box].files,
         told \cup muted \subseteq told' \cup muted',
         recreated' = recreated \/ (~recreated' /\ acked' \ boxes'[call[c].box].files \subseteq told' \cup muted'),
         recreated' \in BOOLEAN,
         UNCHANGED <<created, handle, host, closed, asked, swept, overlapped>>
  PROVE  Typed' /\ (Alone => Alone')
<1>1. Goes(c, Idle) /\ Idle \in CallIn(Len(boxes))
  BY EndGoes
<1>2. Typed'
  BY <1>1, CallTyped DEF Typed
<1>3. ASSUME Alone PROVE Alone'
  <2>1. call[c].box = handle /\ handle # 0 /\ ~closed /\ \A d \in Caller \ {c} : call[d].pc = "idle"
    BY <1>3 DEF Alone, AllIdle, CallOk, Running
  <2>2. handle \in DOMAIN boxes
    BY <2>1, UpIsBox DEF Typed
  <2>3. \A b \in DOMAIN boxes' : Up(b)' => b = handle' \/ b \in asked'
    BY <1>3, <2>1 DEF Alone, Kept, Building, Running, Up
  <2>4. EndedEarly' <=> EndedEarly
    BY DEF EndedEarly
  <2>5. created
    BY <1>3, <2>1 DEF Alone, WritesOk
  <2>6. ~recreated' => acked' \ boxes'[handle].files \subseteq told' \cup muted'
    BY <1>3, <2>1 DEF Alone, WritesOk
  <2>7. ~EndedEarly => acked' \subseteq boxes'[handle].files
    BY <1>3, <2>1 DEF Alone, WritesOk
  <2>8. WritesOk'
    BY <2>1, <2>4, <2>5, <2>6, <2>7 DEF WritesOk
  <2>9. CallOk(Idle)' /\ Idle.pc = "idle" /\ boxes'[handle'].status # "terminated"
        /\ handle \notin asked /\ asked' \subseteq DOMAIN boxes'
    BY <1>3, <2>1, <2>2 DEF CallOk, Idle, Alone
  <2>10. QED
    BY <1>1, <1>2, <2>1, <2>3, <2>8, <2>9, OnlyOne
<1>4. QED
  BY <1>2, <1>3

LEMMA ExecKeeps ==
  ASSUME Typed, NEW c \in Caller, ExecDone(c) \/ WriteDone(c)
  PROVE  Typed' /\ (Alone => Alone')
<1>1. PICK b : b = call[c].box
  OBVIOUS
<1>2. Running(c) /\ Up(b) /\ End(c, "ok") /\ UNCHANGED <<created, handle, host, closed, asked, swept, overlapped>>
  BY <1>1 DEF ExecDone, WriteDone, session
<1>3. b \in DOMAIN boxes
  BY <1>1, <1>2, CallBox, UpIsBox DEF Up
<1>4. ASSUME Write(b)
      PROVE  /\ boxes' \in Seq(Box) /\ Len(boxes') = Len(boxes) /\ DOMAIN boxes' = DOMAIN boxes
             /\ acked' \subseteq Writes
             /\ \A e \in DOMAIN boxes : boxes'[e].status = boxes[e].status
             /\ acked' \ boxes'[b].files \subseteq acked \ boxes[b].files
  BY <1>3, <1>4, WriteBox
<1>5. CASE WriteDone(c)
  <2>1. Write(b) /\ UNCHANGED <<told, muted, recreated>> /\ recreated' \in BOOLEAN
    BY <1>1, <1>5 DEF WriteDone, session, Typed
  <2>2. QED
    BY <1>1, <1>2, <1>4, <2>1, DoneKeeps
<1>6. CASE ExecDone(c)
  <2>1. PICK lost : lost = IF recreated THEN acked \ boxes[b].files ELSE {}
    OBVIOUS
  <2>2. ~recreated' /\ recreated' \in BOOLEAN
    BY <1>6 DEF ExecDone
  <2>3. CASE Write(b) /\ told' = told \cup lost /\ UNCHANGED muted
    <3>1. recreated' = recreated \/ acked' \ boxes'[b].files \subseteq told' \cup muted'
      BY <1>4, <2>1, <2>2, <2>3 DEF Typed
    <3>2. QED
      BY <1>1, <1>2, <1>4, <2>2, <2>3, <3>1, DoneKeeps
  <2>4. CASE muted' = muted \cup lost /\ UNCHANGED <<acked, boxes, told>>
    <3>1. recreated' = recreated \/ acked' \ boxes'[b].files \subseteq told' \cup muted'
      BY <2>1, <2>2, <2>4 DEF Typed
    <3>2. boxes' \in Seq(Box) /\ acked' \subseteq Writes
      BY <2>4 DEF Typed
    <3>3. QED
      BY <1>1, <1>2, <2>2, <2>4, <3>1, <3>2, DoneKeeps
  <2>5. QED
    BY <1>1, <1>6, <2>1, <2>3, <2>4 DEF ExecDone
<1>7. QED
  BY <1>5, <1>6

-----------------------------------------------------------------------------
(* The session around the calls *)

LEMMA ExpireKeeps ==
  ASSUME Typed, NEW b \in DOMAIN boxes, Expire(b)
  PROVE  Typed' /\ (Alone => Alone')
<1>1. UNCHANGED <<created, handle, recreated, call, host, closed, asked, acked, told, muted, swept, overlapped>>
  BY DEF Expire, session, history
<1>2. /\ boxes' \in Seq(Box) /\ Len(boxes') = Len(boxes) /\ DOMAIN boxes' = DOMAIN boxes
      /\ boxes'[b].status = "gone" /\ boxes'[b].files = boxes[b].files
      /\ \A e \in DOMAIN boxes : e # b => boxes'[e] = boxes[e]
  BY StatusBox DEF Expire
<1>3. Typed'
  BY <1>1, <1>2 DEF Typed
<1>4. ASSUME Alone PROVE Alone'
  <2>1. \A e \in DOMAIN boxes : Up(e)' => Up(e)
    BY <1>2 DEF Up
  <2>2. \A e \in 0 .. Len(boxes) : e # 0 /\ boxes[e].status # "terminated" => boxes'[e].status # "terminated"
    BY <1>2, UpIsBox
  <2>3. \A d \in Caller : CallOk(call[d])'
    BY <1>1, <1>4, <2>2, CallBox DEF Alone, CallOk
  <2>4. /\ handle' # 0 => boxes'[handle'].status # "terminated" /\ handle' \notin asked'
        /\ asked' \subseteq DOMAIN boxes'
    BY <1>1, <1>2, <1>4, <2>2 DEF Alone, Typed
  <2>5. EndedEarly => EndedEarly'
    BY <1>1, <1>2 DEF EndedEarly
  <2>6. handle # 0 => boxes'[handle].files = boxes[handle].files
    BY <1>2, UpIsBox DEF Typed
  <2>7. WritesOk'
    BY <1>1, <1>4, <2>5, <2>6 DEF Alone, WritesOk
  <2>8. \A e \in DOMAIN boxes' : Up(e)' => Kept(e)'
    BY <1>1, <1>2, <1>4, <2>1 DEF Alone, Kept, Building
  <2>9. QED
    BY <1>1, <1>4, <2>3, <2>4, <2>7, <2>8 DEF Alone, AllIdle
<1>5. QED
  BY <1>3, <1>4

LEMMA SweptTyped ==
  ASSUME Typed, NEW works \in BOOLEAN, Export(works)
  PROVE  host' \subseteq Writes /\ host \subseteq host' /\ (works /\ Up(handle) => boxes[handle].files \subseteq host')
<1>1. CASE works /\ Up(handle)
  <2>1. handle \in DOMAIN boxes
    BY <1>1, UpIsBox DEF Up, Typed
  <2>2. boxes[handle] \in Box
    BY <2>1 DEF Typed
  <2>3. boxes[handle].files \subseteq Writes
    BY <2>2 DEF Box
  <2>4. QED
    BY <1>1, <2>3 DEF Export, Typed
<1>2. CASE ~(works /\ Up(handle))
  BY <1>2 DEF Export, Typed
<1>3. QED
  BY <1>1, <1>2

LEMMA ShipKeeps == ASSUME Typed, NEW works \in BOOLEAN, Ship(works) PROVE Typed' /\ (Alone => Alone')
<1>1. UNCHANGED <<created, handle, recreated, call, boxes, closed, asked, acked, told, muted, swept, overlapped>> /\ ~closed
  BY DEF Ship, session, history
<1>2. host' \subseteq Writes
  BY SweptTyped DEF Ship
<1>3. QED
  BY <1>1, <1>2 DEF Typed, Alone, CallOk, Kept, Building, Up, AllIdle, WritesOk, EndedEarly

LEMMA CloseKeeps == ASSUME Typed, NEW works \in BOOLEAN, Close(works) PROVE Typed' /\ (Alone => Alone')
<1>1. /\ UNCHANGED <<call, acked, told, muted, overlapped>> /\ closed' = TRUE /\ ~closed /\ AllIdle
      /\ created' = FALSE /\ handle' = 0 /\ recreated' = FALSE /\ swept' = works
      /\ Terminate(handle)
  BY DEF Close
<1>2. /\ boxes' \in Seq(Box) /\ Len(boxes') = Len(boxes) /\ DOMAIN boxes' = DOMAIN boxes
      /\ asked \subseteq asked' /\ asked' \subseteq asked \cup {handle} /\ (asked' # asked => handle \in DOMAIN boxes)
      /\ \A e \in DOMAIN boxes : Up(e)' => Up(e) /\ (e = handle => e \in asked')
      /\ EndedEarly => EndedEarly'
  <2>1. handle \in 0 .. Len(boxes)
    BY DEF Typed
  <2>2. QED
    BY <1>1, <2>1, TerminateBox
<1>3. host' \subseteq Writes /\ host \subseteq host' /\ (works /\ Up(handle) => boxes[handle].files \subseteq host')
  BY SweptTyped DEF Close
<1>4. Typed'
  <2>1. 0 \in 0 .. Len(boxes)
    BY DEF Typed
  <2>2. QED
    BY <1>1, <1>2, <1>3, <2>1 DEF Typed
<1>5. ASSUME Alone PROVE Alone'
  <2>1. \A c \in Caller : CallOk(call[c])' /\ ~Building(c)
    BY <1>1 DEF AllIdle, CallOk, Building
  <2>2. (\A b \in DOMAIN boxes' : Up(b)' => b \in asked') /\ asked' \subseteq DOMAIN boxes'
    BY <1>2, <1>5, <2>1 DEF Alone, Kept
  <2>3. ~EndedEarly /\ handle # 0 => Up(handle)
    <3>1. handle # 0 => handle \in DOMAIN boxes /\ boxes[handle] \in Box
      BY UpIsBox DEF Typed
    <3>2. QED
      BY <1>5, <3>1 DEF Alone, EndedEarly, Up, Box
  <2>4. ~EndedEarly => acked = {} \/ (handle # 0 /\ acked \subseteq boxes[handle].files)
    BY <1>1, <1>5 DEF Alone, WritesOk
  <2>5. ~EndedEarly' => (swept' => acked' \subseteq host')
    BY <1>1, <1>2, <1>3, <2>3, <2>4
  <2>6. WritesOk'
    BY <1>1, <2>5 DEF WritesOk
  <2>7. QED
    BY <1>1, <1>5, <2>1, <2>2, <2>6 DEF Alone, AllIdle, Kept
<1>6. QED
  BY <1>4, <1>5

\* The inductive invariant: the types, and while no two calls have overlapped where the one
\* call that is under way stands.
THEOREM SandboxKeepers == Spec => []SandboxInv
<1>1. Init => SandboxInv
  <2>1. SUFFICES ASSUME Init PROVE SandboxInv
    OBVIOUS
  <2>2. Len(boxes) = 0 /\ boxes \in Seq(Box) /\ DOMAIN boxes = {} /\ 0 \in 0 .. 0
    BY <2>1 DEF Init
  <2>3. Idle \in CallIn(0) /\ Idle.pc = "idle"
    BY <2>2 DEF Idle, CallIn, Place
  <2>4. Typed
    BY <2>1, <2>2, <2>3 DEF Init, Typed
  <2>5. \A c \in Caller : call[c] = Idle
    BY <2>1 DEF Init
  <2>6. WritesOk
    BY <2>1 DEF Init, WritesOk
  <2>7. Alone
    BY <2>1, <2>2, <2>3, <2>5, <2>6 DEF Init, Alone, CallOk, AllIdle
  <2>8. QED
    BY <2>4, <2>7 DEF SandboxInv
<1>2. SandboxInv /\ [Next]_vars => SandboxInv'
  <2>1. SUFFICES ASSUME SandboxInv, [Next]_vars PROVE SandboxInv'
    OBVIOUS
  <2>2. Typed /\ (~overlapped => Alone)
    BY <2>1 DEF SandboxInv
  <2>3. ASSUME NEW c \in Caller, Step(c) \/ Unreachable(c) PROVE SandboxInv'
    <3>1. Typed' /\ (Alone => Alone')
      BY <2>2, <2>3, MakeBoxKeeps, BootstrappedKeeps, SpawnFailsKeeps, GoneKeeps, ProbedKeeps, ExecKeeps DEF Step
    <3>2. overlapped' = overlapped
      BY <2>3 DEF Step, Unreachable, MakeBox, Bootstrapped, SpawnFails, BootGone, Probed, ExecDone, WriteDone, Gone,
                  history
    <3>3. QED
      BY <2>2, <3>1, <3>2 DEF SandboxInv
  <2>4. ASSUME NEW c \in Caller, NEW op \in Op, Begin(c, op) PROVE SandboxInv'
    <3>1. ~overlapped' => ~overlapped /\ AllIdle
      BY <2>4 DEF Begin
    <3>2. QED
      BY <2>2, <2>4, <3>1, BeginKeeps DEF SandboxInv
  <2>5. ASSUME NEW b \in DOMAIN boxes, Expire(b) PROVE SandboxInv'
    BY <2>2, <2>5, ExpireKeeps DEF SandboxInv, Expire, history
  <2>6. ASSUME NEW works \in BOOLEAN, Ship(works) \/ Close(works) PROVE SandboxInv'
    BY <2>2, <2>6, ShipKeeps, CloseKeeps DEF SandboxInv, Ship, Close, history
  <2>7. CASE UNCHANGED vars
    BY <2>2, <2>7 DEF SandboxInv, vars, session, history, Typed, Alone, CallOk, Kept, Building, Up, AllIdle,
                      WritesOk, EndedEarly
  <2>8. QED
    BY <2>1, <2>3, <2>4, <2>5, <2>6, <2>7 DEF Next
<1>3. QED
  BY <1>1, <1>2, PTL DEF Spec

\* For any callers and sandboxes, however they expire or fail to start: while calls come one
\* after the other, each remote sandbox that is up is the session's, or is being built by the
\* call that will ask for its end if it fails, or the service was asked to end it and did not
\* (sandbox/modal_backend.py, _spawn_and_bootstrap and destroy).
THEOREM SandboxNoLeak == Spec => []NoLeak
<1>1. SandboxInv => NoLeak
  BY DEF SandboxInv, Alone, Kept, NoLeak
<1>2. QED
  BY <1>1, SandboxKeepers, PTL

\* For any writes: what was reported as done is in the session's sandbox, declared possibly
\* lost or about to be, and after a session without a loss it is on the host
\* (sandbox/modal_backend.py, exec and its restore note; tools/bash.py, close_executor).
THEOREM SandboxWrites == Spec => []WritesAreAccounted
<1>1. SandboxInv => WritesAreAccounted
  BY DEF SandboxInv, Alone, WritesOk, EndedEarly, WritesAreAccounted, LossIsAccounted, CloseKeepsWrites
<1>2. QED
  BY <1>1, SandboxKeepers, PTL
=============================================================================
