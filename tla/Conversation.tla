--------------------------- MODULE Conversation ---------------------------
(***************************************************************************)
(* The conversation of one decode session and its durable copy: the turn   *)
(* handler's message_history and persisted-count cursor (agent/loop.py),   *)
(* the append-only session log and its replay (context/session_log.py),    *)
(* the two compaction tiers (context/compaction.py), /compact and /clear,  *)
(* and a crash or exit followed by `decode --resume` (tui/app.py).         *)
(*                                                                         *)
(* A leg is one action: history changes only when the leg ends, and until  *)
(* then no command may touch it.  What the model and the tools do in a leg *)
(* is the environment's choice among Answers, Pauses and Crashes.  A       *)
(* message is abstracted to its role and the identity of its parts, which  *)
(* are numbered as they are created; its size, to the choice of where the  *)
(* raw budget cut of split_tail falls.                                     *)
(***************************************************************************)
EXTENDS Naturals, SequencesExt

CONSTANTS MaxParts,   \* bound: parts created
          MaxResumes  \* bound: restarts of the program

ASSUME BoundsAssumption == MaxParts \in Nat \ {0} /\ MaxResumes \in Nat

VARIABLES
  history,    \* AgentTurnHandler.message_history
  persisted,  \* AgentTurnHandler._persisted_count
  disk,       \* the lines of this session's log that replay can read, after its header
  torn,       \* that log ends in half a line
  at,         \* where the handler is suspended
  seed,       \* the history this session was resumed with
  parts,      \* parts created so far (bounds the model, see MaxParts)
  resumes,    \* restarts so far (bounds the model, see MaxResumes)
  \* history variables
  failed,     \* the kinds of log line a write of which has failed; bound: once each;
              \* and "glued" when a line was lost behind half of another
  drifted,    \* a leg shortened the history under a cursor it could not clamp
  forgot,     \* a session was resumed without what it had been resumed with itself
  steered     \* steering was appended in front of a deferred resume leg

log == <<disk, torn, failed>>
vars == <<history, persisted, log, at, seed, parts, resumes, drifted, forgot, steered>>

----------------------------------------------------------------------------
(* Messages.  A ModelRequest carries prompts and tool returns, a           *)
(* ModelResponse text or a tool call.  A return has the number of its      *)
(* call, and is full until microcompaction blanks its body.                *)

Kind == {"prompt", "summary", "text", "call", "return"}

Part == [kind : Kind, id : 1..MaxParts, full : BOOLEAN]

Message == [from : {"user", "model"}, parts : SUBSET Part]

NewPart(kind, n) == [kind |-> kind, id |-> n, full |-> TRUE]

Request(kind, n) == [from |-> "user", parts |-> {NewPart(kind, n)}]

Response(kind, n) == [from |-> "model", parts |-> {NewPart(kind, n)}]

PartsOf(h) == UNION {m.parts : m \in Range(h)}

Returns(m) == {p \in m.parts : p.kind = "return"}

CallIds(m) == {p.id : p \in {q \in m.parts : q.kind = "call"}}

(* pydantic-ai merges adjacent messages of one role in the history it is   *)
(* given, "notably the two ModelRequests a full compaction leaves".        *)
Join(h, m) ==
  IF h # <<>> /\ Last(h).from = m.from
  THEN Append(Front(h), [from |-> m.from, parts |-> Last(h).parts \cup m.parts])
  ELSE Append(h, m)

Coalesce(h) ==
  LET upTo[n \in 0..Len(h)] == IF n = 0 THEN <<>> ELSE Join(upTo[n - 1], h[n])
  IN  upTo[Len(h)]

----------------------------------------------------------------------------
(* The session log *)

LineType == {"messages", "compaction", "clear"}

(* load: a checkpoint or a marker restarts the history, a batch extends it. *)
Read(h, line) == IF line.type = "messages" THEN h \o line.body ELSE line.body

Load(start, lines) ==
  LET upTo[n \in 0..Len(lines)] == IF n = 0 THEN start ELSE Read(upTo[n - 1], lines[n])
  IN  upTo[Len(lines)]

(* append_turn, append_compaction, append_clear: one line ...              *)
Wrote(type, body) ==
  /\ ~torn /\ UNCHANGED <<torn, failed>>
  /\ disk' = Append(disk, [type |-> type, body |-> body])

(* ... which is malformed, and lost, behind half a line ...                *)
WroteBehindHalf ==
  /\ torn /\ torn' = FALSE
  /\ failed' = failed \cup {"glued"}
  /\ UNCHANGED disk

(* ... or an OSError, which may leave half a line (bound: the first does). *)
WriteFailed(type) ==
  /\ type \notin failed
  /\ failed' = failed \cup {type}
  /\ torn' \in {torn, torn \/ failed = {}}
  /\ UNCHANGED disk

Missed(type) == WroteBehindHalf \/ WriteFailed(type)

(* Fault: the cursor is not moved past what was just written. *)
PersistKeepsCursor(h, cursor) ==
  /\ persisted' = cursor
  /\ IF cursor < Len(h)
     THEN Wrote("messages", SubSeq(h, cursor + 1, Len(h))) \/ Missed("messages")
     ELSE UNCHANGED log

(* _persist_turn: what lies beyond the cursor becomes one line; when the   *)
(* write fails the cursor stays.                                           *)
Persist(h, cursor) ==
  LET new == SubSeq(h, cursor + 1, Len(h)) IN
  \/ new = <<>> /\ persisted' = cursor /\ UNCHANGED log
  \/ new # <<>> /\ persisted' = Len(h) /\ (Wrote("messages", new) \/ WroteBehindHalf)
  \/ new # <<>> /\ persisted' = cursor /\ WriteFailed("messages")

----------------------------------------------------------------------------
(* Compaction *)

(* A cut may fall on a response, or on a request that returns nothing. *)
IsBoundary(m) == m.from = "model" \/ Returns(m) = {}

(* split_tail: the raw budget cut, snapped back to a boundary; 0 keeps     *)
(* everything and Len(h) only the summary.                                 *)
SplitTail(h, cut) ==
  IF cut = Len(h) THEN cut
  ELSE Max({0} \cup {i \in 1..cut : IsBoundary(h[i + 1])})

(* microcompact: blank the tool returns in front of the kept tail. *)
Blank(m) == [m EXCEPT !.parts = {[p EXCEPT !.full = @ /\ p.kind # "return"] : p \in @}]

Microcompacted(h, split) ==
  [i \in DOMAIN h |-> IF i <= split THEN Blank(h[i]) ELSE h[i]]

(* compact(), when there is something to compact and the summarizer        *)
(* answers: the checkpoint is written, or fails, and the history and the   *)
(* cursor are replaced either way.                                         *)
Compact(cut) ==
  LET split == SplitTail(history, cut) IN
  /\ split # 0 /\ parts < MaxParts
  /\ parts' = parts + 1
  /\ history' = <<Request("summary", parts')>> \o SubSeq(history, split + 1, Len(history))
  /\ persisted' = Len(history')
  /\ Wrote("compaction", history') \/ Missed("compaction")

----------------------------------------------------------------------------
(* Legs *)

(* What a leg may add after the request it sends, numbering parts from n:  *)
(* an answer, perhaps after a tool round; a gated call that pauses it; or  *)
(* what was there when the model or a tool raised.                         *)
Answers(n) == {<<Response("text", n)>>,
               <<Response("call", n), Request("return", n), Response("text", n + 1)>>}

Pauses(n) == {<<Response("call", n)>>}

Crashes(n) == {<<>>,
               <<Response("call", n)>>,
               <<Response("call", n), Request("return", n)>>}

Init ==
  /\ history = <<>> /\ persisted = 0 /\ disk = <<>> /\ at = "idle" /\ seed = <<>>
  /\ parts = 0 /\ resumes = 0 /\ torn = FALSE
  /\ failed = {} /\ drifted = FALSE /\ forgot = FALSE /\ steered = FALSE

(* _run_turn's finally: history becomes what the run holds, whether it     *)
(* returned or raised.                                                     *)
Take(prior, new) ==
  /\ history' = Coalesce(prior) \o new
  /\ parts' = Max({parts} \cup {p.id : p \in PartsOf(history')})
  /\ parts' <= MaxParts

(* Fault: the cursor of a history that coalesced is not clamped. *)
ClampNothing(prior) == persisted

(* The cursor is clamped to the messages that precede the leg's new ones. *)
Clamp(prior) == Min({persisted, Len(Coalesce(prior))})

(* The run shortened what precedes the leg's messages, and the clamp does  *)
(* not apply (the leg raised) or cannot tell which message was unwritten.  *)
Drifts(prior, cursorReliable) ==
  drifted' = (drifted \/ (Len(Coalesce(prior)) < Len(prior)
                          /\ (~cursorReliable \/ persisted < Len(prior))))

(* The leg returns text: persisted before the compaction cascade runs. *)
LegAnswers(prior, new) ==
  /\ Take(prior, new) /\ Drifts(prior, TRUE)
  /\ Persist(history', Clamp(prior))
  /\ at' = "stopping"

(* The leg pauses on a gated call: nothing is written yet. *)
LegPauses(prior, new) ==
  /\ Take(prior, new) /\ Drifts(prior, TRUE)
  /\ persisted' = Clamp(prior) /\ UNCHANGED log
  /\ at' = "paused"

(* The leg raises through __call__, whose finally persists. *)
LegCrashes(prior, new) ==
  /\ Take(prior, new) /\ Drifts(prior, FALSE)
  /\ Persist(history', persisted)
  /\ at' = "idle"

(* Fault: dangling calls are left as they are. *)
HealNothing(h) == h

(* _heal_dangling_tool_calls: a return for each call of a last response. *)
Heal(h) ==
  IF h = <<>> \/ CallIds(Last(h)) = {} THEN h
  ELSE Append(h, [from |-> "user",
                  parts |-> {NewPart("return", c) : c \in CallIds(Last(h))}])

(* A prompt leg: the first of a turn, or one for drained follow-ups. *)
PromptLeg ==
  LET prior == Heal(history)
      leg(tail) == <<Request("prompt", parts + 1)>> \o tail
  IN
  /\ at \in {"idle", "stopped"}
  /\ \/ \E tail \in Answers(parts + 2) : LegAnswers(prior, leg(tail))
     \/ \E tail \in Pauses(parts + 2)  : LegPauses(prior, leg(tail))
     \/ \E tail \in Crashes(parts + 2) : LegCrashes(prior, leg(tail))
  /\ UNCHANGED <<seed, resumes, forgot, steered>>

(* A resume leg: the calls the last leg paused on are returned, or one     *)
(* raises before any of them is.  Steering drained at the boundary has     *)
(* been appended to the history.                                           *)
ResumeLeg ==
  /\ at = "paused"
  /\ \E steer \in BOOLEAN :
       LET prior == IF steer THEN Append(history, Request("prompt", parts + 1))
                             ELSE history
           next == IF steer THEN parts + 2 ELSE parts + 1
           leg(tail) == <<[from |-> "user", parts |-> {NewPart("return", c) :
                                                       c \in CallIds(Last(history))}]>> \o tail
       IN
       /\ \/ \E tail \in Answers(next) : LegAnswers(prior, leg(tail))
          \/ \E tail \in Pauses(next)  : LegPauses(prior, leg(tail))
          \/ \E tail \in Crashes(next) : LegCrashes(prior, leg(tail))
          \/ LegCrashes(prior, <<>>)
       /\ steered' = (steered \/ steer)
  /\ UNCHANGED <<seed, resumes, forgot>>

(* Esc while a leg is paused: aclose() runs the finally. *)
Abort ==
  /\ at = "paused" /\ at' = "idle"
  /\ Persist(history, persisted)
  /\ UNCHANGED <<history, seed, parts, resumes, drifted, forgot, steered>>

(* _maybe_auto_compact: no tier fires or the one that does finds nothing,  *)
(* or full compaction, or microcompaction, in memory only.                 *)
Cascade ==
  /\ at = "stopping" /\ at' = "stopped"
  /\ \/ UNCHANGED <<history, persisted, log, parts>>
     \/ \E cut \in 0..Len(history) : Compact(cut)
     \/ \E cut \in 0..Len(history) :
          /\ history' = Microcompacted(history, SplitTail(history, cut))
          /\ UNCHANGED <<persisted, log, parts>>
  /\ UNCHANGED <<seed, resumes, drifted, forgot, steered>>

(* WOULD_STOP without a follow-up, or with an abort: the finally persists  *)
(* what the write at the boundary may have left.                           *)
EndTurn ==
  /\ at = "stopped" /\ at' = "idle"
  /\ Persist(history, persisted)
  /\ UNCHANGED <<history, seed, parts, resumes, drifted, forgot, steered>>

(* /compact *)
CompactCommand ==
  /\ at = "idle"
  /\ \E cut \in 0..Len(history) : Compact(cut)
  /\ UNCHANGED <<at, seed, resumes, drifted, forgot, steered>>

(* /clear: the marker first, then the history and the cursor. *)
Clear ==
  /\ at = "idle" /\ history # <<>>
  /\ Wrote("clear", <<>>) \/ Missed("clear")
  /\ history' = <<>> /\ persisted' = 0
  /\ UNCHANGED <<at, seed, parts, resumes, drifted, forgot, steered>>

(* The program dies, or exits, at any point, and is started again with     *)
(* --resume: the latest log is replayed and a fresh one opened.            *)
Resume ==
  /\ resumes < MaxResumes /\ resumes' = resumes + 1
  /\ history' = Load(<<>>, disk)
  /\ seed' = history' /\ persisted' = Len(history')
  /\ forgot' = (forgot \/ history' # Load(seed, disk))
  /\ disk' = <<>> /\ torn' = FALSE /\ at' = "idle"
  /\ UNCHANGED <<parts, failed, drifted, steered>>

Next ==
  \/ PromptLeg \/ ResumeLeg \/ Abort \/ Cascade \/ EndTurn
  \/ CompactCommand \/ Clear \/ Resume

Spec == Init /\ [][Next]_vars

----------------------------------------------------------------------------
(* Properties *)

(* What this session's log, read after what it was resumed with, replays to. *)
Replay == Load(seed, disk)

(* Every variable stays in its domain, and the cursor inside the history,  *)
(* unless a leg that raised left it beyond a history that coalesced.       *)
TypeOK ==
  /\ history \in Seq(Message) /\ seed \in Seq(Message)
  /\ disk \in Seq([type : LineType, body : Seq(Message)])
  /\ at \in {"idle", "paused", "stopping", "stopped"}
  /\ persisted \in Nat /\ (persisted <= Len(history) \/ drifted)
  /\ parts \in 0..MaxParts /\ resumes \in 0..MaxResumes
  /\ failed \in SUBSET (LineType \cup {"glued"})
  /\ {torn, drifted, forgot, steered} \subseteq BOOLEAN

Unblanked(h) == [i \in DOMAIN h |->
  [h[i] EXCEPT !.parts = {[p EXCEPT !.full = TRUE] : p \in @}]]

Same(g, h) == Coalesce(Unblanked(g)) = Coalesce(Unblanked(h))

(* The cursor tells the truth: the log replays to exactly the messages in  *)
(* front of it, whatever was compacted, cleared, coalesced, healed or      *)
(* retried (loop.py _persist_turn, compact, clear, _run_turn's clamp); and *)
(* between turns nothing is behind it, after an abort or a raise neither   *)
(* (the finally of __call__).                                              *)
CursorIsTrue ==
  /\ failed \cap {"compaction", "clear", "glued"} = {} /\ ~drifted =>
       Same(Replay, SubSeq(history, 1, persisted))
  /\ at = "idle" /\ "messages" \notin failed /\ ~drifted => persisted = Len(history)

(* However writes fail and cursors drift, the log never replays a part     *)
(* twice, nor a prompt or an answer in front of an earlier one.            *)
ReplaysOnceInOrder ==
  LET ids(m) == {p.id : p \in m.parts \ Returns(m)} IN
  \A i, j \in DOMAIN Replay : i < j =>
    /\ \A n \in ids(Replay[i]), k \in ids(Replay[j]) :
         n < k \/ NewPart("summary", n) \in Replay[i].parts
    /\ Returns(Replay[i]) \cap Returns(Replay[j]) = {}

(* "The log keeps full fidelity": a body blanked by microcompaction is in  *)
(* the log in full, unless the write that should have put it there failed. *)
LogKeepsBodies ==
  "messages" \notin failed =>
    \A line \in Range(disk) :
      line.type = "messages" => \A p \in PartsOf(line.body) : p.full

(* The log is the history, whole: the two together, which a late write of   *)
(* a blanked message and a cursor that slipped would each break.           *)
LogIsFaithful == CursorIsTrue /\ LogKeepsBodies

(* Every call but those of the last message is answered: what providers    *)
(* demand of a history before they accept another prompt.                  *)
Answered(h) ==
  LET c == Coalesce(h) IN
  \A i \in 1..(Len(c) - 1) : CallIds(c[i]) \subseteq {p.id : p \in Returns(c[i + 1])}

(* Every return follows the response that made its call. *)
NoOrphan(h) ==
  LET c == Coalesce(h) IN
  \A i \in DOMAIN c : \A p \in Returns(c[i]) : i > 1 /\ p.id \in CallIds(c[i - 1])

(* The histories the next prompt may be sent with, and those the log would *)
(* resume with, where steering, a marker or a line lost, a drifted cursor  *)
(* or the resume of a resumed session have not already spoilt them (see    *)
(* the last section).                                                      *)
Sound ==
  (IF steered \/ resumes # 0 THEN {} ELSE {history}) \cup
  (IF steered \/ drifted \/ forgot \/ failed \cap {"compaction", "clear", "glued"} # {} THEN {}
   ELSE {history, Replay})

(* A crashed, aborted or compacted conversation stays one the model will   *)
(* accept, in memory and when it is resumed: only its last message may     *)
(* have calls without returns (_heal_dangling_tool_calls), and no return   *)
(* is without the call that compaction cut off (split_tail).               *)
CallsStayAnswered == \A h \in Sound : Answered(h) /\ NoOrphan(h)

----------------------------------------------------------------------------
(* What the comments of the code say without the exceptions above *)

(* "A leg that raised out of the loop still lands its captured messages in *)
(* the session log" (agent/loop.py).                                       *)
CrashedLegIsLogged ==
  at = "idle" /\ failed = {} =>
    PartsOf(Unblanked(history)) \subseteq PartsOf(Unblanked(Replay))

(* "Synthesize one interrupted-tool return per dangling call so the next   *)
(* leg is accepted" (agent/loop.py).                                       *)
EveryCallHealed == at = "stopping" => Answered(history)

(* "A tool-call/result pair is never split" (context/compaction.py). *)
PairsNeverSplit == NoOrphan(history)

(* "The log keeps full fidelity and a resume re-microcompacts"             *)
(* (agent/loop.py): also where an append has failed, and what it held is   *)
(* microcompacted before it is written again.                              *)
LogKeepsFullFidelity ==
  \A line \in Range(disk) :
    line.type = "messages" => \A p \in PartsOf(line.body) : p.full

(* "decode --resume replays the latest": what the session held when it was *)
(* written out is what the next one starts from.                           *)
ResumeRestores ==
  failed = {} /\ ~drifted =>
    Same(Load(<<>>, disk), SubSeq(history, 1, persisted))

============================================================================
