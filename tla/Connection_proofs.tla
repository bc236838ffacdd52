-------------------------- MODULE Connection_proofs --------------------------
(***************************************************************************)
(* Proofs about Connection: types, NothingOutlives and NoUseAfterRelease,  *)
(* for every configuration, any number of connections, and any point at    *)
(* which a start fails, is interrupted or loses the connection.            *)
(*                                                                         *)
(* What is left of a call is a program, todo.  It is annotated in the      *)
(* manner of Floyd: before and after each step stands a situation, which   *)
(* says what is held there, and each step leads from the one to the other  *)
(* and has what it needs.  A step that may fail carries a program of its   *)
(* own, which is annotated likewise.  The invariant is that todo has       *)
(* annotations that begin with the present situation and end in one where  *)
(* exactly what the last complete stage stands for is held.                *)
(***************************************************************************)
EXTENDS Connection, SequenceTheorems, FiniteSetTheorems, TLAPS

(***************************************************************************)
(* Situations                                                              *)
(***************************************************************************)

Renderers == {"video", "audio"}

(* A situation has fields threads and handles (all but "AudioPing",        *)
(* "audio" and "rtspTcp"), parts, renderers, stage, audio, streams, rfi    *)
(* and rtsp.  The audio socket and its ping thread may be missing although *)
(* the stage is complete, so what is known of them is kept apart, as audio:*)
(* "none" of them is there, "any" of them may be, the socket is "bound"    *)
(* unless AudioUnbound, or "quiet", the thread is not there.  rtsp says    *)
(* where the handshake is: "no", not yet begun, "init", begun, at a        *)
(* "request", or "done".  When streams holds, rfi is RfiEnabled.           *)

(* conf is given as c, so that what is said of a program is constant.      *)
TcpIn(c)  == c.version[1] < 5
EnetIn(c) == c.version[1] \in 5 .. 7 /\ c.version[3] < 404

ControlThreads(rfi) ==
  {"ControlRecv", "LossStats", "ReqIdrFrame", "CtrlAsyncCb"}
    \cup (IF rfi THEN {"InvRefFrames"} ELSE {})
VideoThreads(c) ==
  {"VideoRecv", "VideoPing"} \cup (IF c.directVideo THEN {} ELSE {"VideoDec"})
AudioThreads(c) ==
  {"AudioRecv"} \cup (IF c.directAudio THEN {} ELSE {"AudioDec"})

(* What is held when n stages are complete                                 *)
ThreadsAt(c, n, rfi) ==
  (IF n >= 8 THEN ControlThreads(rfi) ELSE {})
    \cup (IF n >= 9 THEN VideoThreads(c) ELSE {})
    \cup (IF n >= 10 THEN AudioThreads(c) ELSE {})
    \cup (IF n >= 11 THEN {"InputSend"} ELSE {})
HandlesAt(c, n) ==
  (IF n >= 8 THEN {"control"} ELSE {}) \cup (IF n >= 9 THEN {"video"} ELSE {})
    \cup (IF n >= 11 /\ TcpIn(c) THEN {"input"} ELSE {})
PartsAt(n) ==
  (IF n >= 1 THEN {"platform"} ELSE {}) \cup (IF n >= 3 THEN {"audio"} ELSE {})
    \cup (IF n >= 5 THEN {"control"} ELSE {})
    \cup (IF n >= 6 THEN {"video"} ELSE {}) \cup (IF n >= 7 THEN {"input"} ELSE {})
RenderersAt(n) ==
  (IF n >= 9 THEN {"video"} ELSE {}) \cup (IF n >= 10 THEN {"audio"} ELSE {})
AudioAt(n) ==
  IF n < 3 THEN {"none"} ELSE IF n = 3 THEN {"any", "bound"} ELSE {"bound"}

AtStage(c, s) ==
  /\ s.threads = ThreadsAt(c, s.stage, s.rfi)
  /\ s.handles = HandlesAt(c, s.stage)
  /\ s.parts = PartsAt(s.stage)
  /\ s.renderers = RenderersAt(s.stage)
  /\ s.audio \in AudioAt(s.stage)
  /\ s.stage >= 4 => s.rtsp = "done"
  /\ s.stage >= 8 => s.streams

Settled(c, s) == AtStage(c, s) /\ s.rtsp \in {"no", "done"}

(* A stage failed: what it held is released, but for the contexts that     *)
(* the ENet error paths forget.                                            *)
GivenUp(c, s) ==
  AtStage(c, s) /\ (s.rtsp \in {"no", "done"} \/ (s.rtsp = "init" /\ EnetIn(c)))

(* A call has ended.                                                       *)
Over(c, s) == Settled(c, s) /\ s.stage \in {0, 11}

Nothing ==
  [threads |-> {}, handles |-> {}, parts |-> {}, renderers |-> {},
   stage |-> 0, audio |-> "none", streams |-> FALSE, rfi |-> FALSE,
   rtsp |-> "no"]

(* Between the requests of the handshake                                   *)
InHandshake(s) ==
  /\ s.stage = 3 /\ s.threads = {} /\ s.handles \subseteq {"rtspEnet"}
  /\ s.parts = PartsAt(3) /\ s.renderers = {} /\ ~s.streams
  /\ s.audio \in AudioAt(3) /\ s.rtsp \in {"init", "request"}

(* What the threads that are there use is there: NoUseAfterRelease         *)
UsersServed(c, s) ==
  /\ \A t \in s.threads : PartsUsed(t) \subseteq s.parts
  /\ s.threads \cap (ControlThreads(TRUE) \cup {"VideoDec"}) # {}
       => "control" \in s.handles
  /\ s.threads \cap {"VideoRecv", "VideoPing"} # {} => "video" \in s.handles
  /\ "InputSend" \in s.threads =>
       IF TcpIn(c) THEN "input" \in s.handles ELSE "control" \in s.handles
  /\ "AudioRecv" \in s.threads => s.audio = "bound"
  /\ (IF c.directVideo THEN "VideoRecv" ELSE "VideoDec") \in s.threads
       => "video" \in s.renderers
  /\ (IF c.directAudio THEN "AudioRecv" ELSE "AudioDec") \in s.threads
       => "audio" \in s.renderers

(***************************************************************************)
(* What a step needs, and what it leads to                                 *)
(***************************************************************************)

FailOps == {"create", "open", "attempt", "request"}
IdleOps == {"cancel", "signal", "attempt", "assume", "interrupt", "reset",
            "start", "stop"}
LastOps == {"failed", "stopConnection", "undo"}

(* Situations like s that hold something else, or are at another point     *)
Holding(s, ts, hs, ps, rs) ==
  [threads |-> ts, handles |-> hs, parts |-> ps, renderers |-> rs,
   stage |-> s.stage, audio |-> s.audio, streams |-> s.streams, rfi |-> s.rfi,
   rtsp |-> s.rtsp]
AtPoint(s, n, a, q) ==
  [threads |-> s.threads, handles |-> s.handles, parts |-> s.parts,
   renderers |-> s.renderers, stage |-> n, audio |-> a,
   streams |-> s.streams, rfi |-> s.rfi, rtsp |-> q]

Needs(c, x, s) ==
  CASE x.op = "create" -> \E t \in Threads \ {"AudioPing"} : x.on = {t}
    [] x.op = "cancel" -> x.on \subseteq Threads
    [] x.op = "signal" -> x.on \subseteq Signals
    [] x.op = "join" ->
         \E t \in Threads :
           x.on = {t} /\ (t = "AudioPing" => s.audio \in {"any", "bound"})
    [] x.op = "open" ->
         \E h \in Handles \ {"audio", "rtspTcp"} :
           x.on = {h} /\ (h = "rtspEnet" => EnetIn(c))
    [] x.op = "close" ->
         \E h \in Handles \ {"rtspEnet", "rtspTcp"} :
           x.on = {h} /\ (h = "audio" => s.audio = "quiet")
    [] x.op = "drop" -> x.on \in {{"video"}, {"audio"}}
    [] x.op \in {"initialize", "destroy"} ->
         \E p \in Parts : x.on = {p} /\ (p = "audio" => s.audio = "none")
    [] x.op \in {"setup", "start", "stop", "cleanup"} ->
         \E r \in Renderers :
           x.on = {r} /\ (x.op \in {"start", "stop"} => r \in s.renderers)
    [] x.op \in {"attempt", "assume", "interrupt", "reset", "rtspInit"} -> TRUE
    [] x.op \in {"check", "stopConnection", "undo"} -> Settled(c, s)
    [] x.op = "failed" -> GivenUp(c, s)
    [] x.op = "startStreams" -> AtStage(c, s) /\ s.stage = 7
    [] x.op = "complete" ->
         s.stage < 11 /\ AtStage(c, AtPoint(s, s.stage + 1, s.audio, s.rtsp))
    [] x.op = "undone" ->
         s.stage > 0 /\ AtStage(c, AtPoint(s, s.stage - 1, s.audio, s.rtsp))
    [] x.op \in {"request", "rtspExit"} -> InHandshake(s)
    [] OTHER -> FALSE

(* The situation when n stages are complete and the streams are starting,  *)
(* with other threads, handles and renderers                               *)
With(n, ts, hs, rs, rfi) ==
  [threads |-> ts, handles |-> hs, parts |-> PartsAt(n), renderers |-> rs,
   stage |-> n, audio |-> "bound", streams |-> TRUE, rfi |-> rfi,
   rtsp |-> "done"]
Complete(c, n, rfi) ==
  With(n, ThreadsAt(c, n, rfi), HandlesAt(c, n), RenderersAt(n), rfi)

AfterHold(x, s) ==
  CASE x.op = "create" ->
         Holding(s, s.threads \cup x.on, s.handles, s.parts, s.renderers)
    [] x.op = "join" ->
         Holding(s, s.threads \ x.on, s.handles, s.parts, s.renderers)
    [] x.op = "open" ->
         Holding(s, s.threads, s.handles \cup x.on, s.parts, s.renderers)
    [] x.op \in {"close", "drop"} ->
         Holding(s, s.threads, s.handles \ x.on, s.parts, s.renderers)
    [] x.op = "initialize" ->
         Holding(s, s.threads, s.handles, s.parts \cup x.on, s.renderers)
    [] x.op = "destroy" ->
         Holding(s, s.threads, s.handles, s.parts \ x.on, s.renderers)
    [] x.op = "setup" ->
         Holding(s, s.threads, s.handles, s.parts, s.renderers \cup x.on)
    [] x.op = "cleanup" ->
         Holding(s, s.threads, s.handles, s.parts, s.renderers \ x.on)
    [] OTHER -> s

AfterPoint(c, x, s) ==
  CASE x.op = "complete" -> AtPoint(s, s.stage + 1, s.audio, s.rtsp)
    [] x.op = "undone" -> AtPoint(s, s.stage - 1, s.audio, s.rtsp)
    [] x.op = "join" -> AtPoint(s, s.stage, "quiet", s.rtsp)
    [] x.op = "close" -> AtPoint(s, s.stage, "none", s.rtsp)
    [] x.op = "initialize" ->
         AtPoint(Holding(s, s.threads, s.handles, s.parts \cup x.on,
                         s.renderers), s.stage, "any", s.rtsp)
    [] x.op = "rtspInit" -> AtPoint(s, s.stage, s.audio, "init")
    [] x.op = "request" ->
         AtPoint(s, s.stage, IF x.on = {"SETUP audio"} THEN "bound" ELSE s.audio,
                 "request")
    [] x.op = "rtspExit" ->
         AtPoint(Holding(s, s.threads, {}, s.parts, s.renderers), s.stage,
                 s.audio, "done")
    [] x.op = "startStreams" -> Complete(c, 11, s.rfi)
    [] x.op \in LastOps -> Nothing
    [] OTHER -> s

PointOps == LastOps \cup
  {"complete", "undone", "rtspInit", "request", "rtspExit", "startStreams"}

After(c, x, s) ==
  IF x.op \in PointOps THEN AfterPoint(c, x, s)
  ELSE IF \/ x.op = "join" /\ x.on = {"AudioPing"}
          \/ x.op \in {"close", "initialize"} /\ x.on = {"audio"}
    THEN AfterPoint(c, x, s)
  ELSE AfterHold(x, s)

(***************************************************************************)
(* Annotated programs                                                      *)
(***************************************************************************)

IsProgram(p) == \E S : p \in Seq(S)

LEMMA ProgramFacts ==
  ASSUME NEW p, IsProgram(p)
  PROVE  /\ Len(p) \in Nat /\ (p = <<>> <=> Len(p) = 0)
         /\ p # <<>> => /\ Head(p) = p[1] /\ IsProgram(Tail(p))
                        /\ Len(Tail(p)) = Len(p) - 1
                        /\ \A i \in 1..Len(p) - 1 : Tail(p)[i] = p[i + 1]
<1>1. PICK S : p \in Seq(S)
  BY DEF IsProgram
<1>2. Len(p) \in Nat /\ (p = <<>> <=> Len(p) = 0)
  BY <1>1, LenProperties, EmptySeq
<1>3. ASSUME p # <<>>
      PROVE  /\ Tail(p) \in Seq(S) /\ Len(Tail(p)) = Len(p) - 1
             /\ \A i \in 1..Len(p) - 1 : Tail(p)[i] = p[i + 1]
  BY <1>1, <1>3, HeadTailProperties
<1> QED
  BY <1>1, <1>2, <1>3 DEF IsProgram

LEMMA ConcatFacts ==
  ASSUME NEW p, NEW q, IsProgram(p), IsProgram(q)
  PROVE  /\ IsProgram(p \o q) /\ Len(p) \in Nat /\ Len(q) \in Nat
         /\ Len(p \o q) = Len(p) + Len(q)
         /\ \A i \in 1..Len(p) + Len(q) :
              (p \o q)[i] = IF i <= Len(p) THEN p[i] ELSE q[i - Len(p)]
<1>1. PICK S : p \in Seq(S)
  BY DEF IsProgram
<1>2. PICK T : q \in Seq(T)
  BY DEF IsProgram
<1>3. p \in Seq(S \cup T) /\ q \in Seq(S \cup T)
  BY <1>1, <1>2, SeqMonotonic
<1> QED
  BY <1>3, ConcatProperties, LenProperties DEF IsProgram

(* tr are annotations of program p: tr[i] stands behind its i-th step.     *)
Annotates(c, p, tr) ==
  /\ IsProgram(p)
  /\ \A i \in 0..Len(p) : UsersServed(c, tr[i])
  /\ \A i \in 1..Len(p) :
       Needs(c, p[i], tr[i - 1]) /\ tr[i] = After(c, p[i], tr[i - 1])

(* An error path leads from s to u: it has no step that may fail.          *)
Undoes(c, p, s, u) ==
  \E tr : /\ Annotates(c, p, tr) /\ tr[0] = s /\ tr[Len(p)] = u
          /\ \A i \in 1..Len(p) : p[i].op \notin FailOps

MayFail(c, x, s) ==
  x.op \in FailOps => \E u : Undoes(c, x.undo, s, u) /\ GivenUp(c, u)

(* A program leads from s to u.                                            *)
Leads(c, p, s, u) ==
  \E tr : /\ Annotates(c, p, tr) /\ tr[0] = s /\ tr[Len(p)] = u
          /\ \A i \in 1..Len(p) : MayFail(c, p[i], tr[i - 1])

LEMMA ConcatAnnotates ==
  ASSUME NEW c, NEW p, NEW q, NEW tr, NEW tq, Annotates(c, p, tr),
         Annotates(c, q, tq), tr[Len(p)] = tq[0]
  PROVE  \E t : /\ Annotates(c, p \o q, t)
                /\ \A i \in 0..Len(p) : t[i] = tr[i]
                /\ \A i \in 0..Len(q) : t[Len(p) + i] = tq[i]
<1> DEFINE m == Len(p)
           n == Len(q)
           t == [i \in 0..m + n |-> IF i <= m THEN tr[i] ELSE tq[i - m]]
<1>1. /\ m \in Nat /\ n \in Nat
      /\ IsProgram(p \o q) /\ Len(p \o q) = m + n
      /\ \A i \in 1..m + n : (p \o q)[i] = IF i <= m THEN p[i] ELSE q[i - m]
  BY ConcatFacts DEF Annotates
<1> HIDE DEF m, n
<1>2. \A i \in 0..m : t[i] = tr[i]
  BY <1>1
<1>3. ASSUME NEW i \in 0..n
      PROVE  t[m + i] = tq[i]
  <2> DEFINE k == m + i
  <2>1. k \in 0..m + n /\ k - m = i /\ (k <= m => i = 0 /\ k = m)
    BY <1>1
  <2>2. tr[m] = tq[0]
    BY DEF m
  <2> HIDE DEF k
  <2>3. t[k] = IF k <= m THEN tr[k] ELSE tq[k - m]
    BY <2>1
  <2>4. t[k] = tq[i]
    BY <2>1, <2>2, <2>3
  <2> QED
    BY <2>4 DEF k
<1> HIDE DEF t
<1>4. ASSUME NEW i \in 0..m + n
      PROVE  UsersServed(c, t[i])
  <2>1. CASE i <= m
    BY <1>1, <1>2, <2>1 DEF Annotates, m
  <2>2. CASE i > m
    <3> DEFINE j == i - m
    <3>1. j \in 0..n /\ m + j = i
      BY <1>1, <2>2
    <3>2. t[m + j] = tq[j]
      BY <1>3, <3>1
    <3> QED
      BY <3>1, <3>2 DEF Annotates, n
  <2> QED
    BY <1>1, <2>1, <2>2
<1>5. ASSUME NEW i \in 1..m + n
      PROVE  /\ Needs(c, (p \o q)[i], t[i - 1])
             /\ t[i] = After(c, (p \o q)[i], t[i - 1])
  <2>1. CASE i <= m
    <3>1. i \in 1..m /\ i \in 0..m /\ i - 1 \in 0..m
      BY <1>1, <2>1
    <3>2. (p \o q)[i] = p[i]
      BY <1>1, <2>1
    <3>3. t[i] = tr[i] /\ t[i - 1] = tr[i - 1]
      BY <1>2, <3>1
    <3> QED
      BY <3>1, <3>2, <3>3 DEF Annotates, m
  <2>2. CASE i > m
    <3> DEFINE j == i - m
    <3>1. /\ j \in 1..n /\ j - 1 \in 0..n /\ j \in 0..n
          /\ m + j = i /\ m + (j - 1) = i - 1 /\ (p \o q)[i] = q[j]
      BY <1>1, <2>2
    <3>2. t[i] = tq[j] /\ t[i - 1] = tq[j - 1]
      BY <1>3, <3>1
    <3> QED
      BY <3>1, <3>2 DEF Annotates, n
  <2> QED
    BY <1>1, <2>1, <2>2
<1>6. Annotates(c, p \o q, t)
  BY <1>1, <1>4, <1>5 DEF Annotates
<1> QED
  BY <1>2, <1>3, <1>6 DEF m, n

LEMMA UndoesThen ==
  ASSUME NEW c, NEW p, NEW q, NEW s, NEW r, NEW u,
         Undoes(c, p, s, r), Undoes(c, q, r, u)
  PROVE  Undoes(c, p \o q, s, u)
<1>1. PICK tr : /\ Annotates(c, p, tr) /\ tr[0] = s /\ tr[Len(p)] = r
                /\ \A i \in 1..Len(p) : p[i].op \notin FailOps
  BY DEF Undoes
<1>2. PICK tq : /\ Annotates(c, q, tq) /\ tq[0] = r /\ tq[Len(q)] = u
                /\ \A i \in 1..Len(q) : q[i].op \notin FailOps
  BY DEF Undoes
<1>3. PICK t : /\ Annotates(c, p \o q, t)
               /\ \A i \in 0..Len(p) : t[i] = tr[i]
               /\ \A i \in 0..Len(q) : t[Len(p) + i] = tq[i]
  BY <1>1, <1>2, ConcatAnnotates
<1>4. /\ Len(p) \in Nat /\ Len(q) \in Nat /\ Len(p \o q) = Len(p) + Len(q)
      /\ \A i \in 1..Len(p) + Len(q) :
           (p \o q)[i] = IF i <= Len(p) THEN p[i] ELSE q[i - Len(p)]
  BY <1>1, <1>2, ConcatFacts DEF Annotates
<1>5. t[0] = s /\ t[Len(p \o q)] = u
  BY <1>1, <1>2, <1>3, <1>4
<1>6. \A i \in 1..Len(p \o q) : (p \o q)[i].op \notin FailOps
  BY <1>1, <1>2, <1>4
<1> QED
  BY <1>3, <1>5, <1>6 DEF Undoes

LEMMA LeadsThen ==
  ASSUME NEW c, NEW p, NEW q, NEW s, NEW r, NEW u,
         Leads(c, p, s, r), Leads(c, q, r, u)
  PROVE  Leads(c, p \o q, s, u)
<1>1. PICK tr : /\ Annotates(c, p, tr) /\ tr[0] = s /\ tr[Len(p)] = r
                /\ \A i \in 1..Len(p) : MayFail(c, p[i], tr[i - 1])
  BY DEF Leads
<1>2. PICK tq : /\ Annotates(c, q, tq) /\ tq[0] = r /\ tq[Len(q)] = u
                /\ \A i \in 1..Len(q) : MayFail(c, q[i], tq[i - 1])
  BY DEF Leads
<1>3. PICK t : /\ Annotates(c, p \o q, t)
               /\ \A i \in 0..Len(p) : t[i] = tr[i]
               /\ \A i \in 0..Len(q) : t[Len(p) + i] = tq[i]
  BY <1>1, <1>2, ConcatAnnotates
<1> DEFINE m == Len(p)
           n == Len(q)
<1>4. /\ m \in Nat /\ n \in Nat /\ Len(p \o q) = m + n
      /\ \A i \in 1..m + n : (p \o q)[i] = IF i <= m THEN p[i] ELSE q[i - m]
  BY <1>1, <1>2, ConcatFacts DEF Annotates
<1>5. t[0] = s /\ t[Len(p \o q)] = u
  BY <1>1, <1>2, <1>3, <1>4
<1>6. ASSUME NEW i \in 1..Len(p \o q)
      PROVE  MayFail(c, (p \o q)[i], t[i - 1])
  <2>1. CASE i <= m
    <3>1. i \in 1..m /\ (p \o q)[i] = p[i] /\ t[i - 1] = tr[i - 1]
      BY <1>3, <1>4, <2>1
    <3> QED
      BY <1>1, <3>1
  <2>2. CASE i > m
    <3> DEFINE j == i - m
    <3>1. /\ j \in 1..n /\ j - 1 \in 0..n /\ m + (j - 1) = i - 1
          /\ (p \o q)[i] = q[j]
      BY <1>4, <2>2
    <3>2. t[i - 1] = tq[j - 1]
      BY <1>3, <3>1
    <3> QED
      BY <1>2, <3>1, <3>2
  <2> QED
    BY <1>4, <2>1, <2>2
<1> QED
  BY <1>3, <1>5, <1>6 DEF Leads

(* An error path is a program like any other.                              *)
LEMMA UndoesLeads ==
  ASSUME NEW c, NEW p, NEW s, NEW u, Undoes(c, p, s, u)
  PROVE  Leads(c, p, s, u)
BY DEF Undoes, Leads, MayFail

LEMMA NoStep ==
  ASSUME NEW c, NEW s, UsersServed(c, s)
  PROVE  Undoes(c, <<>>, s, s) /\ Leads(c, <<>>, s, s)
<1> DEFINE tr == [i \in {0} |-> s]
<1>1. IsProgram(<<>>) /\ Len(<<>>) = 0 /\ tr[0] = s
  BY EmptySeq DEF IsProgram
<1> HIDE DEF tr
<1>2. /\ \A i \in 0..0 : i = 0
      /\ \A i \in 1..0 : FALSE
  OBVIOUS
<1>3. Annotates(c, <<>>, tr)
  BY <1>1, <1>2 DEF Annotates
<1>4. Undoes(c, <<>>, s, s)
  BY <1>1, <1>2, <1>3 DEF Undoes
<1> QED
  BY <1>4, UndoesLeads

LEMMA OneAnnotates ==
  ASSUME NEW c, NEW x, NEW s, NEW u, UsersServed(c, s),
         Needs(c, x, s), u = After(c, x, s), UsersServed(c, u)
  PROVE  /\ Len(<<x>>) = 1 /\ <<x>>[1] = x
         /\ \E tr : Annotates(c, <<x>>, tr) /\ tr[0] = s /\ tr[1] = u
<1> DEFINE tr == [i \in 0..1 |-> IF i = 0 THEN s ELSE u]
<1>1. <<x>> \in Seq({x}) /\ Len(<<x>>) = 1 /\ <<x>>[1] = x
  OBVIOUS
<1>2. tr[0] = s /\ tr[1] = u
  OBVIOUS
<1> HIDE DEF tr
<1>3. \A i \in 0..1 : UsersServed(c, tr[i])
  BY <1>2
<1>4. \A i \in 1..1 : Needs(c, x, tr[i - 1]) /\ tr[i] = After(c, x, tr[i - 1])
  BY <1>2
<1>5. IsProgram(<<x>>)
  BY <1>1 DEF IsProgram
<1>6. \A i \in 1..Len(<<x>>) : <<x>>[i] = x
  BY <1>1
<1>7. Annotates(c, <<x>>, tr)
  BY <1>1, <1>3, <1>4, <1>5, <1>6 DEF Annotates
<1> QED
  BY <1>1, <1>2, <1>7

LEMMA OneUndoes ==
  ASSUME NEW c, NEW x, NEW s, NEW u, UsersServed(c, s),
         Needs(c, x, s), u = After(c, x, s), UsersServed(c, u),
         x.op \notin FailOps
  PROVE  Undoes(c, <<x>>, s, u)
BY OneAnnotates DEF Undoes

LEMMA OneLeads ==
  ASSUME NEW c, NEW x, NEW s, NEW u, UsersServed(c, s),
         Needs(c, x, s), u = After(c, x, s), UsersServed(c, u),
         MayFail(c, x, s)
  PROVE  Leads(c, <<x>>, s, u)
<1>1. Len(<<x>>) = 1 /\ <<x>>[1] = x
  BY OneAnnotates
<1>2. PICK tr : Annotates(c, <<x>>, tr) /\ tr[0] = s /\ tr[1] = u
  BY OneAnnotates
<1>3. \A i \in 1..1 : i = 1 /\ i - 1 = 0
  OBVIOUS
<1> QED
  BY <1>1, <1>2, <1>3 DEF Leads

(***************************************************************************)
(* What is left of a program                                               *)
(***************************************************************************)

LEMMA LeadsServed ==
  ASSUME NEW c, NEW p, NEW s, NEW u, Leads(c, p, s, u)
  PROVE  UsersServed(c, s) /\ IsProgram(p)
<1>1. PICK tr : Annotates(c, p, tr) /\ tr[0] = s
  BY DEF Leads
<1>2. Len(p) \in Nat /\ 0 \in 0..Len(p)
  BY <1>1, ProgramFacts DEF Annotates
<1> QED
  BY <1>1, <1>2 DEF Annotates

LEMMA LeadsNowhere ==
  ASSUME NEW c, NEW s, NEW u, Leads(c, <<>>, s, u)
  PROVE  s = u
BY ProgramFacts DEF Leads, Annotates

(* From any step on, a program leads from the situation before that step.  *)
LEMMA LeadsFrom ==
  ASSUME NEW c, NEW p, NEW s, NEW u, Leads(c, p, s, u), NEW i \in 1..Len(p)
  PROVE  \E r : /\ Needs(c, p[i], r)
                /\ Leads(c, SubSeq(p, i, Len(p)), r, u)
                /\ i = 1 => r = s
<1> DEFINE n == Len(p)
           q == SubSeq(p, i, n)
<1>1. PICK tr : /\ Annotates(c, p, tr) /\ tr[0] = s /\ tr[n] = u
                /\ \A j \in 1..n : MayFail(c, p[j], tr[j - 1])
  BY DEF Leads
<1>2. IsProgram(p) /\ n \in Nat
  BY <1>1, ProgramFacts DEF Annotates
<1> DEFINE t == [j \in 0..n - i + 1 |-> tr[i - 1 + j]]
<1>3. PICK S : p \in Seq(S) /\ \A j \in i..n : p[j] \in S
  BY <1>2, ElementOfSeq DEF IsProgram
<1>4. /\ q \in Seq(S) /\ Len(q) = n - i + 1
      /\ \A j \in 1..n - i + 1 : q[j] = p[i + j - 1]
  BY <1>2, <1>3, SubSeqProperties, i \in Int, n \in Int, i <= n
<1>10. IsProgram(q)
  BY <1>4 DEF IsProgram
<1>5. /\ t[0] = tr[i - 1] /\ t[n - i + 1] = u
      /\ \A j \in 0..n - i + 1 : t[j] = tr[i - 1 + j]
  BY <1>1, <1>2
<1> HIDE DEF q, t
<1>6. \A j \in 0..n - i + 1 : UsersServed(c, t[j])
  BY <1>1, <1>2, <1>5 DEF Annotates
<1>7. ASSUME NEW j \in 1..n - i + 1
      PROVE  /\ Needs(c, q[j], t[j - 1]) /\ t[j] = After(c, q[j], t[j - 1])
             /\ MayFail(c, q[j], t[j - 1])
  <2> DEFINE k == i + j - 1
  <2>1. /\ k \in 1..n /\ q[j] = p[k] /\ j \in 0..n - i + 1
        /\ j - 1 \in 0..n - i + 1 /\ i - 1 + j = k /\ i - 1 + (j - 1) = k - 1
    BY <1>2, <1>4
  <2>2. t[j] = tr[k] /\ t[j - 1] = tr[k - 1]
    BY <1>5, <2>1
  <2> QED
    BY <1>1, <2>1, <2>2 DEF Annotates
<1>8. Leads(c, q, tr[i - 1], u)
  BY <1>10, <1>4, <1>5, <1>6, <1>7 DEF Leads, Annotates
<1>9. Needs(c, p[i], tr[i - 1]) /\ (i = 1 => tr[i - 1] = s)
  BY <1>1 DEF Annotates
<1> QED
  BY <1>8, <1>9 DEF q

(* The first step has what it needs, and the rest goes on from there.      *)
LEMMA LeadsHead ==
  ASSUME NEW c, NEW p, NEW s, NEW u, Leads(c, p, s, u), p # <<>>
  PROVE  /\ Needs(c, Head(p), s)
         /\ MayFail(c, Head(p), s)
         /\ Leads(c, Tail(p), After(c, Head(p), s), u)
<1> DEFINE n == Len(p)
           x == Head(p)
           q == Tail(p)
<1>1. PICK tr : /\ Annotates(c, p, tr) /\ tr[0] = s /\ tr[n] = u
                /\ \A j \in 1..n : MayFail(c, p[j], tr[j - 1])
  BY DEF Leads
<1>2. IsProgram(p) /\ n \in Nat \ {0} /\ x = p[1]
  BY <1>1, ProgramFacts DEF Annotates
<1>3. /\ IsProgram(q) /\ Len(q) = n - 1
      /\ \A j \in 1..n - 1 : q[j] = p[j + 1]
  BY <1>2, ProgramFacts
<1>4. Needs(c, x, s) /\ MayFail(c, x, s) /\ tr[1] = After(c, x, s)
  BY <1>1, <1>2 DEF Annotates
<1> DEFINE t == [j \in 0..n - 1 |-> tr[j + 1]]
<1>5. t[0] = tr[1] /\ t[n - 1] = u /\ \A j \in 0..n - 1 : t[j] = tr[j + 1]
  BY <1>1, <1>2
<1> HIDE DEF x, q, t
<1>6. \A j \in 0..n - 1 : UsersServed(c, t[j])
  BY <1>1, <1>2, <1>5 DEF Annotates
<1>7. ASSUME NEW j \in 1..n - 1
      PROVE  /\ Needs(c, q[j], t[j - 1]) /\ t[j] = After(c, q[j], t[j - 1])
             /\ MayFail(c, q[j], t[j - 1])
  <2> DEFINE k == j + 1
  <2>1. /\ k \in 1..n /\ q[j] = p[k] /\ j \in 0..n - 1
        /\ j - 1 \in 0..n - 1 /\ (j - 1) + 1 = k - 1
    BY <1>2, <1>3
  <2>2. t[j] = tr[k] /\ t[j - 1] = tr[k - 1]
    BY <1>5, <2>1
  <2> QED
    BY <1>1, <2>1, <2>2 DEF Annotates
<1>8. Leads(c, q, tr[1], u)
  BY <1>3, <1>5, <1>6, <1>7 DEF Leads, Annotates
<1> QED
  BY <1>3, <1>4, <1>8 DEF x, q

(***************************************************************************)
(* Steps                                                                   *)
(***************************************************************************)

(* Served says of With what UsersServed says of a situation.               *)
Served(c, ts, hs, rs) ==
  /\ ts \cap (ControlThreads(TRUE) \cup {"VideoDec"}) # {}
       => "control" \in hs
  /\ ts \cap {"VideoRecv", "VideoPing"} # {} => "video" \in hs
  /\ "InputSend" \in ts =>
       IF TcpIn(c) THEN "input" \in hs ELSE "control" \in hs
  /\ (IF c.directVideo THEN "VideoRecv" ELSE "VideoDec") \in ts
       => "video" \in rs
  /\ (IF c.directAudio THEN "AudioRecv" ELSE "AudioDec") \in ts
       => "audio" \in rs

LEMMA WithServed ==
  ASSUME NEW c, NEW n \in 7..11, NEW ts, NEW hs, NEW rs, NEW rfi
  PROVE  UsersServed(c, With(n, ts, hs, rs, rfi)) <=> Served(c, ts, hs, rs)
<1>1. PartsAt(n) = Parts
  BY DEF PartsAt, Parts
<1>2. \A t : PartsUsed(t) \subseteq Parts
  BY DEF PartsUsed, Parts
<1> QED
  BY <1>1, <1>2 DEF UsersServed, Served, With

(* To release threads harms no thread.                                     *)
LEMMA FewerServed ==
  ASSUME NEW c, NEW ts, NEW us, NEW hs, NEW rs, Served(c, ts, hs, rs),
         us \subseteq ts
  PROVE  Served(c, us, hs, rs)
BY DEF Served

(* Steps that hold nothing and release nothing                             *)
LEMMA IdleAfter ==
  ASSUME NEW c, NEW x, NEW s, UsersServed(c, s),
         \/ x.op = "cancel" /\ x.on \subseteq Threads
         \/ x.op = "signal" /\ x.on \subseteq Signals
         \/ x.op \in {"assume", "interrupt", "reset"}
         \/ /\ x.op \in {"start", "stop"}
            /\ \E r \in Renderers : x.on = {r} /\ r \in s.renderers
         \/ x.op = "check" /\ Settled(c, s)
  PROVE  Undoes(c, <<x>>, s, s)
<1>1. Needs(c, x, s)
  BY DEF Needs
<1>2. After(c, x, s) = s
  BY DEF After, AfterHold, PointOps, LastOps
<1>3. x.op \notin FailOps
  BY DEF FailOps
<1> QED
  BY <1>1, <1>2, <1>3, OneUndoes

LEMMA IdleStep ==
  ASSUME NEW c, NEW s, UsersServed(c, s)
  PROVE  /\ \A ts \in SUBSET Threads : Undoes(c, <<Cancel(ts)>>, s, s)
         /\ \A qs \in SUBSET Signals : Undoes(c, <<Signal(qs)>>, s, s)
         /\ \A w : Undoes(c, <<Assume(w)>>, s, s)
         /\ Undoes(c, <<Interrupt>>, s, s)
         /\ \A r \in Renderers : r \in s.renderers =>
              Undoes(c, <<Call("start", r)>>, s, s)
              /\ Undoes(c, <<Call("stop", r)>>, s, s)
<1>1. ASSUME NEW ts \in SUBSET Threads
      PROVE  Undoes(c, <<Cancel(ts)>>, s, s)
  <2>1. /\ Cancel(ts).op = "cancel"
        /\ Cancel(ts).on = ts
    BY DEF Step, Cancel
  <2> QED
    BY <2>1, IdleAfter
<1>2. ASSUME NEW qs \in SUBSET Signals
      PROVE  Undoes(c, <<Signal(qs)>>, s, s)
  <2>1. /\ Signal(qs).op = "signal"
        /\ Signal(qs).on = qs
    BY DEF Step, Signal
  <2> QED
    BY <2>1, IdleAfter
<1>3. ASSUME NEW w
      PROVE  Undoes(c, <<Assume(w)>>, s, s)
  <2>1. Assume(w).op = "assume"
    BY DEF Step, Assume
  <2> QED
    BY <2>1, IdleAfter
<1>4. Undoes(c, <<Interrupt>>, s, s)
  <2>1. Interrupt.op = "interrupt"
    BY DEF Step, Interrupt
  <2> QED
    BY <2>1, IdleAfter
<1>5. ASSUME NEW r \in Renderers, r \in s.renderers, NEW op \in {"start", "stop"}
      PROVE  Undoes(c, <<Call(op, r)>>, s, s)
  <2>1. /\ Call(op, r).op = op
        /\ Call(op, r).on = {r}
    BY DEF Step, Call
  <2> QED
    BY <1>5, <2>1, IdleAfter
<1> QED
  BY <1>1, <1>2, <1>3, <1>4, <1>5

(* Steps that take or release something while streams start or stop        *)
LEMMA HoldStep ==
  ASSUME NEW c, NEW n \in 7..11, NEW ts, NEW hs, NEW rs, NEW rfi,
         Served(c, ts, hs, rs), NEW x, NEW us, NEW gs, NEW qs,
         Served(c, us, gs, qs),
         \/ /\ x.op = "join" /\ gs = hs /\ qs = rs
            /\ \E t \in Threads \ {"AudioPing"} : x.on = {t} /\ us = ts \ {t}
         \/ /\ x.op = "close" /\ us = ts /\ qs = rs
            /\ \E h \in {"control", "video", "firstFrame", "input"} :
                 x.on = {h} /\ gs = hs \ {h}
         \/ /\ x.op = "drop" /\ us = ts /\ qs = rs
            /\ \E h \in {"audio", "video"} : x.on = {h} /\ gs = hs \ {h}
         \/ /\ x.op = "setup" /\ us = ts /\ gs = hs
            /\ \E r \in Renderers : x.on = {r} /\ qs = rs \cup {r}
         \/ /\ x.op = "cleanup" /\ us = ts /\ gs = hs
            /\ \E r \in Renderers : x.on = {r} /\ qs = rs \ {r}
  PROVE  Undoes(c, <<x>>, With(n, ts, hs, rs, rfi), With(n, us, gs, qs, rfi))
<1> DEFINE s == With(n, ts, hs, rs, rfi)
           u == With(n, us, gs, qs, rfi)
<1>1. UsersServed(c, s) /\ UsersServed(c, u)
  BY WithServed
<1>2. /\ s.threads = ts /\ s.handles = hs /\ s.renderers = rs
      /\ Holding(s, us, gs, s.parts, qs) = u
  BY DEF With, Holding
<1> HIDE DEF s, u
<1>3. Needs(c, x, s)
  <2>1. CASE x.op = "join"
    BY <2>1 DEF Needs
  <2>2. CASE x.op = "close"
    BY <2>2 DEF Needs, Handles
  <2>3. CASE x.op = "drop"
    BY <2>3 DEF Needs
  <2>4. CASE x.op \in {"setup", "cleanup"}
    BY <2>4 DEF Needs
  <2> QED
    BY <2>1, <2>2, <2>3, <2>4
<1>4. u = After(c, x, s)
  <2>1. /\ x.op \notin PointOps
        /\ ~(x.op = "join" /\ x.on = {"AudioPing"})
        /\ ~(x.op \in {"close", "initialize"} /\ x.on = {"audio"})
    BY DEF PointOps, LastOps
  <2>2. u = AfterHold(x, s)
    BY <1>2 DEF AfterHold
  <2> QED
    BY <2>1, <2>2 DEF After
<1>5. x.op \notin FailOps
  BY DEF FailOps
<1> QED
  BY <1>1, <1>3, <1>4, <1>5, OneUndoes DEF s, u

LEMMA JoinStep ==
  ASSUME NEW c, NEW n \in 7..11, NEW ts, NEW hs, NEW rs, NEW rfi,
         Served(c, ts, hs, rs), NEW t \in Threads \ {"AudioPing"}
  PROVE  /\ Served(c, ts \ {t}, hs, rs)
         /\ Undoes(c, <<Join(t)>>, With(n, ts, hs, rs, rfi),
                   With(n, ts \ {t}, hs, rs, rfi))
<1>1. Served(c, ts \ {t}, hs, rs)
  BY FewerServed
<1>2. Join(t).op = "join" /\ Join(t).on = {t}
  BY DEF Join, Step
<1>3. Undoes(c, <<Join(t)>>, With(n, ts, hs, rs, rfi),
             With(n, ts \ {t}, hs, rs, rfi))
  BY <1>1, <1>2, HoldStep
<1> QED
  BY <1>1, <1>3

(* A thread that is interrupted and joined                                 *)
LEMMA StopThreadStep ==
  ASSUME NEW c, NEW n \in 7..11, NEW ts, NEW hs, NEW rs, NEW rfi,
         Served(c, ts, hs, rs), NEW t \in Threads \ {"AudioPing"}
  PROVE  /\ Served(c, ts \ {t}, hs, rs)
         /\ Undoes(c, StopThread(t), With(n, ts, hs, rs, rfi),
                   With(n, ts \ {t}, hs, rs, rfi))
<1> DEFINE s == With(n, ts, hs, rs, rfi)
<1>1. Undoes(c, <<Cancel({t})>>, s, s)
  BY WithServed, IdleStep
<1>2. /\ Served(c, ts \ {t}, hs, rs)
      /\ Undoes(c, <<Join(t)>>, s, With(n, ts \ {t}, hs, rs, rfi))
  BY JoinStep
<1>3. StopThread(t) = <<Cancel({t})>> \o <<Join(t)>>
  BY DEF StopThread
<1> QED
  BY <1>1, <1>2, <1>3, UndoesThen

LEMMA CloseStep ==
  ASSUME NEW c, NEW n \in 7..11, NEW ts, NEW hs, NEW rs, NEW rfi,
         Served(c, ts, hs, rs),
         NEW h \in {"control", "video", "firstFrame", "input"},
         Served(c, ts, hs \ {h}, rs)
  PROVE  Undoes(c, <<Close(h)>>, With(n, ts, hs, rs, rfi),
                With(n, ts, hs \ {h}, rs, rfi))
<1>1. Close(h).op = "close" /\ Close(h).on = {h}
  BY DEF Close, Step
<1> QED
  BY <1>1, HoldStep

LEMMA DropStep ==
  ASSUME NEW c, NEW n \in 7..11, NEW ts, NEW hs, NEW rs, NEW rfi,
         Served(c, ts, hs, rs), NEW h \in {"audio", "video"},
         Served(c, ts, hs \ {h}, rs)
  PROVE  Undoes(c, <<Drop(h)>>, With(n, ts, hs, rs, rfi),
                With(n, ts, hs \ {h}, rs, rfi))
<1>1. Drop(h).op = "drop" /\ Drop(h).on = {h}
  BY DEF Drop, Step
<1> QED
  BY <1>1, HoldStep

LEMMA SetupStep ==
  ASSUME NEW c, NEW n \in 7..11, NEW ts, NEW hs, NEW rs, NEW rfi,
         Served(c, ts, hs, rs), NEW r \in Renderers
  PROVE  /\ Served(c, ts, hs, rs \cup {r})
         /\ Undoes(c, <<Call("setup", r)>>, With(n, ts, hs, rs, rfi),
                   With(n, ts, hs, rs \cup {r}, rfi))
<1>1. Call("setup", r).op = "setup" /\ Call("setup", r).on = {r}
  BY DEF Call, Step
<1>2. Served(c, ts, hs, rs \cup {r})
  BY DEF Served
<1> QED
  BY <1>1, <1>2, HoldStep

LEMMA CleanupStep ==
  ASSUME NEW c, NEW n \in 7..11, NEW ts, NEW hs, NEW rs, NEW rfi,
         Served(c, ts, hs, rs), NEW r \in Renderers,
         Served(c, ts, hs, rs \ {r})
  PROVE  Undoes(c, <<Call("cleanup", r)>>, With(n, ts, hs, rs, rfi),
                With(n, ts, hs, rs \ {r}, rfi))
<1>1. Call("cleanup", r).op = "cleanup" /\ Call("cleanup", r).on = {r}
  BY DEF Call, Step
<1> QED
  BY <1>1, HoldStep

(* When n stages are complete there is nothing to give up.                 *)
LEMMA CompleteSettled ==
  ASSUME NEW c, NEW n \in 7..11, NEW rfi
  PROVE  /\ Settled(c, Complete(c, n, rfi)) /\ GivenUp(c, Complete(c, n, rfi))
         /\ Complete(c, n, rfi).stage = n
BY DEF Settled, GivenUp, AtStage, Complete, With, AudioAt

LEMMA CreateStep ==
  ASSUME NEW c, NEW n \in 7..10, NEW ts, NEW hs, NEW rs, NEW rfi,
         Served(c, ts, hs, rs), NEW t \in Threads \ {"AudioPing"},
         Served(c, ts \cup {t}, hs, rs), NEW undo,
         Undoes(c, undo, With(n, ts, hs, rs, rfi), Complete(c, n, rfi))
  PROVE  Leads(c, <<Create(t, undo)>>, With(n, ts, hs, rs, rfi),
               With(n, ts \cup {t}, hs, rs, rfi))
<1> DEFINE s == With(n, ts, hs, rs, rfi)
           u == With(n, ts \cup {t}, hs, rs, rfi)
           x == Create(t, undo)
<1>1. x.op = "create" /\ x.on = {t} /\ x.undo = undo
  BY DEF Create, Step
<1>2. UsersServed(c, s) /\ UsersServed(c, u)
  BY WithServed
<1>3. Holding(s, s.threads \cup {t}, s.handles, s.parts, s.renderers) = u
  BY DEF With, Holding
<1>4. MayFail(c, x, s)
  BY <1>1, CompleteSettled, n \in 7..11 DEF MayFail
<1> HIDE DEF s, u, x
<1>5. Needs(c, x, s)
  BY <1>1 DEF Needs
<1>6. u = After(c, x, s)
  BY <1>1, <1>3 DEF After, AfterHold, PointOps, LastOps
<1> QED
  BY <1>2, <1>4, <1>5, <1>6, OneLeads DEF s, u, x

LEMMA OpenStep ==
  ASSUME NEW c, NEW n \in 7..10, NEW ts, NEW hs, NEW rs, NEW rfi,
         Served(c, ts, hs, rs),
         NEW h \in {"control", "video", "firstFrame", "input"}, NEW undo,
         Undoes(c, undo, With(n, ts, hs, rs, rfi), Complete(c, n, rfi))
  PROVE  /\ Served(c, ts, hs \cup {h}, rs)
         /\ Leads(c, <<Open(h, undo)>>, With(n, ts, hs, rs, rfi),
                  With(n, ts, hs \cup {h}, rs, rfi))
<1> DEFINE s == With(n, ts, hs, rs, rfi)
           u == With(n, ts, hs \cup {h}, rs, rfi)
           x == Open(h, undo)
<1>1. x.op = "open" /\ x.on = {h} /\ x.undo = undo
  BY DEF Open, Step
<1>7. Served(c, ts, hs \cup {h}, rs)
  BY DEF Served
<1>2. UsersServed(c, s) /\ UsersServed(c, u)
  BY <1>7, WithServed
<1>3. Holding(s, s.threads, s.handles \cup {h}, s.parts, s.renderers) = u
  BY DEF With, Holding
<1>4. MayFail(c, x, s)
  BY <1>1, CompleteSettled, n \in 7..11 DEF MayFail
<1> HIDE DEF s, u, x
<1>5. Needs(c, x, s)
  BY <1>1 DEF Needs, Handles
<1>6. u = After(c, x, s)
  BY <1>1, <1>3 DEF After, AfterHold, PointOps, LastOps
<1> QED
  BY <1>7, <1>2, <1>4, <1>5, <1>6, OneLeads DEF s, u, x

LEMMA AttemptStep_ ==
  ASSUME NEW c, NEW n \in 7..10, NEW ts, NEW hs, NEW rs, NEW rfi,
         Served(c, ts, hs, rs), NEW what, NEW undo,
         Undoes(c, undo, With(n, ts, hs, rs, rfi), Complete(c, n, rfi))
  PROVE  Leads(c, <<Attempt(what, undo)>>, With(n, ts, hs, rs, rfi),
               With(n, ts, hs, rs, rfi))
<1> DEFINE s == With(n, ts, hs, rs, rfi)
           x == Attempt(what, undo)
<1>1. x.op = "attempt" /\ x.undo = undo
  BY DEF Attempt, Step
<1>2. UsersServed(c, s)
  BY WithServed
<1>3. MayFail(c, x, s)
  BY <1>1, CompleteSettled, n \in 7..11 DEF MayFail
<1> HIDE DEF s, x
<1>4. Needs(c, x, s)
  BY <1>1 DEF Needs
<1>5. After(c, x, s) = s
  BY <1>1 DEF After, AfterHold, PointOps, LastOps
<1> QED
  BY <1>2, <1>3, <1>4, <1>5, OneLeads DEF s, x

(* The end of a stage                                                      *)
LEMMA StageStep ==
  ASSUME NEW c, NEW n \in 8..11, NEW rfi, NEW name,
         Served(c, ThreadsAt(c, n, rfi), HandlesAt(c, n), RenderersAt(n))
  PROVE  Leads(c, <<Step("complete", {name}, <<>>)>>,
               With(n - 1, ThreadsAt(c, n, rfi), HandlesAt(c, n),
                    RenderersAt(n), rfi),
               Complete(c, n, rfi))
<1> DEFINE s == With(n - 1, ThreadsAt(c, n, rfi), HandlesAt(c, n),
                     RenderersAt(n), rfi)
           u == Complete(c, n, rfi)
           x == Step("complete", {name}, <<>>)
<1>1. x.op = "complete"
  BY DEF Step
<1>2. PartsAt(n - 1) = PartsAt(n)
  BY DEF PartsAt
<1>3. s.stage = n - 1 /\ AtPoint(s, s.stage + 1, s.audio, s.rtsp) = u
  <2>1. (n - 1) + 1 = n
    OBVIOUS
  <2>2. /\ s.stage = n - 1 /\ s.audio = "bound" /\ s.rtsp = "done"
        /\ s.threads = ThreadsAt(c, n, rfi) /\ s.handles = HandlesAt(c, n)
        /\ s.renderers = RenderersAt(n) /\ s.parts = PartsAt(n - 1)
        /\ s.streams = TRUE /\ s.rfi = rfi
    BY DEF With
  <2>3. AtPoint(s, n, "bound", "done") = u
    BY <1>2, <2>2 DEF AtPoint, With, Complete
  <2> QED
    BY <2>1, <2>2, <2>3
<1>4. UsersServed(c, s) /\ UsersServed(c, u)
  <2>1. n - 1 \in 7..11 /\ n \in 7..11
    OBVIOUS
  <2>2. UsersServed(c, s)
    BY <2>1, WithServed
  <2>3. UsersServed(c, u)
    BY <2>1, WithServed DEF Complete
  <2> QED
    BY <2>2, <2>3
<1>5. AtStage(c, u)
  BY CompleteSettled, n \in 7..11 DEF Settled
<1> HIDE DEF s, u, x
<1>6. Needs(c, x, s)
  BY <1>1, <1>3, <1>5 DEF Needs
<1>7. u = After(c, x, s)
  BY <1>1, <1>3 DEF After, AfterPoint, PointOps, LastOps
<1>8. MayFail(c, x, s)
  BY <1>1 DEF MayFail, FailOps
<1> QED
  BY <1>4, <1>6, <1>7, <1>8, OneLeads DEF s, u, x

(* How a tuple is put together                                             *)
LEMMA Tuples2 ==
  ASSUME NEW a, NEW b
  PROVE  <<a, b>> = <<a>> \o <<b>>
<1> DEFINE p == <<a, b>>
           q == <<a>>
           r == <<b>>
<1>1. /\ p \in Seq({a, b}) /\ q \in Seq({a, b}) /\ r \in Seq({a, b})
      /\ Len(p) = 2 /\ Len(q) = 1 /\ Len(r) = 1
      /\ p[1] = a /\ p[2] = b /\ q[1] = a /\ r[1] = b
  OBVIOUS
<1> HIDE DEF p, q, r
<1>2. /\ q \o r \in Seq({a, b}) /\ Len(q \o r) = 2
      /\ \A i \in 1..2 : (q \o r)[i] = IF i <= 1 THEN q[i] ELSE r[i - 1]
  BY <1>1, ConcatProperties
<1>3. p = q \o r
  BY <1>1, <1>2, SeqEqual
<1> QED
  BY <1>3 DEF p, q, r

LEMMA Tuples3 ==
  ASSUME NEW a, NEW b, NEW d
  PROVE  <<a, b, d>> = <<a>> \o <<b, d>>
BY SMTT(60)

(* A program of that many steps leads from the first to the last of the    *)
(* situations between them.                                                *)
LEMMA Leads2 ==
  ASSUME NEW k, NEW a, NEW b, NEW s0, NEW s1, NEW s2,
         Leads(k, <<a>>, s0, s1), Leads(k, <<b>>, s1, s2)
  PROVE  Leads(k, <<a, b>>, s0, s2)
<1> DEFINE p == <<a>>
           q == <<b>>
<1>1. <<a, b>> = p \o q
  BY Tuples2
<1>2. Leads(k, p, s0, s1) /\ Leads(k, q, s1, s2)
  OBVIOUS
<1> HIDE DEF p, q
<1>3. Leads(k, p \o q, s0, s2)
  BY <1>2, LeadsThen
<1> QED
  BY <1>1, <1>3

LEMMA Leads3 ==
  ASSUME NEW k, NEW a, NEW b, NEW d, NEW s0, NEW s1, NEW s2, NEW s3,
         Leads(k, <<a>>, s0, s1), Leads(k, <<b>>, s1, s2),
         Leads(k, <<d>>, s2, s3)
  PROVE  Leads(k, <<a, b, d>>, s0, s3)
<1> DEFINE p == <<a>>
           q == <<b, d>>
<1>1. Leads(k, q, s1, s3)
  BY Leads2
<1>2. <<a, b, d>> = p \o q
  BY Tuples3
<1> HIDE DEF p, q
<1>3. Leads(k, p, s0, s1)
  BY DEF p
<1>4. Leads(k, p \o q, s0, s3)
  BY <1>1, <1>3, LeadsThen
<1> QED
  BY <1>2, <1>4

LEMMA Leads4 ==
  ASSUME NEW k, NEW a, NEW b, NEW d, NEW e,
         NEW s0, NEW s1, NEW s2, NEW s3, NEW s4,
         Leads(k, <<a>>, s0, s1), Leads(k, <<b>>, s1, s2),
         Leads(k, <<d>>, s2, s3), Leads(k, <<e>>, s3, s4)
  PROVE  Leads(k, <<a, b, d, e>>, s0, s4)
<1>1. Leads(k, <<a, b>>, s0, s2)
  BY Leads2
<1>2. Leads(k, <<d, e>>, s2, s4)
  BY Leads2
<1>3. Leads(k, <<a, b>> \o <<d, e>>, s0, s4)
  BY <1>1, <1>2, LeadsThen
<1>4. <<a, b, d, e>> = <<a, b>> \o <<d, e>>
  BY SMTT(60)
<1> QED
  BY <1>3, <1>4

LEMMA Leads5 ==
  ASSUME NEW k, NEW a, NEW b, NEW d, NEW e, NEW f,
         NEW s0, NEW s1, NEW s2, NEW s3, NEW s4, NEW s5,
         Leads(k, <<a>>, s0, s1), Leads(k, <<b>>, s1, s2),
         Leads(k, <<d>>, s2, s3), Leads(k, <<e>>, s3, s4),
         Leads(k, <<f>>, s4, s5)
  PROVE  Leads(k, <<a, b, d, e, f>>, s0, s5)
<1>1. Leads(k, <<a, b>>, s0, s2)
  BY Leads2
<1>2. Leads(k, <<d, e, f>>, s2, s5)
  BY Leads3
<1>3. Leads(k, <<a, b>> \o <<d, e, f>>, s0, s5)
  BY <1>1, <1>2, LeadsThen
<1>4. <<a, b, d, e, f>> = <<a, b>> \o <<d, e, f>>
  BY SMTT(60)
<1> QED
  BY <1>3, <1>4

LEMMA Leads6 ==
  ASSUME NEW k, NEW a, NEW b, NEW d, NEW e, NEW f, NEW g,
         NEW s0, NEW s1, NEW s2, NEW s3, NEW s4, NEW s5, NEW s6,
         Leads(k, <<a>>, s0, s1), Leads(k, <<b>>, s1, s2),
         Leads(k, <<d>>, s2, s3), Leads(k, <<e>>, s3, s4),
         Leads(k, <<f>>, s4, s5), Leads(k, <<g>>, s5, s6)
  PROVE  Leads(k, <<a, b, d, e, f, g>>, s0, s6)
<1>1. Leads(k, <<a, b, d>>, s0, s3)
  BY Leads3
<1>2. Leads(k, <<e, f, g>>, s3, s6)
  BY Leads3
<1>3. Leads(k, <<a, b, d>> \o <<e, f, g>>, s0, s6)
  BY <1>1, <1>2, LeadsThen
<1>4. <<a, b, d, e, f, g>> = <<a, b, d>> \o <<e, f, g>>
  BY SMTT(60)
<1> QED
  BY <1>3, <1>4

LEMMA Leads8 ==
  ASSUME NEW k, NEW a, NEW b, NEW d, NEW e, NEW f, NEW g, NEW h, NEW i,
         NEW s0, NEW s1, NEW s2, NEW s3, NEW s4, NEW s5, NEW s6, NEW s7, NEW s8,
         Leads(k, <<a>>, s0, s1), Leads(k, <<b>>, s1, s2),
         Leads(k, <<d>>, s2, s3), Leads(k, <<e>>, s3, s4),
         Leads(k, <<f>>, s4, s5), Leads(k, <<g>>, s5, s6),
         Leads(k, <<h>>, s6, s7), Leads(k, <<i>>, s7, s8)
  PROVE  Leads(k, <<a, b, d, e, f, g, h, i>>, s0, s8)
<1>1. Leads(k, <<a, b, d, e>>, s0, s4)
  BY Leads4
<1>2. Leads(k, <<f, g, h, i>>, s4, s8)
  BY Leads4
<1>3. Leads(k, <<a, b, d, e>> \o <<f, g, h, i>>, s0, s8)
  BY <1>1, <1>2, LeadsThen
<1>4. <<a, b, d, e, f, g, h, i>> = <<a, b, d, e>> \o <<f, g, h, i>>
  BY SMTT(60)
<1> QED
  BY <1>3, <1>4

LEMMA Undoes2 ==
  ASSUME NEW k, NEW a, NEW b, NEW s0, NEW s1, NEW s2,
         Undoes(k, <<a>>, s0, s1), Undoes(k, <<b>>, s1, s2)
  PROVE  Undoes(k, <<a, b>>, s0, s2)
<1> DEFINE p == <<a>>
           q == <<b>>
<1>1. <<a, b>> = p \o q
  BY Tuples2
<1>2. Undoes(k, p, s0, s1) /\ Undoes(k, q, s1, s2)
  OBVIOUS
<1> HIDE DEF p, q
<1>3. Undoes(k, p \o q, s0, s2)
  BY <1>2, UndoesThen
<1> QED
  BY <1>1, <1>3

LEMMA Undoes3 ==
  ASSUME NEW k, NEW a, NEW b, NEW d, NEW s0, NEW s1, NEW s2, NEW s3,
         Undoes(k, <<a>>, s0, s1), Undoes(k, <<b>>, s1, s2),
         Undoes(k, <<d>>, s2, s3)
  PROVE  Undoes(k, <<a, b, d>>, s0, s3)
<1> DEFINE p == <<a>>
           q == <<b, d>>
<1>1. Undoes(k, q, s1, s3)
  BY Undoes2
<1>2. <<a, b, d>> = p \o q
  BY Tuples3
<1> HIDE DEF p, q
<1>3. Undoes(k, p, s0, s1)
  BY DEF p
<1>4. Undoes(k, p \o q, s0, s3)
  BY <1>1, <1>3, UndoesThen
<1> QED
  BY <1>2, <1>4

LEMMA Undoes5 ==
  ASSUME NEW k, NEW a, NEW b, NEW d, NEW e, NEW f,
         NEW s0, NEW s1, NEW s2, NEW s3, NEW s4, NEW s5,
         Undoes(k, <<a>>, s0, s1), Undoes(k, <<b>>, s1, s2),
         Undoes(k, <<d>>, s2, s3), Undoes(k, <<e>>, s3, s4),
         Undoes(k, <<f>>, s4, s5)
  PROVE  Undoes(k, <<a, b, d, e, f>>, s0, s5)
<1>1. Undoes(k, <<a, b>>, s0, s2)
  BY Undoes2
<1>2. Undoes(k, <<d, e, f>>, s2, s5)
  BY Undoes3
<1>3. Undoes(k, <<a, b>> \o <<d, e, f>>, s0, s5)
  BY <1>1, <1>2, UndoesThen
<1>4. <<a, b, d, e, f>> = <<a, b>> \o <<d, e, f>>
  BY SMTT(60)
<1> QED
  BY <1>3, <1>4

(***************************************************************************)
(* The control stream                                                      *)
(***************************************************************************)

LEMMA AtSeven ==
  ASSUME NEW c, NEW rfi
  PROVE  /\ Complete(c, 7, rfi) = With(7, {}, {}, {}, rfi)
         /\ Served(c, {}, {}, {})
<1>1. ThreadsAt(c, 7, rfi) = {} /\ HandlesAt(c, 7) = {} /\ RenderersAt(7) = {}
  BY DEF ThreadsAt, HandlesAt, RenderersAt
<1> QED
  BY <1>1 DEF Complete, Served

LEMMA ControlServed ==
  ASSUME NEW c, NEW ts, ts \subseteq ControlThreads(TRUE)
  PROVE  Served(c, ts, {"control"}, {})
BY DEF Served, ControlThreads

LEMMA ControlUndone ==
  ASSUME NEW rfi, NEW signals \in SUBSET Signals, NEW joins,
         NEW ts \in SUBSET ControlThreads(TRUE),
         Undoes(conf, joins, With(7, ts, {"control"}, {}, rfi),
                With(7, {}, {"control"}, {}, rfi))
  PROVE  Undoes(conf,
           <<Signal({"stopping"} \cup signals
                    \cup (IF OnTcp THEN {"ctlSock"} ELSE {}))>>
           \o When(~OnTcp, <<Interrupt>>) \o joins \o <<Close("control")>>,
           With(7, ts, {"control"}, {}, rfi), Complete(conf, 7, rfi))
<1> DEFINE qs == {"stopping"} \cup signals
                   \cup (IF OnTcp THEN {"ctlSock"} ELSE {})
           s == With(7, ts, {"control"}, {}, rfi)
<1>1. Served(conf, ts, {"control"}, {}) /\ Served(conf, {}, {"control"}, {})
  BY ControlServed
<1>2. UsersServed(conf, s)
  BY <1>1, WithServed
<1>3. qs \in SUBSET Signals
  <2>1. {"stopping", "ctlSock"} \subseteq Signals
    BY DEF Signals
  <2> QED
    BY <2>1
<1> HIDE DEF qs
<1>4. Undoes(conf, <<Signal(qs)>>, s, s)
  BY <1>2, <1>3, IdleStep
<1>5. Undoes(conf, When(~OnTcp, <<Interrupt>>), s, s)
  BY <1>2, IdleStep, NoStep DEF When
<1>6. Undoes(conf, <<Close("control")>>, With(7, {}, {"control"}, {}, rfi),
             With(7, {}, {}, {}, rfi))
  <2>1. {"control"} \ {"control"} = {}
    OBVIOUS
  <2>2. 7 \in 7..11
    OBVIOUS
  <2> QED
    BY <1>1, <2>1, <2>2, AtSeven, CloseStep
<1>7. Undoes(conf, <<Signal(qs)>> \o When(~OnTcp, <<Interrupt>>), s, s)
  BY <1>4, <1>5, UndoesThen
<1>8. Undoes(conf, <<Signal(qs)>> \o When(~OnTcp, <<Interrupt>>) \o joins, s,
             With(7, {}, {"control"}, {}, rfi))
  BY <1>7, UndoesThen
<1>9. Undoes(conf, <<Signal(qs)>> \o When(~OnTcp, <<Interrupt>>) \o joins
                     \o <<Close("control")>>, s, With(7, {}, {}, {}, rfi))
  BY <1>6, <1>8, UndoesThen
<1> QED
  BY <1>9, AtSeven DEF qs

(* startControlStream, but for its end                                     *)
LEMMA ControlStarts ==
  ASSUME NEW rfi \in BOOLEAN
  PROVE
    LET Undo_(signals, joins) ==
          <<Signal({"stopping"} \cup signals
                   \cup (IF OnTcp THEN {"ctlSock"} ELSE {}))>>
          \o When(~OnTcp, <<Interrupt>>) \o joins \o <<Close("control")>>
        recv == StopThread("ControlRecv")
        both == StopThread("LossStats") \o recv
        three == both \o StopThread("ReqIdrFrame")
        idr == {"idrFrameRequiredEvent"}
    IN  /\ Leads(conf,
             <<Assume("controlPort"),
               Open("control", <<Signal({"stopping"})>>),
               Create("ControlRecv", <<Signal({"stopping"}), Close("control")>>),
               Attempt("start A", Undo_({}, recv)),
               Attempt("start B", Undo_({}, recv)),
               Create("LossStats", Undo_({}, recv)),
               Create("ReqIdrFrame", Undo_({}, both)),
               Create("CtrlAsyncCb", Undo_(idr, three))>>,
             With(7, {}, {}, {}, rfi),
             With(7, ControlThreads(FALSE), {"control"}, {}, rfi))
        /\ Leads(conf,
             <<Create("InvRefFrames",
                      Undo_(idr \cup {"asyncCallbackQueue"},
                            three \o StopThread("CtrlAsyncCb")))>>,
             With(7, ControlThreads(FALSE), {"control"}, {}, rfi),
             With(7, ControlThreads(TRUE), {"control"}, {}, rfi))
<1> DEFINE Undo_(signals, joins) ==
             <<Signal({"stopping"} \cup signals
                      \cup (IF OnTcp THEN {"ctlSock"} ELSE {}))>>
             \o When(~OnTcp, <<Interrupt>>) \o joins \o <<Close("control")>>
           recv == StopThread("ControlRecv")
           both == StopThread("LossStats") \o recv
           three == both \o StopThread("ReqIdrFrame")
           four == three \o StopThread("CtrlAsyncCb")
           idr == {"idrFrameRequiredEvent"}
           W(ts) == With(7, ts, {"control"}, {}, rfi)
           C7 == Complete(conf, 7, rfi)
           t1 == {"ControlRecv"}
           t2 == {"ControlRecv", "LossStats"}
           t3 == {"ControlRecv", "LossStats", "ReqIdrFrame"}
           t4 == {"ControlRecv", "LossStats", "ReqIdrFrame", "CtrlAsyncCb"}
<1>1. 7 \in 7..11 /\ 7 \in 7..10
  OBVIOUS
<1>2. /\ t1 \in SUBSET ControlThreads(TRUE) /\ t2 \in SUBSET ControlThreads(TRUE)
      /\ t3 \in SUBSET ControlThreads(TRUE) /\ t4 \in SUBSET ControlThreads(TRUE)
      /\ t4 = ControlThreads(FALSE)
      /\ t1 \cup {"LossStats"} = t2 /\ t2 \cup {"ReqIdrFrame"} = t3
      /\ t3 \cup {"CtrlAsyncCb"} = t4
      /\ t4 \cup {"InvRefFrames"} = ControlThreads(TRUE)
      /\ {} \cup t1 = t1
  BY DEF ControlThreads
<1>3. \A ts \in SUBSET ControlThreads(TRUE) : Served(conf, ts, {"control"}, {})
  BY ControlServed
<1>4. \A t \in ControlThreads(TRUE) : t \in Threads \ {"AudioPing"}
  BY DEF ControlThreads, Threads
<1>5. \A ts \in SUBSET ControlThreads(TRUE) : UsersServed(conf, W(ts))
  BY <1>1, <1>3, WithServed
<1> HIDE DEF t1, t2, t3, t4
<1>6. \A ts \in SUBSET ControlThreads(TRUE), t \in ControlThreads(TRUE) :
        Undoes(conf, StopThread(t), W(ts), W(ts \ {t}))
  BY <1>1, <1>3, <1>4, StopThreadStep
<1>7. Undoes(conf, recv, W(t1), W({}))
  <2>1. t1 \ {"ControlRecv"} = {} /\ "ControlRecv" \in ControlThreads(TRUE)
    BY DEF t1, ControlThreads
  <2> QED
    BY <1>2, <1>6, <2>1
<1>8. Undoes(conf, both, W(t2), W({}))
  <2>1. t2 \ {"LossStats"} = t1 /\ "LossStats" \in ControlThreads(TRUE)
    BY DEF t1, t2, ControlThreads
  <2>2. Undoes(conf, StopThread("LossStats"), W(t2), W(t1))
    BY <1>2, <1>6, <2>1
  <2> QED
    BY <1>7, <2>2, UndoesThen
<1>9. Undoes(conf, both, W(t3), W({"ReqIdrFrame"}))
  <2>1. /\ t3 \ {"LossStats"} = {"ControlRecv", "ReqIdrFrame"}
        /\ {"ControlRecv", "ReqIdrFrame"} \ {"ControlRecv"} = {"ReqIdrFrame"}
        /\ {"LossStats", "ControlRecv"} \subseteq ControlThreads(TRUE)
        /\ {"ControlRecv", "ReqIdrFrame"} \subseteq ControlThreads(TRUE)
    BY DEF t3, ControlThreads
  <2>2. Undoes(conf, StopThread("LossStats"), W(t3),
               W({"ControlRecv", "ReqIdrFrame"}))
    BY <1>2, <1>6, <2>1
  <2>3. Undoes(conf, recv, W({"ControlRecv", "ReqIdrFrame"}),
               W({"ReqIdrFrame"}))
    BY <1>6, <2>1
  <2> QED
    BY <2>2, <2>3, UndoesThen
<1>10. Undoes(conf, three, W(t3), W({}))
  <2>1. /\ {"ReqIdrFrame"} \ {"ReqIdrFrame"} = {}
        /\ {"ReqIdrFrame"} \subseteq ControlThreads(TRUE)
    BY DEF ControlThreads
  <2>2. Undoes(conf, StopThread("ReqIdrFrame"), W({"ReqIdrFrame"}), W({}))
    BY <1>6, <2>1
  <2> QED
    BY <1>9, <2>2, UndoesThen
<1>11. Undoes(conf, four, W(t4), W({}))
  <2> DEFINE a == {"ControlRecv", "ReqIdrFrame", "CtrlAsyncCb"}
             b == {"ReqIdrFrame", "CtrlAsyncCb"}
             d == {"CtrlAsyncCb"}
  <2>1. /\ t4 \ {"LossStats"} = a /\ a \ {"ControlRecv"} = b
        /\ b \ {"ReqIdrFrame"} = d /\ d \ {"CtrlAsyncCb"} = {}
        /\ {"LossStats", "ControlRecv", "ReqIdrFrame", "CtrlAsyncCb"}
             \subseteq ControlThreads(TRUE)
        /\ a \subseteq ControlThreads(TRUE) /\ b \subseteq ControlThreads(TRUE)
        /\ d \subseteq ControlThreads(TRUE)
    BY DEF t4, ControlThreads
  <2> HIDE DEF a, b, d
  <2>2. Undoes(conf, StopThread("LossStats"), W(t4), W(a))
    BY <1>2, <1>6, <2>1
  <2>3. Undoes(conf, recv, W(a), W(b))
    BY <1>6, <2>1
  <2>4. Undoes(conf, StopThread("ReqIdrFrame"), W(b), W(d))
    BY <1>6, <2>1
  <2>5. Undoes(conf, StopThread("CtrlAsyncCb"), W(d), W({}))
    BY <1>6, <2>1
  <2>6. Undoes(conf, both, W(t4), W(b))
    BY <2>2, <2>3, UndoesThen
  <2>7. Undoes(conf, three, W(t4), W(d))
    BY <2>4, <2>6, UndoesThen
  <2> QED
    BY <2>5, <2>7, UndoesThen
<1> HIDE DEF recv, both, three, four
<1>12. ASSUME NEW signals \in SUBSET Signals, NEW joins,
              NEW ts \in SUBSET ControlThreads(TRUE),
              Undoes(conf, joins, W(ts), W({}))
       PROVE  Undoes(conf, Undo_(signals, joins), W(ts), C7)
  BY <1>12, ControlUndone
<1>13. /\ {} \in SUBSET Signals /\ idr \in SUBSET Signals
       /\ idr \cup {"asyncCallbackQueue"} \in SUBSET Signals
       /\ {"stopping"} \in SUBSET Signals
  BY DEF Signals
<1> HIDE DEF idr
<1>14. /\ Undoes(conf, Undo_({}, recv), W(t1), C7)
       /\ Undoes(conf, Undo_({}, both), W(t2), C7)
       /\ Undoes(conf, Undo_(idr, three), W(t3), C7)
       /\ Undoes(conf, Undo_(idr \cup {"asyncCallbackQueue"}, four), W(t4), C7)
  <2> HIDE DEF Undo_, C7, W
  <2> QED
    BY <1>2, <1>7, <1>8, <1>10, <1>11, <1>12, <1>13
<1> DEFINE u1 == Undo_({}, recv)
           u2 == Undo_({}, both)
           u3 == Undo_(idr, three)
           u4 == Undo_(idr \cup {"asyncCallbackQueue"}, four)
<1> HIDE DEF Undo_
<1>15. Undoes(conf, u1, W(t1), C7) /\ Undoes(conf, u2, W(t2), C7)
       /\ Undoes(conf, u3, W(t3), C7) /\ Undoes(conf, u4, W(t4), C7)
  BY <1>14
<1> HIDE DEF u1, u2, u3, u4
<1>16. ASSUME NEW ts \in SUBSET ControlThreads(TRUE),
              NEW us \in SUBSET ControlThreads(TRUE),
              NEW t \in Threads \ {"AudioPing"}, us = ts \cup {t},
              NEW undo, Undoes(conf, undo, W(ts), C7)
       PROVE  Leads(conf, <<Create(t, undo)>>, W(ts), W(us))
  <2>1. Served(conf, ts, {"control"}, {}) /\ Served(conf, us, {"control"}, {})
    BY <1>3
  <2> QED
    BY <1>1, <1>16, <2>1, CreateStep
<1>20. Leads(conf, <<Assume("controlPort")>>, With(7, {}, {}, {}, rfi),
             With(7, {}, {}, {}, rfi))
  <2>1. UsersServed(conf, With(7, {}, {}, {}, rfi))
    BY <1>1, AtSeven, WithServed
  <2> QED
    BY <2>1, IdleStep, UndoesLeads
<1>21. Leads(conf, <<Open("control", <<Signal({"stopping"})>>)>>,
             With(7, {}, {}, {}, rfi), W({}))
  <2>1. Undoes(conf, <<Signal({"stopping"})>>, With(7, {}, {}, {}, rfi), C7)
    BY <1>1, <1>13, AtSeven, WithServed, IdleStep
  <2>2. {} \cup {"control"} = {"control"}
    OBVIOUS
  <2> QED
    BY <1>1, <2>1, <2>2, AtSeven, OpenStep
<1>22. Leads(conf, <<Create("ControlRecv",
                            <<Signal({"stopping"}), Close("control")>>)>>,
             W({}), W(t1))
  <2>1. Undoes(conf, <<Signal({"stopping"})>>, W({}), W({}))
    BY <1>5, <1>13, IdleStep
  <2>2. Undoes(conf, <<Close("control")>>, W({}), C7)
    <3>1. {"control"} \ {"control"} = {}
      OBVIOUS
    <3>2. Served(conf, {}, {"control"}, {}) /\ Served(conf, {}, {}, {})
      BY <1>3, AtSeven
    <3>3. Undoes(conf, <<Close("control")>>, W({}), With(7, {}, {}, {}, rfi))
      BY <1>1, <3>1, <3>2, CloseStep
    <3> QED
      BY <3>3, AtSeven
  <2>3. Undoes(conf, <<Signal({"stopping"}), Close("control")>>, W({}), C7)
    BY <2>1, <2>2, Undoes2
  <2>4. {} \cup {"ControlRecv"} = t1 /\ "ControlRecv" \in Threads \ {"AudioPing"}
    BY DEF t1, Threads
  <2>5. {} \in SUBSET ControlThreads(TRUE)
    OBVIOUS
  <2> HIDE DEF W, C7
  <2> QED
    BY <1>2, <1>16, <2>3, <2>4, <2>5
<1>23. Leads(conf, <<Attempt("start A", u1)>>, W(t1), W(t1))
       /\ Leads(conf, <<Attempt("start B", u1)>>, W(t1), W(t1))
  BY <1>1, <1>2, <1>3, <1>15, AttemptStep_
<1>24. \A t \in {"LossStats", "ReqIdrFrame", "CtrlAsyncCb", "InvRefFrames"} :
         t \in Threads \ {"AudioPing"}
  BY DEF Threads
<1>25. /\ Leads(conf, <<Create("LossStats", u1)>>, W(t1), W(t2))
       /\ Leads(conf, <<Create("ReqIdrFrame", u2)>>, W(t2), W(t3))
       /\ Leads(conf, <<Create("CtrlAsyncCb", u3)>>, W(t3), W(t4))
       /\ Leads(conf, <<Create("InvRefFrames", u4)>>, W(t4),
                W(ControlThreads(TRUE)))
  <2> DEFINE all == ControlThreads(TRUE)
  <2>1. all \in SUBSET all
    OBVIOUS
  <2> HIDE DEF W, C7, all
  <2>2. Leads(conf, <<Create("LossStats", u1)>>, W(t1), W(t2))
    BY <1>2, <1>15, <1>16, <1>24 DEF all
  <2>3. Leads(conf, <<Create("ReqIdrFrame", u2)>>, W(t2), W(t3))
    BY <1>2, <1>15, <1>16, <1>24 DEF all
  <2>4. Leads(conf, <<Create("CtrlAsyncCb", u3)>>, W(t3), W(t4))
    BY <1>2, <1>15, <1>16, <1>24 DEF all
  <2>5. Leads(conf, <<Create("InvRefFrames", u4)>>, W(t4), W(all))
    BY <1>2, <1>15, <1>16, <1>24, <2>1 DEF all
  <2> QED
    BY <2>2, <2>3, <2>4, <2>5 DEF all
<1> DEFINE x1 == Assume("controlPort")
           x2 == Open("control", <<Signal({"stopping"})>>)
           x3 == Create("ControlRecv",
                        <<Signal({"stopping"}), Close("control")>>)
           x4 == Attempt("start A", u1)
           x5 == Attempt("start B", u1)
           x6 == Create("LossStats", u1)
           x7 == Create("ReqIdrFrame", u2)
           x8 == Create("CtrlAsyncCb", u3)
           s0 == With(7, {}, {}, {}, rfi)
<1>29. /\ Leads(conf, <<x1>>, s0, s0) /\ Leads(conf, <<x2>>, s0, W({}))
       /\ Leads(conf, <<x3>>, W({}), W(t1)) /\ Leads(conf, <<x4>>, W(t1), W(t1))
       /\ Leads(conf, <<x5>>, W(t1), W(t1)) /\ Leads(conf, <<x6>>, W(t1), W(t2))
       /\ Leads(conf, <<x7>>, W(t2), W(t3)) /\ Leads(conf, <<x8>>, W(t3), W(t4))
  BY <1>20, <1>21, <1>22, <1>23, <1>25
<1> HIDE DEF x1, x2, x3, x4, x5, x6, x7, x8, s0, W
<1>30. Leads(conf, <<x1, x2, x3, x4, x5, x6, x7, x8>>, s0, W(t4))
  BY <1>29, Leads8
<1> QED
  BY <1>2, <1>25, <1>30
  DEF x1, x2, x3, x4, x5, x6, x7, x8, s0, W, u1, u2, u3, u4, Undo_, recv,
      both, three, four, idr

LEMMA StageServed ==
  ASSUME NEW c, NEW n \in 7..11, NEW rfi
  PROVE  /\ Served(c, ThreadsAt(c, n, rfi), HandlesAt(c, n), RenderersAt(n))
         /\ UsersServed(c, Complete(c, n, rfi))
<1>1. Served(c, ThreadsAt(c, n, rfi), HandlesAt(c, n), RenderersAt(n))
  BY DEF Served, ThreadsAt, HandlesAt, RenderersAt, ControlThreads,
         VideoThreads, AudioThreads
<1> QED
  BY <1>1, WithServed DEF Complete

LEMMA AtEight ==
  ASSUME NEW c, NEW rfi
  PROVE  /\ ThreadsAt(c, 8, rfi) = ControlThreads(rfi)
         /\ HandlesAt(c, 8) = {"control"} /\ RenderersAt(8) = {}
BY DEF ThreadsAt, HandlesAt, RenderersAt

LEMMA ControlStreamStarts ==
  Leads(conf, startControlStream, Complete(conf, 7, RfiEnabled),
        With(7, ThreadsAt(conf, 8, RfiEnabled), HandlesAt(conf, 8),
             RenderersAt(8), RfiEnabled))
<1> DEFINE Undo_(signals, joins) ==
             <<Signal({"stopping"} \cup signals
                      \cup (IF OnTcp THEN {"ctlSock"} ELSE {}))>>
             \o When(~OnTcp, <<Interrupt>>) \o joins \o <<Close("control")>>
           recv == StopThread("ControlRecv")
           both == StopThread("LossStats") \o recv
           three == both \o StopThread("ReqIdrFrame")
           idr == {"idrFrameRequiredEvent"}
           p == <<Assume("controlPort"),
                  Open("control", <<Signal({"stopping"})>>),
                  Create("ControlRecv", <<Signal({"stopping"}), Close("control")>>),
                  Attempt("start A", Undo_({}, recv)),
                  Attempt("start B", Undo_({}, recv)),
                  Create("LossStats", Undo_({}, recv)),
                  Create("ReqIdrFrame", Undo_({}, both)),
                  Create("CtrlAsyncCb", Undo_(idr, three))>>
           q == <<Create("InvRefFrames",
                         Undo_(idr \cup {"asyncCallbackQueue"},
                               three \o StopThread("CtrlAsyncCb")))>>
           rfi == RfiEnabled
           W(ts) == With(7, ts, {"control"}, {}, rfi)
<1>1. startControlStream = p \o When(rfi, q)
  BY DEF startControlStream
<1>2. rfi \in BOOLEAN
  BY DEF RfiEnabled
<1>3. /\ Leads(conf, p, With(7, {}, {}, {}, rfi), W(ControlThreads(FALSE)))
      /\ Leads(conf, q, W(ControlThreads(FALSE)), W(ControlThreads(TRUE)))
  BY <1>2, ControlStarts
<1> HIDE DEF p, q, rfi
<1>4. UsersServed(conf, W(ControlThreads(FALSE)))
  <2>1. ControlThreads(FALSE) \subseteq ControlThreads(TRUE) /\ 7 \in 7..11
    BY DEF ControlThreads
  <2> QED
    BY <2>1, ControlServed, WithServed
<1>5. Leads(conf, When(rfi, q), W(ControlThreads(FALSE)), W(ControlThreads(rfi)))
  <2>1. CASE rfi
    <3>1. rfi = TRUE
      BY <1>2, <2>1
    <3>2. When(rfi, q) = q /\ ControlThreads(rfi) = ControlThreads(TRUE)
      BY <3>1 DEF When
    <3> QED
      BY <1>3, <3>2
  <2>2. CASE ~rfi
    <3>1. rfi = FALSE
      BY <1>2, <2>2
    <3>2. When(rfi, q) = <<>> /\ ControlThreads(rfi) = ControlThreads(FALSE)
      BY <3>1 DEF When
    <3> QED
      BY <1>4, <3>2, NoStep
  <2> QED
    BY <2>1, <2>2
<1>6. Leads(conf, p \o When(rfi, q), With(7, {}, {}, {}, rfi),
            W(ControlThreads(rfi)))
  BY <1>3, <1>5, LeadsThen
<1> QED
  BY <1>1, <1>6, AtSeven, AtEight DEF rfi

LEMMA ControlStreamStops ==
  Undoes(conf, stopControlStream, Complete(conf, 8, RfiEnabled),
         With(8, {}, {}, {}, RfiEnabled))
<1> DEFINE rfi == RfiEnabled
           W(ts) == With(8, ts, {"control"}, {}, rfi)
           s == W(ControlThreads(rfi))
           invRef == IF rfi THEN {"InvRefFrames"} ELSE {}
           t4 == ControlThreads(rfi)
           t3 == {"ReqIdrFrame", "ControlRecv", "CtrlAsyncCb"} \cup invRef
           t2 == {"ControlRecv", "CtrlAsyncCb"} \cup invRef
           t1 == {"CtrlAsyncCb"} \cup invRef
           four == {"LossStats", "ReqIdrFrame", "ControlRecv", "CtrlAsyncCb"}
           signals == {"stopping", "referenceFrameControlQueue",
                       "frameFecStatusQueue", "asyncCallbackQueue",
                       "idrFrameRequiredEvent"}
<1>1. 8 \in 7..11
  OBVIOUS
<1>2. /\ t4 \ {"LossStats"} = t3 /\ t3 \ {"ReqIdrFrame"} = t2
      /\ t2 \ {"ControlRecv"} = t1 /\ t1 \ {"CtrlAsyncCb"} = invRef
      /\ invRef \ {"InvRefFrames"} = {}
  BY DEF ControlThreads
<1>3. /\ t4 \subseteq ControlThreads(TRUE) /\ t3 \subseteq ControlThreads(TRUE)
      /\ t2 \subseteq ControlThreads(TRUE) /\ t1 \subseteq ControlThreads(TRUE)
      /\ invRef \subseteq ControlThreads(TRUE)
      /\ \A t \in ControlThreads(TRUE) : t \in Threads \ {"AudioPing"}
      /\ four \in SUBSET Threads /\ signals \in SUBSET Signals
      /\ {"ctlSock"} \in SUBSET Signals
      /\ four \subseteq ControlThreads(TRUE)
      /\ "InvRefFrames" \in ControlThreads(TRUE)
  BY DEF ControlThreads, Threads, Signals
<1>4. \A ts \in SUBSET ControlThreads(TRUE) : Served(conf, ts, {"control"}, {})
  BY ControlServed
<1>5. UsersServed(conf, s)
  BY <1>1, <1>3, <1>4, WithServed
<1>6. \A ts \in SUBSET ControlThreads(TRUE), t \in ControlThreads(TRUE) :
        /\ Undoes(conf, StopThread(t), W(ts), W(ts \ {t}))
        /\ Undoes(conf, <<Join(t)>>, W(ts), W(ts \ {t}))
  BY <1>1, <1>3, <1>4, StopThreadStep, JoinStep
<1>7. \A ts \in SUBSET ControlThreads(TRUE) : UsersServed(conf, W(ts))
  BY <1>1, <1>4, WithServed
<1> HIDE DEF t4, t3, t2, t1, invRef
<1>8. Undoes(conf, <<Join("LossStats")>>, W(t4), W(t3))
  BY <1>2, <1>3, <1>6
<1>9. Undoes(conf, <<Join("ReqIdrFrame")>>, W(t3), W(t2))
  BY <1>2, <1>3, <1>6
<1>10. Undoes(conf, <<Join("ControlRecv")>>, W(t2), W(t1))
  BY <1>2, <1>3, <1>6
<1>11. Undoes(conf, <<Join("CtrlAsyncCb")>>, W(t1), W(invRef))
  BY <1>2, <1>3, <1>6
<1>12. Undoes(conf, When(rfi, StopThread("InvRefFrames")), W(invRef), W({}))
  <2>1. CASE rfi
    BY <1>2, <1>3, <1>6, <2>1 DEF When
  <2>2. CASE ~rfi
    <3>1. invRef = {}
      BY <2>2 DEF invRef
    <3> QED
      BY <1>3, <1>7, <2>2, <3>1, NoStep DEF When
  <2> QED
    BY <2>1, <2>2
<1>13. Undoes(conf, <<Close("control")>>, W({}), With(8, {}, {}, {}, rfi))
  <2>1. {"control"} \ {"control"} = {}
    OBVIOUS
  <2>2. Served(conf, {}, {"control"}, {}) /\ Served(conf, {}, {}, {})
    BY <1>4, AtSeven
  <2> QED
    BY <1>1, <2>1, <2>2, CloseStep
<1> DEFINE sig == Signal(signals)
           can == Cancel(four)
           sock == <<Signal({"ctlSock"})>>
           inv == StopThread("InvRefFrames")
<1> HIDE DEF s
<1>14. /\ Undoes(conf, <<sig>>, s, s) /\ Undoes(conf, <<can>>, s, s)
       /\ Undoes(conf, <<Assume("interrupted")>>, s, s)
       /\ Undoes(conf, When(OnTcp, sock), s, s)
  <2>1. /\ Undoes(conf, <<sig>>, s, s) /\ Undoes(conf, <<can>>, s, s)
        /\ Undoes(conf, sock, s, s)
    BY <1>3, <1>5, IdleStep
  <2>2. Undoes(conf, <<Assume("interrupted")>>, s, s)
    BY <1>5, IdleStep
  <2>3. Undoes(conf, When(OnTcp, sock), s, s)
    BY <1>5, <2>1, NoStep DEF When
  <2> QED
    BY <2>1, <2>2, <2>3
<1> DEFINE asm == Assume("interrupted")
           j1 == Join("LossStats")
           j2 == Join("ReqIdrFrame")
           j3 == Join("ControlRecv")
           j4 == Join("CtrlAsyncCb")
<1>15. stopControlStream = <<sig, asm>> \o When(OnTcp, sock)
         \o <<can, j1, j2, j3, j4>> \o When(rfi, inv) \o <<Close("control")>>
  BY DEF stopControlStream
<1>16. /\ Undoes(conf, <<j1>>, s, W(t3)) /\ Undoes(conf, <<j2>>, W(t3), W(t2))
       /\ Undoes(conf, <<j3>>, W(t2), W(t1))
       /\ Undoes(conf, <<j4>>, W(t1), W(invRef))
       /\ Undoes(conf, When(rfi, inv), W(invRef), W({}))
       /\ Undoes(conf, <<asm>>, s, s)
  BY <1>8, <1>9, <1>10, <1>11, <1>12, <1>14 DEF s, t4
<1> HIDE DEF sig, can, sock, inv, asm, j1, j2, j3, j4, W
<1>17. Undoes(conf, <<sig, asm>>, s, s)
  BY <1>14, <1>16, Undoes2
<1>18. Undoes(conf, <<can, j1, j2, j3, j4>>, s, W(invRef))
  BY <1>14, <1>16, Undoes5
<1>19. Undoes(conf, <<sig, asm>> \o When(OnTcp, sock), s, s)
  BY <1>14, <1>17, UndoesThen
<1>20. Undoes(conf, <<sig, asm>> \o When(OnTcp, sock)
                \o <<can, j1, j2, j3, j4>>, s, W(invRef))
  BY <1>18, <1>19, UndoesThen
<1>21. Undoes(conf, <<sig, asm>> \o When(OnTcp, sock)
                \o <<can, j1, j2, j3, j4>> \o When(rfi, inv), s, W({}))
  BY <1>16, <1>20, UndoesThen
<1> DEFINE p == <<sig, asm>> \o When(OnTcp, sock)
                  \o <<can, j1, j2, j3, j4>> \o When(rfi, inv)
           last == <<Close("control")>>
           u == With(8, {}, {}, {}, rfi)
<1>22. /\ stopControlStream = p \o last
       /\ Undoes(conf, p, s, W({})) /\ Undoes(conf, last, W({}), u)
  BY <1>13, <1>15, <1>21 DEF W
<1> HIDE DEF p, last, u
<1>23. Undoes(conf, stopControlStream, s, u)
  BY <1>22, UndoesThen
<1> QED
  BY <1>23, AtEight DEF s, u, W, Complete, rfi

(***************************************************************************)
(* A stream on top of others                                               *)
(***************************************************************************)

(* n stages are complete; what is held is what stage k stands for, and     *)
(* then threads ts, handles hs and renderers rs.                           *)
PlusServed(c, k, ts, hs, rs, rfi) ==
  Served(c, ThreadsAt(c, k, rfi) \cup ts, HandlesAt(c, k) \cup hs,
         RenderersAt(k) \cup rs)
Plus(c, n, k, ts, hs, rs, rfi) ==
  With(n, ThreadsAt(c, k, rfi) \cup ts, HandlesAt(c, k) \cup hs,
       RenderersAt(k) \cup rs, rfi)

LEMMA PlusNothing ==
  ASSUME NEW c, NEW n, NEW k, NEW rfi
  PROVE  /\ Plus(c, n, k, {}, {}, {}, rfi)
              = With(n, ThreadsAt(c, k, rfi), HandlesAt(c, k), RenderersAt(k),
                     rfi)
         /\ Complete(c, n, rfi) = Plus(c, n, n, {}, {}, {}, rfi)
<1>1. /\ ThreadsAt(c, k, rfi) \cup {} = ThreadsAt(c, k, rfi)
      /\ HandlesAt(c, k) \cup {} = HandlesAt(c, k)
      /\ RenderersAt(k) \cup {} = RenderersAt(k)
      /\ ThreadsAt(c, n, rfi) \cup {} = ThreadsAt(c, n, rfi)
      /\ HandlesAt(c, n) \cup {} = HandlesAt(c, n)
      /\ RenderersAt(n) \cup {} = RenderersAt(n)
  OBVIOUS
<1> QED
  BY <1>1 DEF Plus, Complete

LEMMA PlusUsers ==
  ASSUME NEW c, NEW n \in 7..11, NEW k, NEW ts, NEW hs, NEW rs, NEW rfi,
         PlusServed(c, k, ts, hs, rs, rfi)
  PROVE  UsersServed(c, Plus(c, n, k, ts, hs, rs, rfi))
BY WithServed DEF PlusServed, Plus

LEMMA PlusJoin ==
  ASSUME NEW c, NEW n \in 7..11, NEW k, NEW ts, NEW hs, NEW rs, NEW rfi,
         PlusServed(c, k, ts, hs, rs, rfi), NEW t \in Threads \ {"AudioPing"},
         t \notin ThreadsAt(c, k, rfi), NEW us, us = ts \ {t}
  PROVE  /\ PlusServed(c, k, us, hs, rs, rfi)
         /\ Undoes(c, <<Join(t)>>, Plus(c, n, k, ts, hs, rs, rfi),
                   Plus(c, n, k, us, hs, rs, rfi))
         /\ Undoes(c, StopThread(t), Plus(c, n, k, ts, hs, rs, rfi),
                   Plus(c, n, k, us, hs, rs, rfi))
<1> DEFINE ks == ThreadsAt(c, k, rfi) \cup ts
           js == ThreadsAt(c, k, rfi) \cup us
           ls == HandlesAt(c, k) \cup hs
           ms == RenderersAt(k) \cup rs
<1>1. ks \ {t} = js
  OBVIOUS
<1>2. Served(c, ks, ls, ms)
  BY DEF PlusServed
<1>3. /\ Plus(c, n, k, ts, hs, rs, rfi) = With(n, ks, ls, ms, rfi)
      /\ Plus(c, n, k, us, hs, rs, rfi) = With(n, js, ls, ms, rfi)
  BY DEF Plus
<1>4. PlusServed(c, k, us, hs, rs, rfi) <=> Served(c, js, ls, ms)
  BY DEF PlusServed
<1> HIDE DEF ks, js, ls, ms
<1>5. /\ Served(c, js, ls, ms)
      /\ Undoes(c, <<Join(t)>>, With(n, ks, ls, ms, rfi),
                With(n, js, ls, ms, rfi))
  BY <1>1, <1>2, JoinStep
<1>6. Undoes(c, StopThread(t), With(n, ks, ls, ms, rfi),
             With(n, js, ls, ms, rfi))
  BY <1>1, <1>2, StopThreadStep
<1> QED
  BY <1>3, <1>4, <1>5, <1>6

LEMMA PlusClose ==
  ASSUME NEW c, NEW n \in 7..11, NEW k, NEW ts, NEW hs, NEW rs, NEW rfi,
         PlusServed(c, k, ts, hs, rs, rfi),
         NEW h \in {"control", "video", "firstFrame", "input"},
         h \notin HandlesAt(c, k), NEW gs, gs = hs \ {h},
         PlusServed(c, k, ts, gs, rs, rfi)
  PROVE  Undoes(c, <<Close(h)>>, Plus(c, n, k, ts, hs, rs, rfi),
                Plus(c, n, k, ts, gs, rs, rfi))
<1> DEFINE ks == ThreadsAt(c, k, rfi) \cup ts
           ls == HandlesAt(c, k) \cup hs
           ms == RenderersAt(k) \cup rs
           js == HandlesAt(c, k) \cup gs
<1>1. ls \ {h} = js
  OBVIOUS
<1>2. Served(c, ks, ls, ms) /\ Served(c, ks, js, ms)
  BY DEF PlusServed
<1>3. /\ Plus(c, n, k, ts, hs, rs, rfi) = With(n, ks, ls, ms, rfi)
      /\ Plus(c, n, k, ts, gs, rs, rfi) = With(n, ks, js, ms, rfi)
  BY DEF Plus
<1> HIDE DEF ks, ls, ms, js
<1>4. Undoes(c, <<Close(h)>>, With(n, ks, ls, ms, rfi),
             With(n, ks, js, ms, rfi))
  BY <1>1, <1>2, CloseStep
<1> QED
  BY <1>3, <1>4

LEMMA PlusDrop ==
  ASSUME NEW c, NEW n \in 7..11, NEW k, NEW ts, NEW hs, NEW rs, NEW rfi,
         PlusServed(c, k, ts, hs, rs, rfi), NEW h \in {"audio", "video"},
         h \notin HandlesAt(c, k), NEW gs, gs = hs \ {h},
         PlusServed(c, k, ts, gs, rs, rfi)
  PROVE  Undoes(c, <<Drop(h)>>, Plus(c, n, k, ts, hs, rs, rfi),
                Plus(c, n, k, ts, gs, rs, rfi))
<1> DEFINE ks == ThreadsAt(c, k, rfi) \cup ts
           ls == HandlesAt(c, k) \cup hs
           ms == RenderersAt(k) \cup rs
           js == HandlesAt(c, k) \cup gs
<1>1. ls \ {h} = js
  OBVIOUS
<1>2. Served(c, ks, ls, ms) /\ Served(c, ks, js, ms)
  BY DEF PlusServed
<1>3. /\ Plus(c, n, k, ts, hs, rs, rfi) = With(n, ks, ls, ms, rfi)
      /\ Plus(c, n, k, ts, gs, rs, rfi) = With(n, ks, js, ms, rfi)
  BY DEF Plus
<1> HIDE DEF ks, ls, ms, js
<1>4. Undoes(c, <<Drop(h)>>, With(n, ks, ls, ms, rfi),
             With(n, ks, js, ms, rfi))
  BY <1>1, <1>2, DropStep
<1> QED
  BY <1>3, <1>4

LEMMA PlusSetup ==
  ASSUME NEW c, NEW n \in 7..11, NEW k, NEW ts, NEW hs, NEW rs, NEW rfi,
         PlusServed(c, k, ts, hs, rs, rfi), NEW r \in Renderers,
         NEW qs, qs = rs \cup {r}
  PROVE  /\ PlusServed(c, k, ts, hs, qs, rfi)
         /\ Undoes(c, <<Call("setup", r)>>, Plus(c, n, k, ts, hs, rs, rfi),
                   Plus(c, n, k, ts, hs, qs, rfi))
<1> DEFINE ks == ThreadsAt(c, k, rfi) \cup ts
           ls == HandlesAt(c, k) \cup hs
           ms == RenderersAt(k) \cup rs
           js == RenderersAt(k) \cup qs
<1>1. ms \cup {r} = js
  OBVIOUS
<1>2. Served(c, ks, ls, ms)
  BY DEF PlusServed
<1>3. /\ Plus(c, n, k, ts, hs, rs, rfi) = With(n, ks, ls, ms, rfi)
      /\ Plus(c, n, k, ts, hs, qs, rfi) = With(n, ks, ls, js, rfi)
  BY DEF Plus
<1>4. PlusServed(c, k, ts, hs, qs, rfi) <=> Served(c, ks, ls, js)
  BY DEF PlusServed
<1> HIDE DEF ks, ls, ms, js
<1>5. /\ Served(c, ks, ls, js)
      /\ Undoes(c, <<Call("setup", r)>>, With(n, ks, ls, ms, rfi),
                With(n, ks, ls, js, rfi))
  BY <1>1, <1>2, SetupStep
<1> QED
  BY <1>3, <1>4, <1>5

LEMMA PlusCleanup ==
  ASSUME NEW c, NEW n \in 7..11, NEW k, NEW ts, NEW hs, NEW rs, NEW rfi,
         PlusServed(c, k, ts, hs, rs, rfi), NEW r \in Renderers,
         r \notin RenderersAt(k), NEW qs, qs = rs \ {r},
         PlusServed(c, k, ts, hs, qs, rfi)
  PROVE  Undoes(c, <<Call("cleanup", r)>>, Plus(c, n, k, ts, hs, rs, rfi),
                Plus(c, n, k, ts, hs, qs, rfi))
<1> DEFINE ks == ThreadsAt(c, k, rfi) \cup ts
           ls == HandlesAt(c, k) \cup hs
           ms == RenderersAt(k) \cup rs
           js == RenderersAt(k) \cup qs
<1>1. ms \ {r} = js
  OBVIOUS
<1>2. Served(c, ks, ls, ms) /\ Served(c, ks, ls, js)
  BY DEF PlusServed
<1>3. /\ Plus(c, n, k, ts, hs, rs, rfi) = With(n, ks, ls, ms, rfi)
      /\ Plus(c, n, k, ts, hs, qs, rfi) = With(n, ks, ls, js, rfi)
  BY DEF Plus
<1> HIDE DEF ks, ls, ms, js
<1>4. Undoes(c, <<Call("cleanup", r)>>, With(n, ks, ls, ms, rfi),
             With(n, ks, ls, js, rfi))
  BY <1>1, <1>2, CleanupStep
<1> QED
  BY <1>3, <1>4

LEMMA PlusIdle ==
  ASSUME NEW c, NEW n \in 7..11, NEW k, NEW ts, NEW hs, NEW rs, NEW rfi,
         PlusServed(c, k, ts, hs, rs, rfi), NEW s,
         s = Plus(c, n, k, ts, hs, rs, rfi)
  PROVE  /\ UsersServed(c, s)
         /\ \A qs \in SUBSET Threads : Undoes(c, <<Cancel(qs)>>, s, s)
         /\ \A qs \in SUBSET Signals : Undoes(c, <<Signal(qs)>>, s, s)
         /\ \A w : Undoes(c, <<Assume(w)>>, s, s)
         /\ \A r \in Renderers : r \in rs =>
              Undoes(c, <<Call("start", r)>>, s, s)
              /\ Undoes(c, <<Call("stop", r)>>, s, s)
<1>1. UsersServed(c, s)
  BY PlusUsers
<1>2. \A r \in rs : r \in s.renderers
  BY DEF Plus, With
<1> QED
  BY <1>1, <1>2, IdleStep

LEMMA PlusCreate ==
  ASSUME NEW c, NEW n \in 7..10, NEW ts, NEW hs, NEW rs, NEW rfi,
         PlusServed(c, n, ts, hs, rs, rfi), NEW t \in Threads \ {"AudioPing"},
         NEW us, us = ts \cup {t}, PlusServed(c, n, us, hs, rs, rfi), NEW undo,
         Undoes(c, undo, Plus(c, n, n, ts, hs, rs, rfi), Complete(c, n, rfi))
  PROVE  Leads(c, <<Create(t, undo)>>, Plus(c, n, n, ts, hs, rs, rfi),
               Plus(c, n, n, us, hs, rs, rfi))
<1> DEFINE ks == ThreadsAt(c, n, rfi) \cup ts
           ls == HandlesAt(c, n) \cup hs
           ms == RenderersAt(n) \cup rs
           js == ThreadsAt(c, n, rfi) \cup us
<1>1. ks \cup {t} = js
  OBVIOUS
<1>2. Served(c, ks, ls, ms) /\ Served(c, js, ls, ms)
  BY DEF PlusServed
<1>3. /\ Plus(c, n, n, ts, hs, rs, rfi) = With(n, ks, ls, ms, rfi)
      /\ Plus(c, n, n, us, hs, rs, rfi) = With(n, js, ls, ms, rfi)
  BY DEF Plus
<1> HIDE DEF ks, ls, ms, js
<1>4. Leads(c, <<Create(t, undo)>>, With(n, ks, ls, ms, rfi),
            With(n, js, ls, ms, rfi))
  BY <1>1, <1>2, CreateStep, <1>3
<1> QED
  BY <1>3, <1>4

LEMMA PlusOpen ==
  ASSUME NEW c, NEW n \in 7..10, NEW ts, NEW hs, NEW rs, NEW rfi,
         PlusServed(c, n, ts, hs, rs, rfi),
         NEW h \in {"control", "video", "firstFrame", "input"}, NEW gs,
         gs = hs \cup {h}, NEW undo,
         Undoes(c, undo, Plus(c, n, n, ts, hs, rs, rfi), Complete(c, n, rfi))
  PROVE  /\ PlusServed(c, n, ts, gs, rs, rfi)
         /\ Leads(c, <<Open(h, undo)>>, Plus(c, n, n, ts, hs, rs, rfi),
                  Plus(c, n, n, ts, gs, rs, rfi))
<1> DEFINE ks == ThreadsAt(c, n, rfi) \cup ts
           ls == HandlesAt(c, n) \cup hs
           ms == RenderersAt(n) \cup rs
           js == HandlesAt(c, n) \cup gs
<1>1. ls \cup {h} = js
  OBVIOUS
<1>2. Served(c, ks, ls, ms)
  BY DEF PlusServed
<1>3. /\ Plus(c, n, n, ts, hs, rs, rfi) = With(n, ks, ls, ms, rfi)
      /\ Plus(c, n, n, ts, gs, rs, rfi) = With(n, ks, js, ms, rfi)
  BY DEF Plus
<1>4. PlusServed(c, n, ts, gs, rs, rfi) <=> Served(c, ks, js, ms)
  BY DEF PlusServed
<1> HIDE DEF ks, ls, ms, js
<1>5. Undoes(c, undo, With(n, ks, ls, ms, rfi), Complete(c, n, rfi))
  BY <1>3
<1>6. /\ Served(c, ks, ls \cup {h}, ms)
      /\ Leads(c, <<Open(h, undo)>>, With(n, ks, ls, ms, rfi),
               With(n, ks, ls \cup {h}, ms, rfi))
  BY <1>2, <1>5, OpenStep
<1> QED
  BY <1>1, <1>3, <1>4, <1>6

(***************************************************************************)
(* The video stream                                                        *)
(***************************************************************************)

DecoderThread == IF conf.directVideo THEN {} ELSE {"VideoDec"}

LEMMA VideoServed ==
  ASSUME NEW c, NEW rfi, NEW hs, NEW rs,
         NEW ts \in SUBSET {"VideoRecv", "VideoDec", "VideoPing"},
         ts = {} \/ ("video" \in hs /\ "video" \in rs)
  PROVE  PlusServed(c, 8, ts, hs, rs, rfi)
<1>1. ThreadsAt(c, 8, rfi) \subseteq ControlThreads(TRUE)
  BY DEF ThreadsAt, ControlThreads
<1>2. HandlesAt(c, 8) = {"control"}
  BY AtEight
<1> QED
  BY <1>1, <1>2 DEF PlusServed, Served, ControlThreads

LEMMA VideoApart ==
  ASSUME NEW c, NEW rfi
  PROVE  /\ \A t \in {"VideoRecv", "VideoDec", "VideoPing"} :
              t \in Threads \ {"AudioPing"} /\ t \notin ThreadsAt(c, 8, rfi)
         /\ \A h \in {"video", "firstFrame"} : h \notin HandlesAt(c, 8)
         /\ "video" \notin RenderersAt(8) /\ "video" \in Renderers
         /\ 8 \in 7..11 /\ 8 \in 7..10 /\ 9 \in 7..11
         /\ {"decodeUnitQueue"} \in SUBSET Signals
         /\ {"VideoRecv"} \in SUBSET Threads /\ {"VideoDec"} \in SUBSET Threads
         /\ {"VideoPing", "VideoRecv"} \in SUBSET Threads
BY DEF ThreadsAt, ControlThreads, Threads, HandlesAt, RenderersAt, Renderers,
       Signals

LEMMA VideoUndone ==
  ASSUME NEW rfi, NEW fs \in {{}, {"firstFrame"}}
  PROVE  /\ Undoes(conf, UndoVideo,
                   Plus(conf, 8, 8, {"VideoRecv"} \cup DecoderThread,
                        {"video"} \cup fs, {"video"}, rfi),
                   Plus(conf, 8, 8, {}, fs, {"video"}, rfi))
         /\ Undoes(conf, <<Call("cleanup", "video")>>,
                   Plus(conf, 8, 8, {}, {}, {"video"}, rfi),
                   Complete(conf, 8, rfi))
<1> DEFINE hs == {"video"} \cup fs
           P(ts) == Plus(conf, 8, 8, ts, hs, {"video"}, rfi)
           s == P({"VideoRecv"} \cup DecoderThread)
           all == {"VideoRecv", "VideoDec", "VideoPing"}
<1>1. \A ts \in SUBSET all : PlusServed(conf, 8, ts, hs, {"video"}, rfi)
  BY VideoServed
<1>2. {"VideoRecv"} \cup DecoderThread \in SUBSET all
  BY DEF DecoderThread
<1>3. /\ Undoes(conf, <<Call("stop", "video")>>, s, s)
      /\ Undoes(conf, <<Signal({"decodeUnitQueue"})>>, s, s)
      /\ Undoes(conf, <<Cancel({"VideoRecv"})>>, s, s)
      /\ Undoes(conf, <<Cancel({"VideoDec"})>>, s, s)
      /\ UsersServed(conf, s)
  BY <1>1, <1>2, VideoApart, PlusIdle
<1>4. Undoes(conf, Decoder(<<Cancel({"VideoDec"})>>), s, s)
  BY <1>3, NoStep DEF Decoder, When
<1>5. Undoes(conf, <<Join("VideoRecv")>>, s, P(DecoderThread))
  <2>1. DecoderThread = ({"VideoRecv"} \cup DecoderThread) \ {"VideoRecv"}
    BY DEF DecoderThread
  <2> QED
    BY <1>1, <1>2, <2>1, VideoApart, PlusJoin
<1>6. Undoes(conf, Decoder(<<Join("VideoDec")>>), P(DecoderThread), P({}))
  <2>1. {} = {"VideoDec"} \ {"VideoDec"} /\ {"VideoDec"} \in SUBSET all
    OBVIOUS
  <2>2. Undoes(conf, <<Join("VideoDec")>>, P({"VideoDec"}), P({}))
    BY <1>1, <2>1, VideoApart, PlusJoin
  <2>3. UsersServed(conf, P({}))
    BY <1>1, VideoApart, PlusUsers
  <2> QED
    BY <2>2, <2>3, NoStep DEF Decoder, When, DecoderThread
<1>7. Undoes(conf, <<Drop("video")>>, P({}),
             Plus(conf, 8, 8, {}, fs, {"video"}, rfi))
  <2>1. fs = hs \ {"video"}
    OBVIOUS
  <2>2. /\ PlusServed(conf, 8, {}, hs, {"video"}, rfi)
        /\ PlusServed(conf, 8, {}, fs, {"video"}, rfi)
    BY VideoServed
  <2> HIDE DEF hs
  <2> QED
    BY <2>1, <2>2, VideoApart, PlusDrop
<1>8. Undoes(conf, <<Call("cleanup", "video")>>,
             Plus(conf, 8, 8, {}, {}, {"video"}, rfi), Complete(conf, 8, rfi))
  <2>1. {} = {"video"} \ {"video"}
    OBVIOUS
  <2>2. /\ PlusServed(conf, 8, {}, {}, {"video"}, rfi)
        /\ PlusServed(conf, 8, {}, {}, {}, rfi)
    BY VideoServed
  <2>3. Undoes(conf, <<Call("cleanup", "video")>>,
               Plus(conf, 8, 8, {}, {}, {"video"}, rfi),
               Plus(conf, 8, 8, {}, {}, {}, rfi))
    BY <2>1, <2>2, VideoApart, PlusCleanup
  <2> QED
    BY <2>3, PlusNothing
<1> DEFINE x1 == Call("stop", "video")
           x2 == Signal({"decodeUnitQueue"})
           x3 == Cancel({"VideoRecv"})
           d1 == Decoder(<<Cancel({"VideoDec"})>>)
           d2 == Decoder(<<Join("VideoDec")>>)
           j == <<Join("VideoRecv")>>
           last == <<Drop("video")>>
           u == Plus(conf, 8, 8, {}, fs, {"video"}, rfi)
<1>9. UndoVideo = <<x1, x2, x3>> \o d1 \o j \o d2 \o last
  BY DEF UndoVideo
<1>10. /\ Undoes(conf, <<x1>>, s, s) /\ Undoes(conf, <<x2>>, s, s)
       /\ Undoes(conf, <<x3>>, s, s) /\ Undoes(conf, d1, s, s)
       /\ Undoes(conf, j, s, P(DecoderThread))
       /\ Undoes(conf, d2, P(DecoderThread), P({}))
       /\ Undoes(conf, last, P({}), u)
  BY <1>3, <1>4, <1>5, <1>6, <1>7
<1> HIDE DEF x1, x2, x3, d1, d2, j, last, u, s, P
<1>11. Undoes(conf, <<x1, x2, x3>>, s, s)
  BY <1>10, Undoes3
<1>12. Undoes(conf, <<x1, x2, x3>> \o d1, s, s)
  BY <1>10, <1>11, UndoesThen
<1>13. Undoes(conf, <<x1, x2, x3>> \o d1 \o j, s, P(DecoderThread))
  BY <1>10, <1>12, UndoesThen
<1>14. Undoes(conf, <<x1, x2, x3>> \o d1 \o j \o d2, s, P({}))
  BY <1>10, <1>13, UndoesThen
<1>15. Undoes(conf, UndoVideo, s, u)
  BY <1>9, <1>10, <1>14, UndoesThen
<1> QED
  BY <1>8, <1>15 DEF s, P, u

LEMMA AtNine ==
  ASSUME NEW c, NEW rfi
  PROVE  /\ ThreadsAt(c, 9, rfi) = ThreadsAt(c, 8, rfi) \cup VideoThreads(c)
         /\ HandlesAt(c, 9) = HandlesAt(c, 8) \cup {"video"}
         /\ RenderersAt(9) = RenderersAt(8) \cup {"video"}
BY DEF ThreadsAt, HandlesAt, RenderersAt

LEMMA VideoStreamStarts ==
  ASSUME NEW rfi
  PROVE  Leads(conf, startVideoStream, Complete(conf, 8, rfi),
               With(8, ThreadsAt(conf, 9, rfi), HandlesAt(conf, 9),
                    RenderersAt(9), rfi))
<1> DEFINE P(ts, hs, rs) == Plus(conf, 8, 8, ts, hs, rs, rfi)
           all == {"VideoRecv", "VideoDec", "VideoPing"}
           v == {"video"}
           ff == IF Gen3 THEN {"firstFrame"} ELSE {}
           r1 == {"VideoRecv"}
           r2 == r1 \cup DecoderThread
           r3 == r2 \cup {"VideoPing"}
           C8 == Complete(conf, 8, rfi)
           cleanup == <<Call("cleanup", "video")>>
           stop == <<Call("stop", "video")>>
           drop == <<Drop("video")>>
           u1 == stop \o drop \o cleanup
           u2 == stop \o StopThread("VideoRecv") \o drop \o cleanup
           u3 == UndoVideo \o cleanup
           u4 == UndoVideo \o When(Gen3, <<Close("firstFrame")>>) \o cleanup
<1>1. \A ts \in SUBSET all : \A hs : PlusServed(conf, 8, ts, v \cup hs, v, rfi)
  BY VideoServed
<1>2. \A hs, rs : PlusServed(conf, 8, {}, hs, rs, rfi)
  BY VideoServed
<1>3. /\ r1 \in SUBSET all /\ r2 \in SUBSET all /\ r3 \in SUBSET all
      /\ r3 = VideoThreads(conf) /\ {} \cup r1 = r1 /\ r1 \ {"VideoRecv"} = {}
      /\ v \cup {} = v /\ {} \cup v = v /\ v \ {"video"} = {}
      /\ ff \in {{}, {"firstFrame"}}
  BY DEF DecoderThread, VideoThreads
<1>4. C8 = P({}, {}, {})
  BY PlusNothing
<1>5. Undoes(conf, cleanup, P({}, {}, v), C8)
  BY VideoUndone
<1>6. \A ts \in SUBSET all : \A hs :
        /\ UsersServed(conf, P(ts, v \cup hs, v))
        /\ Undoes(conf, stop, P(ts, v \cup hs, v), P(ts, v \cup hs, v))
        /\ Undoes(conf, <<Call("start", "video")>>, P(ts, v \cup hs, v),
                  P(ts, v \cup hs, v))
  BY <1>1, VideoApart, PlusIdle
<1>7. Undoes(conf, drop, P({}, v, v), P({}, {}, v))
  BY <1>2, <1>3, VideoApart, PlusDrop
<1>8. Undoes(conf, StopThread("VideoRecv"), P(r1, v, v), P({}, v, v))
  <2>1. PlusServed(conf, 8, r1, v, v, rfi)
    BY <1>1, <1>3
  <2>2. {} = r1 \ {"VideoRecv"}
    OBVIOUS
  <2> QED
    BY <2>1, <2>2, VideoApart, PlusJoin
<1>9. \A fs \in {{}, {"firstFrame"}} :
        Undoes(conf, UndoVideo, P(r2, v \cup fs, v), P({}, fs, v))
  BY VideoUndone
<1>10. Undoes(conf, When(Gen3, <<Close("firstFrame")>>), P({}, ff, v),
              P({}, {}, v))
  <2>1. {} = {"firstFrame"} \ {"firstFrame"}
    OBVIOUS
  <2>2. Undoes(conf, <<Close("firstFrame")>>, P({}, {"firstFrame"}, v),
               P({}, {}, v))
    BY <1>2, <2>1, VideoApart, PlusClose
  <2>3. UsersServed(conf, P({}, {}, v))
    BY <1>2, VideoApart, PlusUsers
  <2> QED
    BY <2>2, <2>3, NoStep DEF When
<1>11. Leads(conf, When(Gen3, <<Close("firstFrame")>>), P(r3, v \cup ff, v),
             P(r3, v, v))
  <2>1. v = (v \cup {"firstFrame"}) \ {"firstFrame"}
    OBVIOUS
  <2>2. /\ PlusServed(conf, 8, r3, v \cup {"firstFrame"}, v, rfi)
        /\ PlusServed(conf, 8, r3, v, v, rfi)
    BY <1>1, <1>3
  <2>3. Undoes(conf, <<Close("firstFrame")>>, P(r3, v \cup {"firstFrame"}, v),
               P(r3, v, v))
    BY <2>1, <2>2, VideoApart, PlusClose
  <2>4. UsersServed(conf, P(r3, v, v))
    BY <2>2, VideoApart, PlusUsers
  <2>5. Undoes(conf, When(Gen3, <<Close("firstFrame")>>), P(r3, v \cup ff, v),
               P(r3, v, v))
    BY <1>3, <2>3, <2>4, NoStep DEF When
  <2> QED
    BY <2>5, UndoesLeads
<1>12. /\ UsersServed(conf, C8) /\ 8 \in 7..10
       /\ \A w : Leads(conf, <<Assume(w)>>, C8, C8)
       /\ \A w : Leads(conf, <<Attempt(w, <<>>)>>, C8, C8)
  <2>1. UsersServed(conf, C8)
    BY StageServed, 8 \in 7..11
  <2>2. \A w : Leads(conf, <<Assume(w)>>, C8, C8)
    BY <2>1, IdleStep, UndoesLeads
  <2>3. /\ Undoes(conf, <<>>, C8, C8)
        /\ Served(conf, ThreadsAt(conf, 8, rfi), HandlesAt(conf, 8),
                  RenderersAt(8))
    BY <2>1, NoStep, StageServed, 8 \in 7..11
  <2>4. \A w : Leads(conf, <<Attempt(w, <<>>)>>, C8, C8)
    BY <2>3, AttemptStep_, 8 \in 7..10 DEF Complete
  <2> QED
    BY <2>1, <2>2, <2>4
<1>13. Leads(conf, <<Call("setup", "video")>>, C8, P({}, {}, v))
  <2>1. Undoes(conf, <<Call("setup", "video")>>, P({}, {}, {}), P({}, {}, v))
    BY <1>2, <1>3, VideoApart, PlusSetup
  <2> QED
    BY <1>4, <2>1, UndoesLeads
<1>14. Leads(conf, <<Open("video", cleanup)>>, P({}, {}, v), P({}, v, v))
  <2> HIDE DEF cleanup, C8
  <2>1. v = {} \cup {"video"}
    OBVIOUS
  <2> QED
    BY <1>2, <1>5, <2>1, VideoApart, PlusOpen DEF C8
<1> HIDE DEF cleanup, stop, drop, C8
<1>15. Undoes(conf, u1, P({}, v, v), C8)
  <2>1. Undoes(conf, stop, P({}, v, v), P({}, v, v))
    <3>1. {} \in SUBSET all
      OBVIOUS
    <3> QED
      BY <1>3, <1>6, <3>1
  <2>2. Undoes(conf, stop \o drop, P({}, v, v), P({}, {}, v))
    BY <1>7, <2>1, UndoesThen
  <2> QED
    BY <1>5, <2>2, UndoesThen
<1>16. Undoes(conf, u2, P(r1, v, v), C8)
  <2>1. Undoes(conf, stop, P(r1, v, v), P(r1, v, v))
    BY <1>3, <1>6
  <2>2. Undoes(conf, stop \o StopThread("VideoRecv"), P(r1, v, v), P({}, v, v))
    BY <1>8, <2>1, UndoesThen
  <2>3. Undoes(conf, stop \o StopThread("VideoRecv") \o drop, P(r1, v, v),
               P({}, {}, v))
    BY <1>7, <2>2, UndoesThen
  <2> QED
    BY <1>5, <2>3, UndoesThen
<1>17. Undoes(conf, u3, P(r2, v, v), C8)
  <2>1. Undoes(conf, UndoVideo, P(r2, v, v), P({}, {}, v))
    BY <1>3, <1>9
  <2> QED
    BY <1>5, <2>1, UndoesThen
<1>18. Undoes(conf, u4, P(r2, v \cup ff, v), C8)
  <2>1. Undoes(conf, UndoVideo, P(r2, v \cup ff, v), P({}, ff, v))
    BY <1>3, <1>9
  <2>2. Undoes(conf, UndoVideo \o When(Gen3, <<Close("firstFrame")>>),
               P(r2, v \cup ff, v), P({}, {}, v))
    BY <1>10, <2>1, UndoesThen
  <2> QED
    BY <1>5, <2>2, UndoesThen
<1> HIDE DEF u1, u2, u3, u4
<1>19. Leads(conf, <<Call("start", "video")>>, P({}, v, v), P({}, v, v))
  <2>1. {} \in SUBSET all
    OBVIOUS
  <2> QED
    BY <1>3, <1>6, <2>1, UndoesLeads
<1>20. /\ \A ts \in SUBSET all : PlusServed(conf, 8, ts, v, v, rfi)
       /\ \A ts \in SUBSET all : PlusServed(conf, 8, ts, v \cup ff, v, rfi)
  BY <1>1, <1>3
<1>21. Leads(conf, <<Create("VideoRecv", u1)>>, P({}, v, v), P(r1, v, v))
  <2>1. PlusServed(conf, 8, {}, v, v, rfi)
    BY <1>2
  <2> QED
    BY <1>3, <1>15, <1>20, <2>1, VideoApart, PlusCreate DEF C8
<1>22. Leads(conf, Decoder(<<Create("VideoDec", u2)>>), P(r1, v, v), P(r2, v, v))
  <2>1. CASE conf.directVideo
    <3>1. r2 = r1 /\ Decoder(<<Create("VideoDec", u2)>>) = <<>>
      BY <2>1 DEF DecoderThread, Decoder, When
    <3>2. UsersServed(conf, P(r1, v, v))
      BY <1>3, <1>20, VideoApart, PlusUsers
    <3> QED
      BY <3>1, <3>2, NoStep
  <2>2. CASE ~conf.directVideo
    <3>1. /\ r2 = r1 \cup {"VideoDec"}
          /\ Decoder(<<Create("VideoDec", u2)>>) = <<Create("VideoDec", u2)>>
      BY <2>2 DEF DecoderThread, Decoder, When
    <3>2. /\ PlusServed(conf, 8, r1, v, v, rfi)
          /\ PlusServed(conf, 8, r2, v, v, rfi)
      BY <1>3, <1>20
    <3> HIDE DEF r1, r2
    <3>3. Leads(conf, <<Create("VideoDec", u2)>>, P(r1, v, v), P(r2, v, v))
      BY <1>16, <3>1, <3>2, VideoApart, PlusCreate DEF C8
    <3> QED
      BY <3>1, <3>3
  <2> QED
    BY <2>1, <2>2
<1> HIDE DEF r2, r3
<1>23. Leads(conf, When(Gen3, <<Open("firstFrame", u3)>>), P(r2, v, v),
             P(r2, v \cup ff, v))
  <2>1. PlusServed(conf, 8, r2, v, v, rfi)
    BY <1>3, <1>20
  <2>2. Leads(conf, <<Open("firstFrame", u3)>>, P(r2, v, v),
              P(r2, v \cup {"firstFrame"}, v))
    BY <1>17, <2>1, VideoApart, PlusOpen DEF C8
  <2>3. UsersServed(conf, P(r2, v, v))
    BY <2>1, VideoApart, PlusUsers
  <2> QED
    BY <1>3, <2>2, <2>3, NoStep DEF When
<1> HIDE DEF ff
<1>24. Leads(conf, <<Create("VideoPing", u4)>>, P(r2, v \cup ff, v),
             P(r3, v \cup ff, v))
  <2>1. /\ PlusServed(conf, 8, r2, v \cup ff, v, rfi)
        /\ PlusServed(conf, 8, r3, v \cup ff, v, rfi)
        /\ r3 = r2 \cup {"VideoPing"}
    BY <1>3, <1>20 DEF r3
  <2> QED
    BY <1>18, <2>1, VideoApart, PlusCreate DEF C8
<1> DEFINE x1 == Assume("video")
           x2 == Attempt("setup", <<>>)
           x3 == Call("setup", "video")
           x4 == Open("video", cleanup)
           x5 == Call("start", "video")
           x6 == Create("VideoRecv", u1)
           p2 == Decoder(<<Create("VideoDec", u2)>>)
           p3 == When(Gen3, <<Open("firstFrame", u3)>>)
           p4 == <<Create("VideoPing", u4)>>
           p5 == When(Gen3, <<Close("firstFrame")>>)
<1>25. /\ Leads(conf, <<x1>>, C8, C8) /\ Leads(conf, <<x2>>, C8, C8)
       /\ Leads(conf, <<x3>>, C8, P({}, {}, v))
       /\ Leads(conf, <<x4>>, P({}, {}, v), P({}, v, v))
       /\ Leads(conf, <<x5>>, P({}, v, v), P({}, v, v))
       /\ Leads(conf, <<x6>>, P({}, v, v), P(r1, v, v))
       /\ Leads(conf, p2, P(r1, v, v), P(r2, v, v))
       /\ Leads(conf, p3, P(r2, v, v), P(r2, v \cup ff, v))
       /\ Leads(conf, p4, P(r2, v \cup ff, v), P(r3, v \cup ff, v))
       /\ Leads(conf, p5, P(r3, v \cup ff, v), P(r3, v, v))
  BY <1>11, <1>12, <1>13, <1>14, <1>19, <1>21, <1>22, <1>23, <1>24
<1>26. startVideoStream = <<x1, x2, x3, x4, x5, x6>> \o p2 \o p3 \o p4 \o p5
  BY DEF startVideoStream, u1, u2, u3, u4, cleanup, stop, drop
<1>27. P(r3, v, v) = With(8, ThreadsAt(conf, 9, rfi), HandlesAt(conf, 9),
                          RenderersAt(9), rfi)
  BY <1>3, AtNine DEF Plus
<1> DEFINE s1 == P({}, {}, v)
           s2 == P({}, v, v)
           s3 == P(r1, v, v)
           s4 == P(r2, v, v)
           s5 == P(r2, v \cup ff, v)
           s6 == P(r3, v \cup ff, v)
           s7 == P(r3, v, v)
           p1 == <<x1, x2, x3, x4, x5, x6>>
<1> HIDE DEF x1, x2, x3, x4, x5, x6, p2, p3, p4, p5, P, s1, s2, s3, s4, s5, s6, s7
<1>28. /\ Leads(conf, <<x1>>, C8, C8) /\ Leads(conf, <<x2>>, C8, C8)
       /\ Leads(conf, <<x3>>, C8, s1) /\ Leads(conf, <<x4>>, s1, s2)
       /\ Leads(conf, <<x5>>, s2, s2) /\ Leads(conf, <<x6>>, s2, s3)
       /\ Leads(conf, p2, s3, s4) /\ Leads(conf, p3, s4, s5)
       /\ Leads(conf, p4, s5, s6) /\ Leads(conf, p5, s6, s7)
  BY <1>25 DEF s1, s2, s3, s4, s5, s6, s7
<1>29. Leads(conf, p1, C8, s3)
  BY <1>28, Leads6
<1> HIDE DEF p1
<1>30. Leads(conf, p1 \o p2, C8, s4)
  BY <1>28, <1>29, LeadsThen
<1>31. Leads(conf, p1 \o p2 \o p3, C8, s5)
  BY <1>28, <1>30, LeadsThen
<1>32. Leads(conf, p1 \o p2 \o p3 \o p4, C8, s6)
  BY <1>28, <1>31, LeadsThen
<1>33. Leads(conf, p1 \o p2 \o p3 \o p4 \o p5, C8, s7)
  BY <1>28, <1>32, LeadsThen
<1> QED
  BY <1>26, <1>27, <1>33 DEF p1, s7, C8

LEMMA VideoStreamStops ==
  ASSUME NEW rfi
  PROVE  Undoes(conf, stopVideoStream, Complete(conf, 9, rfi),
                With(9, ThreadsAt(conf, 8, rfi), HandlesAt(conf, 8),
                     RenderersAt(8), rfi))
<1> DEFINE P(ts, hs, rs) == Plus(conf, 9, 8, ts, hs, rs, rfi)
           all == {"VideoRecv", "VideoDec", "VideoPing"}
           v == {"video"}
           r2 == {"VideoRecv"} \cup DecoderThread
           s == P(VideoThreads(conf), v, v)
           x1 == Call("stop", "video")
           x2 == Signal({"decodeUnitQueue"})
           x3 == Cancel({"VideoPing", "VideoRecv"})
           d1 == Decoder(<<Cancel({"VideoDec"})>>)
           j1 == Join("VideoPing")
           j2 == Join("VideoRecv")
           d2 == Decoder(<<Join("VideoDec")>>)
           y1 == Close("video")
           y2 == Call("cleanup", "video")
<1>1. \A ts \in SUBSET all : PlusServed(conf, 8, ts, v, v, rfi)
  BY VideoServed
<1>2. \A hs, rs : PlusServed(conf, 8, {}, hs, rs, rfi)
  BY VideoServed
<1>3. /\ VideoThreads(conf) \in SUBSET all /\ r2 \in SUBSET all
      /\ DecoderThread \in SUBSET all
      /\ r2 = VideoThreads(conf) \ {"VideoPing"}
      /\ DecoderThread = r2 \ {"VideoRecv"} /\ {} = v \ {"video"}
  BY DEF DecoderThread, VideoThreads
<1>4. s = Complete(conf, 9, rfi)
  BY AtNine DEF Plus, Complete
<1>5. /\ Undoes(conf, <<x1>>, s, s) /\ Undoes(conf, <<x2>>, s, s)
      /\ Undoes(conf, <<x3>>, s, s) /\ Undoes(conf, <<Cancel({"VideoDec"})>>, s, s)
      /\ UsersServed(conf, s)
  BY <1>1, <1>3, VideoApart, PlusIdle
<1>6. Undoes(conf, d1, s, s)
  BY <1>5, NoStep DEF Decoder, When
<1> HIDE DEF r2
<1>7. Undoes(conf, <<j1>>, s, P(r2, v, v))
  BY <1>1, <1>3, VideoApart, PlusJoin
<1>8. Undoes(conf, <<j2>>, P(r2, v, v), P(DecoderThread, v, v))
  BY <1>1, <1>3, VideoApart, PlusJoin
<1>9. Undoes(conf, d2, P(DecoderThread, v, v), P({}, v, v))
  <2>1. {} = {"VideoDec"} \ {"VideoDec"} /\ {"VideoDec"} \in SUBSET all
    OBVIOUS
  <2>2. Undoes(conf, <<Join("VideoDec")>>, P({"VideoDec"}, v, v), P({}, v, v))
    BY <1>1, <2>1, VideoApart, PlusJoin
  <2>3. UsersServed(conf, P({}, v, v))
    BY <1>2, VideoApart, PlusUsers
  <2> QED
    BY <2>2, <2>3, NoStep DEF Decoder, When, DecoderThread
<1>10. Undoes(conf, <<y1>>, P({}, v, v), P({}, {}, v))
  BY <1>2, <1>3, VideoApart, PlusClose
<1>11. Undoes(conf, <<y2>>, P({}, {}, v), P({}, {}, {}))
  BY <1>2, <1>3, VideoApart, PlusCleanup
<1>12. P({}, {}, {}) = With(9, ThreadsAt(conf, 8, rfi), HandlesAt(conf, 8),
                            RenderersAt(8), rfi)
  BY PlusNothing
<1>13. stopVideoStream = <<x1, x2, x3>> \o d1 \o <<j1, j2>> \o d2 \o <<y1, y2>>
  BY DEF stopVideoStream
<1> DEFINE s1 == P(r2, v, v)
           s2 == P(DecoderThread, v, v)
           s3 == P({}, v, v)
           s4 == P({}, {}, v)
           s5 == P({}, {}, {})
<1>14. /\ Undoes(conf, <<j1>>, s, s1) /\ Undoes(conf, <<j2>>, s1, s2)
       /\ Undoes(conf, d2, s2, s3) /\ Undoes(conf, <<y1>>, s3, s4)
       /\ Undoes(conf, <<y2>>, s4, s5)
  BY <1>7, <1>8, <1>9, <1>10, <1>11
<1> HIDE DEF x1, x2, x3, d1, j1, j2, d2, y1, y2, s, s1, s2, s3, s4, s5
<1>15. Undoes(conf, <<x1, x2, x3>>, s, s)
  BY <1>5, Undoes3
<1>16. Undoes(conf, <<j1, j2>>, s, s2)
  BY <1>14, Undoes2
<1>17. Undoes(conf, <<y1, y2>>, s3, s5)
  BY <1>14, Undoes2
<1>18. Undoes(conf, <<x1, x2, x3>> \o d1, s, s)
  BY <1>6, <1>15, UndoesThen
<1>19. Undoes(conf, <<x1, x2, x3>> \o d1 \o <<j1, j2>>, s, s2)
  BY <1>16, <1>18, UndoesThen
<1>20. Undoes(conf, <<x1, x2, x3>> \o d1 \o <<j1, j2>> \o d2, s, s3)
  BY <1>14, <1>19, UndoesThen
<1> DEFINE p == <<x1, x2, x3>> \o d1 \o <<j1, j2>> \o d2
           q == <<y1, y2>>
<1>21. Undoes(conf, p, s, s3) /\ Undoes(conf, q, s3, s5) /\ stopVideoStream = p \o q
  BY <1>13, <1>17, <1>20
<1> HIDE DEF p, q
<1>22. Undoes(conf, stopVideoStream, s, s5)
  BY <1>21, UndoesThen
<1> QED
  BY <1>4, <1>12, <1>22 DEF s5

(***************************************************************************)
(* The audio stream                                                        *)
(***************************************************************************)

LEMMA AudioServed ==
  ASSUME NEW c, NEW rfi, NEW hs, NEW rs,
         NEW ts \in SUBSET {"AudioRecv", "AudioDec"}, ts = {} \/ "audio" \in rs
  PROVE  PlusServed(c, 9, ts, hs, rs, rfi)
<1>1. /\ ThreadsAt(c, 9, rfi) \subseteq ControlThreads(TRUE) \cup VideoThreads(c)
      /\ HandlesAt(c, 9) = {"control", "video"} /\ RenderersAt(9) = {"video"}
  BY DEF ThreadsAt, ControlThreads, HandlesAt, RenderersAt
<1> QED
  BY <1>1 DEF PlusServed, Served, ControlThreads, VideoThreads

LEMMA AudioApart ==
  ASSUME NEW c, NEW rfi
  PROVE  /\ \A t \in {"AudioRecv", "AudioDec"} :
              t \in Threads \ {"AudioPing"} /\ t \notin ThreadsAt(c, 9, rfi)
         /\ "audio" \notin HandlesAt(c, 9)
         /\ "audio" \notin RenderersAt(9) /\ "audio" \in Renderers
         /\ 9 \in 7..11 /\ 9 \in 7..10 /\ 10 \in 7..11
         /\ {"packetQueue"} \in SUBSET Signals
         /\ {"AudioRecv"} \in SUBSET Threads /\ {"AudioDec"} \in SUBSET Threads
BY DEF ThreadsAt, ControlThreads, VideoThreads, Threads, HandlesAt, RenderersAt,
       Renderers, Signals

LEMMA AtTen ==
  ASSUME NEW c, NEW rfi
  PROVE  /\ ThreadsAt(c, 10, rfi) = ThreadsAt(c, 9, rfi) \cup AudioThreads(c)
         /\ HandlesAt(c, 10) = HandlesAt(c, 9) \cup {}
         /\ RenderersAt(10) = RenderersAt(9) \cup {"audio"}
BY DEF ThreadsAt, HandlesAt, RenderersAt

LEMMA AudioStreamStarts ==
  ASSUME NEW rfi
  PROVE  Leads(conf, startAudioStream, Complete(conf, 9, rfi),
               With(9, ThreadsAt(conf, 10, rfi), HandlesAt(conf, 10),
                    RenderersAt(10), rfi))
<1> DEFINE P(ts, rs) == Plus(conf, 9, 9, ts, {}, rs, rfi)
           all == {"AudioRecv", "AudioDec"}
           a == {"audio"}
           r1 == {"AudioRecv"}
           r2 == AudioThreads(conf)
           C9 == Complete(conf, 9, rfi)
           stop == <<Call("stop", "audio")>>
           drop == Drop("audio")
           cleanup == Call("cleanup", "audio")
           u1 == stop \o <<>> \o <<drop, cleanup>>
           u2 == stop \o StopThread("AudioRecv") \o <<drop, cleanup>>
<1>1. \A ts \in SUBSET all : PlusServed(conf, 9, ts, {}, a, rfi)
  BY AudioServed
<1>2. \A rs : PlusServed(conf, 9, {}, {}, rs, rfi)
  BY AudioServed
<1>3. /\ r1 \in SUBSET all /\ r2 \in SUBSET all /\ r1 = {} \cup {"AudioRecv"}
      /\ {} = a \ {"audio"} /\ {} = {} \ {"audio"} /\ {} = r1 \ {"AudioRecv"}
      /\ a = {} \cup {"audio"}
  BY DEF AudioThreads
<1>4. C9 = P({}, {})
  BY PlusNothing
<1>5. /\ Undoes(conf, <<drop>>, P({}, a), P({}, a))
      /\ Undoes(conf, <<cleanup>>, P({}, a), C9)
  <2>1. PlusServed(conf, 9, {}, {}, a, rfi) /\ PlusServed(conf, 9, {}, {}, {}, rfi)
    BY <1>2
  <2> HIDE DEF a
  <2>2. Undoes(conf, <<drop>>, P({}, a), P({}, a))
    BY <1>3, <2>1, AudioApart, PlusDrop
  <2>3. Undoes(conf, <<cleanup>>, P({}, a), P({}, {}))
    BY <1>3, <2>1, AudioApart, PlusCleanup
  <2> QED
    BY <1>4, <2>2, <2>3
<1>6. /\ Undoes(conf, stop, P({}, a), P({}, a))
      /\ Undoes(conf, stop, P(r1, a), P(r1, a))
      /\ Undoes(conf, <<Call("start", "audio")>>, P({}, a), P({}, a))
      /\ UsersServed(conf, P({}, a)) /\ UsersServed(conf, P(r1, a))
  BY <1>1, <1>2, <1>3, AudioApart, PlusIdle
<1>7. Undoes(conf, StopThread("AudioRecv"), P(r1, a), P({}, a))
  <2>1. PlusServed(conf, 9, r1, {}, a, rfi)
    BY <1>1, <1>3
  <2> HIDE DEF r1
  <2> QED
    BY <1>3, <2>1, AudioApart, PlusJoin
<1>8. /\ UsersServed(conf, C9)
      /\ \A w : Leads(conf, <<Assume(w)>>, C9, C9)
      /\ \A w : Leads(conf, <<Attempt(w, <<>>)>>, C9, C9)
  <2>1. UsersServed(conf, C9)
    BY StageServed, 9 \in 7..11
  <2>2. \A w : Leads(conf, <<Assume(w)>>, C9, C9)
    BY <2>1, IdleStep, UndoesLeads
  <2>3. /\ Undoes(conf, <<>>, C9, C9)
        /\ Served(conf, ThreadsAt(conf, 9, rfi), HandlesAt(conf, 9),
                  RenderersAt(9))
    BY <2>1, NoStep, StageServed, 9 \in 7..11
  <2>4. \A w : Leads(conf, <<Attempt(w, <<>>)>>, C9, C9)
    BY <2>3, AttemptStep_, 9 \in 7..10 DEF Complete
  <2> QED
    BY <2>1, <2>2, <2>4
<1>9. Leads(conf, <<Call("setup", "audio")>>, C9, P({}, a))
  <2>1. Undoes(conf, <<Call("setup", "audio")>>, P({}, {}), P({}, a))
    BY <1>2, <1>3, AudioApart, PlusSetup
  <2> QED
    BY <1>4, <2>1, UndoesLeads
<1> HIDE DEF stop, drop, cleanup, C9
<1>10. Undoes(conf, <<drop, cleanup>>, P({}, a), C9)
  BY <1>5, Undoes2
<1>11. Undoes(conf, u1, P({}, a), C9)
  <2>1. Undoes(conf, <<>>, P({}, a), P({}, a))
    BY <1>6, NoStep
  <2>2. Undoes(conf, stop \o <<>>, P({}, a), P({}, a))
    BY <1>6, <2>1, UndoesThen
  <2> QED
    BY <1>10, <2>2, UndoesThen
<1>12. Undoes(conf, u2, P(r1, a), C9)
  <2>1. Undoes(conf, stop \o StopThread("AudioRecv"), P(r1, a), P({}, a))
    BY <1>6, <1>7, UndoesThen
  <2> QED
    BY <1>10, <2>1, UndoesThen
<1> HIDE DEF u1, u2
<1>13. Leads(conf, <<Create("AudioRecv", u1)>>, P({}, a), P(r1, a))
  <2>1. /\ PlusServed(conf, 9, {}, {}, a, rfi)
        /\ PlusServed(conf, 9, r1, {}, a, rfi)
    BY <1>1, <1>2, <1>3
  <2> HIDE DEF r1
  <2> QED
    BY <1>3, <1>11, <2>1, AudioApart, PlusCreate DEF C9
<1>14. Leads(conf, When(~conf.directAudio, <<Create("AudioDec", u2)>>),
             P(r1, a), P(r2, a))
  <2>1. CASE conf.directAudio
    <3>1. r2 = r1 /\ When(~conf.directAudio, <<Create("AudioDec", u2)>>) = <<>>
      BY <2>1 DEF AudioThreads, When
    <3> QED
      BY <1>6, <3>1, NoStep
  <2>2. CASE ~conf.directAudio
    <3>1. /\ r2 = r1 \cup {"AudioDec"}
          /\ When(~conf.directAudio, <<Create("AudioDec", u2)>>)
               = <<Create("AudioDec", u2)>>
      BY <2>2 DEF AudioThreads, When
    <3>2. /\ PlusServed(conf, 9, r1, {}, a, rfi)
          /\ PlusServed(conf, 9, r2, {}, a, rfi)
      BY <1>1, <1>3
    <3> HIDE DEF r1, r2
    <3>3. Leads(conf, <<Create("AudioDec", u2)>>, P(r1, a), P(r2, a))
      BY <1>12, <3>1, <3>2, AudioApart, PlusCreate DEF C9
    <3> QED
      BY <3>1, <3>3
  <2> QED
    BY <2>1, <2>2
<1> DEFINE x1 == Assume("opus")
           x2 == Attempt("init", <<>>)
           x3 == Call("setup", "audio")
           x4 == Call("start", "audio")
           x5 == Create("AudioRecv", u1)
           p2 == When(~conf.directAudio, <<Create("AudioDec", u2)>>)
           s1 == P({}, a)
           s2 == P(r1, a)
           s3 == P(r2, a)
<1>15. /\ Leads(conf, <<x1>>, C9, C9) /\ Leads(conf, <<x2>>, C9, C9)
       /\ Leads(conf, <<x3>>, C9, s1) /\ Leads(conf, <<x4>>, s1, s1)
       /\ Leads(conf, <<x5>>, s1, s2) /\ Leads(conf, p2, s2, s3)
  BY <1>6, <1>8, <1>9, <1>13, <1>14, UndoesLeads
<1>16. startAudioStream = <<x1, x2, x3, x4, x5>> \o p2
  BY DEF startAudioStream, u1, u2, stop, drop, cleanup
<1>17. s3 = With(9, ThreadsAt(conf, 10, rfi), HandlesAt(conf, 10),
                 RenderersAt(10), rfi)
  BY AtTen DEF Plus
<1> HIDE DEF x1, x2, x3, x4, x5, p2, s1, s2, s3
<1>18. Leads(conf, <<x1, x2, x3, x4, x5>>, C9, s2)
  BY <1>15, Leads5
<1>19. Leads(conf, <<x1, x2, x3, x4, x5>> \o p2, C9, s3)
  BY <1>15, <1>18, LeadsThen
<1> QED
  BY <1>16, <1>17, <1>19 DEF C9

LEMMA AudioStreamStops ==
  ASSUME NEW rfi
  PROVE  Undoes(conf, stopAudioStream, Complete(conf, 10, rfi),
                With(10, ThreadsAt(conf, 9, rfi), HandlesAt(conf, 9),
                     RenderersAt(9), rfi))
<1> DEFINE P(ts, rs) == Plus(conf, 10, 9, ts, {}, rs, rfi)
           all == {"AudioRecv", "AudioDec"}
           a == {"audio"}
           dec == IF conf.directAudio THEN {} ELSE {"AudioDec"}
           s == P(AudioThreads(conf), a)
           x1 == Call("stop", "audio")
           x2 == Cancel({"AudioRecv"})
           q1 == Signal({"packetQueue"})
           q2 == Cancel({"AudioDec"})
           d1 == When(~conf.directAudio, <<q1, q2>>)
           j == <<Join("AudioRecv")>>
           d2 == When(~conf.directAudio, <<Join("AudioDec")>>)
           last == <<Call("cleanup", "audio")>>
<1>1. \A ts \in SUBSET all : PlusServed(conf, 9, ts, {}, a, rfi)
  BY AudioServed
<1>2. \A rs : PlusServed(conf, 9, {}, {}, rs, rfi)
  BY AudioServed
<1>3. /\ AudioThreads(conf) \in SUBSET all /\ dec \in SUBSET all
      /\ dec = AudioThreads(conf) \ {"AudioRecv"} /\ {} = a \ {"audio"}
  BY DEF AudioThreads
<1>4. s = Complete(conf, 10, rfi)
  BY AtTen DEF Plus, Complete
<1>5. /\ Undoes(conf, <<x1>>, s, s) /\ Undoes(conf, <<x2>>, s, s)
      /\ Undoes(conf, <<q1>>, s, s) /\ Undoes(conf, <<q2>>, s, s)
      /\ UsersServed(conf, s)
  BY <1>1, <1>3, AudioApart, PlusIdle
<1> HIDE DEF x1, x2, q1, q2, s
<1>6. Undoes(conf, d1, s, s)
  <2>1. Undoes(conf, <<q1, q2>>, s, s)
    BY <1>5, Undoes2
  <2> QED
    BY <1>5, <2>1, NoStep DEF When
<1>7. Undoes(conf, <<x1, x2>>, s, s)
  BY <1>5, Undoes2
<1>8. Undoes(conf, j, s, P(dec, a))
  <2>1. /\ PlusServed(conf, 9, AudioThreads(conf), {}, a, rfi)
        /\ PlusServed(conf, 9, dec, {}, a, rfi)
    BY <1>1, <1>3
  <2> HIDE DEF dec
  <2> QED
    BY <1>3, <2>1, AudioApart, PlusJoin DEF s
<1>9. Undoes(conf, d2, P(dec, a), P({}, a))
  <2>1. {} = {"AudioDec"} \ {"AudioDec"} /\ {"AudioDec"} \in SUBSET all
    OBVIOUS
  <2>2. Undoes(conf, <<Join("AudioDec")>>, P({"AudioDec"}, a), P({}, a))
    BY <1>1, <2>1, AudioApart, PlusJoin
  <2>3. UsersServed(conf, P({}, a))
    BY <1>2, AudioApart, PlusUsers
  <2> QED
    BY <2>2, <2>3, NoStep DEF When
<1>10. Undoes(conf, last, P({}, a), P({}, {}))
  <2>1. PlusServed(conf, 9, {}, {}, a, rfi) /\ PlusServed(conf, 9, {}, {}, {}, rfi)
    BY <1>2
  <2> HIDE DEF a
  <2> QED
    BY <1>3, <2>1, AudioApart, PlusCleanup
<1>11. P({}, {}) = With(10, ThreadsAt(conf, 9, rfi), HandlesAt(conf, 9),
                        RenderersAt(9), rfi)
  BY PlusNothing
<1>12. stopAudioStream = <<x1, x2>> \o d1 \o j \o d2 \o last
  BY DEF stopAudioStream, x1, x2, q1, q2
<1> DEFINE s1 == P(dec, a)
           s2 == P({}, a)
           s3 == P({}, {})
<1>13. /\ Undoes(conf, j, s, s1) /\ Undoes(conf, d2, s1, s2)
       /\ Undoes(conf, last, s2, s3)
  BY <1>8, <1>9, <1>10
<1> HIDE DEF d1, j, d2, last, s1, s2, s3
<1>14. Undoes(conf, <<x1, x2>> \o d1, s, s)
  BY <1>6, <1>7, UndoesThen
<1>15. Undoes(conf, <<x1, x2>> \o d1 \o j, s, s1)
  BY <1>13, <1>14, UndoesThen
<1>16. Undoes(conf, <<x1, x2>> \o d1 \o j \o d2, s, s2)
  BY <1>13, <1>15, UndoesThen
<1>17. Undoes(conf, <<x1, x2>> \o d1 \o j \o d2 \o last, s, s3)
  BY <1>13, <1>16, UndoesThen
<1> QED
  BY <1>4, <1>11, <1>12, <1>17 DEF s3

(***************************************************************************)
(* The input stream                                                        *)
(***************************************************************************)

InputHandles == IF OnTcp THEN {"input"} ELSE {}

LEMMA InputServed ==
  ASSUME NEW rfi, NEW hs, NEW ts \in SUBSET {"InputSend"},
         ts = {} \/ hs = InputHandles
  PROVE  PlusServed(conf, 10, ts, hs, {}, rfi)
<1>1. Served(conf, ThreadsAt(conf, 10, rfi), HandlesAt(conf, 10), RenderersAt(10))
  BY StageServed, 10 \in 7..11
<1>2. HandlesAt(conf, 10) = {"control", "video"}
  BY DEF HandlesAt
<1> QED
  BY <1>1, <1>2
  DEF PlusServed, Served, ControlThreads, InputHandles, OnTcp, TcpIn

LEMMA InputApart ==
  ASSUME NEW rfi
  PROVE  /\ "InputSend" \in Threads \ {"AudioPing"}
         /\ "InputSend" \notin ThreadsAt(conf, 10, rfi)
         /\ "input" \notin HandlesAt(conf, 10)
         /\ 10 \in 7..10 /\ 10 \in 7..11 /\ 11 \in 7..11
         /\ {"freeList", "inputQueue"} \in SUBSET Signals
BY DEF ThreadsAt, ControlThreads, VideoThreads, AudioThreads, Threads,
       HandlesAt, Signals

LEMMA AtEleven ==
  ASSUME NEW rfi
  PROVE  /\ ThreadsAt(conf, 11, rfi) = ThreadsAt(conf, 10, rfi) \cup {"InputSend"}
         /\ HandlesAt(conf, 11) = HandlesAt(conf, 10) \cup InputHandles
         /\ RenderersAt(11) = RenderersAt(10) \cup {}
BY DEF ThreadsAt, HandlesAt, RenderersAt, InputHandles, OnTcp, TcpIn

LEMMA InputStreamStarts ==
  ASSUME NEW rfi
  PROVE  Leads(conf, startInputStream, Complete(conf, 10, rfi),
               With(10, ThreadsAt(conf, 11, rfi), HandlesAt(conf, 11),
                    RenderersAt(11), rfi))
<1> DEFINE P(ts, hs) == Plus(conf, 10, 10, ts, hs, {}, rfi)
           C10 == Complete(conf, 10, rfi)
           t == {"InputSend"}
           h == InputHandles
           u == When(OnTcp, <<Close("input")>>)
           p1 == When(OnTcp, <<Open("input", <<>>)>>)
           p2 == <<Create("InputSend", u)>>
<1>1. /\ PlusServed(conf, 10, {}, {}, {}, rfi)
      /\ PlusServed(conf, 10, {}, h, {}, rfi) /\ PlusServed(conf, 10, t, h, {}, rfi)
      /\ PlusServed(conf, 10, {}, {"input"}, {}, rfi)
  BY InputServed
<1>2. C10 = P({}, {})
  BY PlusNothing
<1>3. Undoes(conf, <<>>, C10, C10) /\ UsersServed(conf, C10)
      /\ UsersServed(conf, P({}, h))
  BY <1>1, <1>2, InputApart, PlusUsers, NoStep
<1>4. Leads(conf, p1, C10, P({}, h))
  <2>1. {"input"} = {} \cup {"input"}
    OBVIOUS
  <2>2. Leads(conf, <<Open("input", <<>>)>>, P({}, {}), P({}, {"input"}))
    BY <1>1, <1>2, <1>3, <2>1, InputApart, PlusOpen
  <2> QED
    BY <1>2, <1>3, <2>2, NoStep DEF When, InputHandles
<1>5. Undoes(conf, u, P({}, h), C10)
  <2>1. {} = {"input"} \ {"input"}
    OBVIOUS
  <2>2. Undoes(conf, <<Close("input")>>, P({}, {"input"}), P({}, {}))
    BY <1>1, <2>1, InputApart, PlusClose
  <2> QED
    BY <1>2, <1>3, <2>2, NoStep DEF When, InputHandles
<1> HIDE DEF u, h
<1>6. Leads(conf, p2, P({}, h), P(t, h))
  <2>1. t = {} \cup {"InputSend"}
    OBVIOUS
  <2> HIDE DEF t
  <2> QED
    BY <1>1, <1>5, <2>1, InputApart, PlusCreate
<1>7. P(t, h) = With(10, ThreadsAt(conf, 11, rfi), HandlesAt(conf, 11),
                     RenderersAt(11), rfi)
  BY AtEleven DEF Plus, h
<1>8. startInputStream = p1 \o p2
  BY DEF startInputStream, u
<1> HIDE DEF p1, p2
<1> QED
  BY <1>4, <1>6, <1>7, <1>8, LeadsThen

LEMMA InputStreamStops ==
  ASSUME NEW rfi
  PROVE  Undoes(conf, stopInputStream, Complete(conf, 11, rfi),
                With(11, ThreadsAt(conf, 10, rfi), HandlesAt(conf, 10),
                     RenderersAt(10), rfi))
<1> DEFINE P(ts, hs) == Plus(conf, 11, 10, ts, hs, {}, rfi)
           t == {"InputSend"}
           h == InputHandles
           s == P(t, h)
           x1 == Signal({"freeList", "inputQueue"})
           x2 == Join("InputSend")
           last == When(OnTcp, <<Close("input")>>)
<1>1. /\ PlusServed(conf, 10, {}, {}, {}, rfi)
      /\ PlusServed(conf, 10, {}, h, {}, rfi) /\ PlusServed(conf, 10, t, h, {}, rfi)
      /\ PlusServed(conf, 10, {}, {"input"}, {}, rfi)
  BY InputServed
<1>2. s = Complete(conf, 11, rfi)
  BY AtEleven DEF Plus, Complete
<1>3. Undoes(conf, <<x1>>, s, s) /\ UsersServed(conf, P({}, {}))
  BY <1>1, InputApart, PlusIdle
<1>4. Undoes(conf, <<x2>>, s, P({}, h))
  <2>1. {} = t \ {"InputSend"}
    OBVIOUS
  <2> HIDE DEF t
  <2> QED
    BY <1>1, <2>1, InputApart, PlusJoin
<1>5. Undoes(conf, last, P({}, h), P({}, {}))
  <2>1. {} = {"input"} \ {"input"}
    OBVIOUS
  <2>2. Undoes(conf, <<Close("input")>>, P({}, {"input"}), P({}, {}))
    BY <1>1, <2>1, InputApart, PlusClose
  <2> QED
    BY <1>3, <2>2, NoStep DEF When, InputHandles
<1>6. P({}, {}) = With(11, ThreadsAt(conf, 10, rfi), HandlesAt(conf, 10),
                       RenderersAt(10), rfi)
  BY PlusNothing
<1>7. stopInputStream = <<x1, x2>> \o last
  BY DEF stopInputStream
<1> HIDE DEF x1, x2, last, s, P
<1>8. Undoes(conf, <<x1, x2>>, s, P({}, h))
  BY <1>3, <1>4, Undoes2
<1>9. Undoes(conf, <<x1, x2>> \o last, s, P({}, {}))
  BY <1>5, <1>8, UndoesThen
<1> QED
  BY <1>2, <1>6, <1>7, <1>9

(***************************************************************************)
(* The stages from the start of the control stream on                      *)
(***************************************************************************)

LEMMA StreamsStart ==
  Leads(conf, StartStreams, Complete(conf, 7, RfiEnabled),
        Complete(conf, 11, RfiEnabled))
<1> DEFINE rfi == RfiEnabled
           C(n) == Complete(conf, n, rfi)
           x(name) == <<Step("complete", {name}, <<>>)>>
           p1 == startControlStream
           p2 == startVideoStream
           p3 == startAudioStream
           p4 == startInputStream
           W(m, n) == With(m, ThreadsAt(conf, n, rfi), HandlesAt(conf, n),
                           RenderersAt(n), rfi)
<1> HIDE DEF rfi
<1>1. ASSUME NEW n \in 8..11, NEW m, m = n - 1, NEW name
      PROVE  Leads(conf, x(name), W(m, n), C(n))
  <2>1. Served(conf, ThreadsAt(conf, n, rfi), HandlesAt(conf, n), RenderersAt(n))
    <3>1. n \in 7..11
      OBVIOUS
    <3> QED
      BY <3>1, StageServed
  <2>2. Leads(conf, x(name), W(n - 1, n), C(n))
    BY <2>1, StageStep
  <2> QED
    BY <1>1, <2>2
<1> HIDE DEF x, C
<1>2. /\ Leads(conf, x("controlStart"), W(7, 8), C(8))
      /\ Leads(conf, x("videoStart"), W(8, 9), C(9))
      /\ Leads(conf, x("audioStart"), W(9, 10), C(10))
      /\ Leads(conf, x("inputStart"), W(10, 11), C(11))
  <2> HIDE DEF W
  <2>1. /\ 8 \in 8..11 /\ 9 \in 8..11 /\ 10 \in 8..11 /\ 11 \in 8..11
        /\ 7 = 8 - 1 /\ 8 = 9 - 1 /\ 9 = 10 - 1 /\ 10 = 11 - 1
    OBVIOUS
  <2> QED
    BY <1>1, <2>1
<1>3. Leads(conf, p1 \o x("controlStart"), C(7), C(8))
  <2>1. Leads(conf, p1, C(7), W(7, 8))
    BY ControlStreamStarts DEF rfi, C
  <2> QED
    BY <1>2, <2>1, LeadsThen
<1>4. Leads(conf, p2 \o x("videoStart"), C(8), C(9))
  <2>1. Leads(conf, p2, C(8), W(8, 9))
    BY VideoStreamStarts DEF C
  <2> QED
    BY <1>2, <2>1, LeadsThen
<1>5. Leads(conf, p3 \o x("audioStart"), C(9), C(10))
  <2>1. Leads(conf, p3, C(9), W(9, 10))
    BY AudioStreamStarts DEF C
  <2> QED
    BY <1>2, <2>1, LeadsThen
<1>6. Leads(conf, p4 \o x("inputStart"), C(10), C(11))
  <2>1. Leads(conf, p4, C(10), W(10, 11))
    BY InputStreamStarts DEF C
  <2> QED
    BY <1>2, <2>1, LeadsThen
<1> DEFINE q1 == p1 \o x("controlStart")
           q2 == p2 \o x("videoStart")
           q3 == p3 \o x("audioStart")
           q4 == p4 \o x("inputStart")
<1>7. StartStreams = q1 \o q2 \o q3 \o q4
  BY DEF StartStreams, Stage, x
<1>8. /\ Leads(conf, q1, C(7), C(8)) /\ Leads(conf, q2, C(8), C(9))
      /\ Leads(conf, q3, C(9), C(10)) /\ Leads(conf, q4, C(10), C(11))
  BY <1>3, <1>4, <1>5, <1>6
<1> HIDE DEF q1, q2, q3, q4, C
<1>9. Leads(conf, q1 \o q2, C(7), C(9))
  BY <1>8, LeadsThen
<1>10. Leads(conf, q1 \o q2 \o q3, C(7), C(10))
  BY <1>8, <1>9, LeadsThen
<1>11. Leads(conf, q1 \o q2 \o q3 \o q4, C(7), C(11))
  BY <1>8, <1>10, LeadsThen
<1> QED
  BY <1>7, <1>11 DEF C, rfi

(***************************************************************************)
(* The end of a call                                                       *)
(***************************************************************************)

LEMMA NothingOver ==
  ASSUME NEW c
  PROVE  Over(c, Nothing) /\ UsersServed(c, Nothing)
BY DEF Over, Settled, AtStage, Nothing, ThreadsAt, HandlesAt, PartsAt,
       RenderersAt, AudioAt, UsersServed, ControlThreads

LEMMA LastSteps ==
  ASSUME NEW c, NEW s, UsersServed(c, s)
  PROVE  /\ Settled(c, s) => Leads(c, <<Stop>>, s, Nothing)
                             /\ Leads(c, <<Undo>>, s, Nothing)
         /\ GivenUp(c, s) => Leads(c, <<Failed>>, s, Nothing)
<1>1. ASSUME NEW y, y.op \in LastOps, Needs(c, y, s)
      PROVE  Leads(c, <<y>>, s, Nothing)
  <2>1. After(c, y, s) = Nothing
    BY <1>1 DEF After, AfterPoint, PointOps, LastOps
  <2>2. MayFail(c, y, s)
    BY <1>1 DEF MayFail, FailOps, LastOps
  <2> QED
    BY <1>1, <2>1, <2>2, NothingOver, OneLeads
<1>2. ASSUME Settled(c, s)
      PROVE  Leads(c, <<Stop>>, s, Nothing) /\ Leads(c, <<Undo>>, s, Nothing)
  <2>1. Stop.op = "stopConnection" /\ Undo.op = "undo"
    BY DEF Stop, Undo, Step
  <2>2. Needs(c, Stop, s) /\ Needs(c, Undo, s)
    BY <1>2, <2>1 DEF Needs
  <2> QED
    BY <1>1, <2>1, <2>2 DEF LastOps
<1>3. ASSUME GivenUp(c, s)
      PROVE  Leads(c, <<Failed>>, s, Nothing)
  <2>1. Failed.op = "failed"
    BY DEF Failed, Step
  <2>2. Needs(c, Failed, s)
    BY <1>3, <2>1 DEF Needs
  <2> QED
    BY <1>1, <2>1, <2>2 DEF LastOps
<1> QED
  BY <1>2, <1>3

Undone == Step("undone", {}, <<>>)

LEMMA UndoneStep ==
  ASSUME NEW c, NEW s, UsersServed(c, s), s.stage \in 1..11,
         AtStage(c, AtPoint(s, s.stage - 1, s.audio, s.rtsp)),
         s.rtsp \in {"no", "done"}
  PROVE  Leads(c, <<Undone, Undo>>, s, Nothing)
<1> DEFINE r == AtPoint(s, s.stage - 1, s.audio, s.rtsp)
<1>1. UsersServed(c, r) /\ r.rtsp = s.rtsp
  BY DEF UsersServed, AtPoint
<1>2. Settled(c, r)
  BY <1>1 DEF Settled
<1>3. Leads(c, <<Undo>>, r, Nothing)
  BY <1>1, <1>2, LastSteps
<1>4. Undone.op = "undone"
  BY DEF Undone, Step
<1>5. Needs(c, Undone, s) /\ MayFail(c, Undone, s)
  BY <1>4 DEF Needs, MayFail, FailOps
<1> HIDE DEF r
<1>6. After(c, Undone, s) = r
  BY <1>4 DEF After, AfterPoint, PointOps, LastOps, r
<1>7. Leads(c, <<Undone>>, s, r)
  BY <1>1, <1>5, <1>6, OneLeads
<1> QED
  BY <1>3, <1>7, Leads2

LEMMA StageNames ==
  /\ Len(Stages) = 11
  /\ Stages[1] = "platform" /\ Stages[2] = "nameResolution"
  /\ Stages[3] = "audioInit" /\ Stages[4] = "rtspHandshake"
  /\ Stages[5] = "controlInit" /\ Stages[6] = "videoInit"
  /\ Stages[7] = "inputInit" /\ Stages[8] = "controlStart"
  /\ Stages[9] = "videoStart" /\ Stages[10] = "audioStart"
  /\ Stages[11] = "inputStart"
BY DEF Stages

LEMMA UndoStages_ ==
  /\ UndoStage(11) = stopInputStream /\ UndoStage(10) = stopAudioStream
  /\ UndoStage(9) = stopVideoStream /\ UndoStage(8) = stopControlStream
  /\ UndoStage(7) = <<Destroy("input")>> /\ UndoStage(6) = <<Destroy("video")>>
  /\ UndoStage(5) = <<Destroy("control")>> /\ UndoStage(4) = <<>>
  /\ UndoStage(3) = destroyAudioStream /\ UndoStage(2) = <<>>
  /\ UndoStage(1) = <<Destroy("platform")>>
BY StageNames DEF UndoStage

(* A stream stops, and its stage is undone.                                *)
LEMMA StreamUndone ==
  ASSUME NEW n \in 8..11
  PROVE  Leads(conf, UndoStage(n) \o <<Undone, Undo>>,
               Complete(conf, n, RfiEnabled), Nothing)
<1> DEFINE rfi == RfiEnabled
           s == With(n, ThreadsAt(conf, n - 1, rfi), HandlesAt(conf, n - 1),
                     RenderersAt(n - 1), rfi)
<1>1. n - 1 \in 7..11 /\ n \in 7..11 /\ n - 1 # n
  OBVIOUS
<1>2. Undoes(conf, UndoStage(n), Complete(conf, n, rfi), s)
  <2>1. CASE n = 8
    BY <2>1, 8 - 1 = 7, UndoStages_, ControlStreamStops
    DEF ThreadsAt, HandlesAt, RenderersAt
  <2>2. CASE n = 9
    BY <2>2, 9 - 1 = 8, UndoStages_, VideoStreamStops
  <2>3. CASE n = 10
    BY <2>3, 10 - 1 = 9, UndoStages_, AudioStreamStops
  <2>4. CASE n = 11
    BY <2>4, 11 - 1 = 10, UndoStages_, InputStreamStops
  <2> QED
    BY <2>1, <2>2, <2>3, <2>4
<1>3. UsersServed(conf, s)
  BY <1>1, StageServed, WithServed
<1>4. PartsAt(n) = PartsAt(n - 1)
  BY DEF PartsAt
<1>5. s.stage = n /\ s.audio = "bound" /\ s.rtsp = "done"
  BY DEF With
<1>6. AtStage(conf, AtPoint(s, n - 1, "bound", "done"))
  BY <1>1, <1>4 DEF AtStage, AtPoint, With, AudioAt
<1> HIDE DEF s, rfi
<1>7. Leads(conf, <<Undone, Undo>>, s, Nothing)
  BY <1>3, <1>5, <1>6, UndoneStep
<1>8. Leads(conf, UndoStage(n), Complete(conf, n, rfi), s)
  BY <1>2, UndoesLeads
<1> QED
  BY <1>7, <1>8, LeadsThen DEF rfi

LEMMA ThreadlessServed ==
  ASSUME NEW c, NEW s, s.threads = {}
  PROVE  UsersServed(c, s)
BY DEF UsersServed

LEMMA LowHolds ==
  ASSUME NEW c, NEW s, AtStage(c, s), s.stage \in 0..7
  PROVE  s.threads = {} /\ s.handles = {} /\ s.renderers = {}
BY DEF AtStage, ThreadsAt, HandlesAt, RenderersAt

LEMMA DestroyStep ==
  ASSUME NEW c, NEW s, s.threads = {}, NEW p \in Parts,
         p = "audio" => s.audio = "none"
  PROVE  Undoes(c, <<Destroy(p)>>, s,
                Holding(s, {}, s.handles, s.parts \ {p}, s.renderers))
<1> DEFINE u == Holding(s, {}, s.handles, s.parts \ {p}, s.renderers)
           x == Destroy(p)
<1>1. x.op = "destroy" /\ x.on = {p}
  BY DEF Destroy, Step
<1>2. UsersServed(c, s) /\ UsersServed(c, u)
  BY ThreadlessServed DEF Holding
<1> HIDE DEF x
<1>3. Needs(c, x, s)
  BY <1>1 DEF Needs
<1>4. u = After(c, x, s)
  BY <1>1 DEF After, AfterHold, PointOps, LastOps
<1>5. x.op \notin FailOps
  BY <1>1 DEF FailOps
<1> HIDE DEF u
<1> QED
  BY <1>2, <1>3, <1>4, <1>5, OneUndoes DEF x, u

(* An early stage is undone, all but the one of the audio stream.          *)
LEMMA EarlyUndone ==
  ASSUME NEW s, Settled(conf, s), s.stage \in 1..7, s.stage # 3
  PROVE  Leads(conf, UndoStage(s.stage) \o <<Undone, Undo>>, s, Nothing)
<1>1. /\ AtStage(conf, s) /\ s.rtsp \in {"no", "done"}
      /\ s.threads = {} /\ s.handles = {} /\ s.renderers = {}
  BY LowHolds DEF Settled
<1>2. ASSUME NEW p \in Parts, p # "audio",
             UndoStage(s.stage) = <<Destroy(p)>>,
             PartsAt(s.stage) \ {p} = PartsAt(s.stage - 1),
             s.stage \in {1, 5, 6, 7}
      PROVE  Leads(conf, UndoStage(s.stage) \o <<Undone, Undo>>, s, Nothing)
  <2> DEFINE r == Holding(s, {}, s.handles, s.parts \ {p}, s.renderers)
  <2>1. Leads(conf, <<Destroy(p)>>, s, r)
    BY <1>1, <1>2, DestroyStep, UndoesLeads
  <2>2. /\ r.threads = {} /\ r.stage = s.stage /\ r.audio = s.audio
        /\ r.rtsp = s.rtsp /\ r.parts = s.parts \ {p} /\ r.handles = {}
        /\ r.renderers = {} /\ r.rfi = s.rfi
    BY <1>1 DEF Holding
  <2> HIDE DEF r
  <2>3. AtStage(conf, AtPoint(r, r.stage - 1, r.audio, r.rtsp))
    BY <1>1, <1>2, <2>2
    DEF AtStage, AtPoint, ThreadsAt, HandlesAt, RenderersAt, AudioAt
  <2>4. Leads(conf, <<Undone, Undo>>, r, Nothing)
    BY <1>1, <2>2, <2>3, ThreadlessServed, UndoneStep
  <2> QED
    BY <1>2, <2>1, <2>4, LeadsThen
<1>3. ASSUME s.stage \in {2, 4}
      PROVE  Leads(conf, UndoStage(s.stage) \o <<Undone, Undo>>, s, Nothing)
  <2>1. UndoStage(s.stage) = <<>>
    BY <1>3, UndoStages_
  <2>2. UsersServed(conf, s)
    BY <1>1, ThreadlessServed
  <2>3. Leads(conf, <<>>, s, s)
    BY <2>2, NoStep
  <2>4. AtStage(conf, AtPoint(s, s.stage - 1, s.audio, s.rtsp))
    BY <1>1, <1>3
    DEF AtStage, AtPoint, ThreadsAt, HandlesAt, RenderersAt, PartsAt, AudioAt
  <2>5. Leads(conf, <<Undone, Undo>>, s, Nothing)
    BY <1>1, <2>2, <2>4, UndoneStep
  <2> QED
    BY <2>1, <2>3, <2>5, LeadsThen
<1>4. CASE s.stage = 7
  <2>1. PartsAt(7) \ {"input"} = PartsAt(7 - 1) /\ "input" \in Parts
    BY DEF PartsAt, Parts
  <2> QED
    BY <1>2, <1>4, <2>1, UndoStages_
<1>5. CASE s.stage = 6
  <2>1. PartsAt(6) \ {"video"} = PartsAt(6 - 1) /\ "video" \in Parts
    BY DEF PartsAt, Parts
  <2> QED
    BY <1>2, <1>5, <2>1, UndoStages_
<1>6. CASE s.stage = 5
  <2>1. PartsAt(5) \ {"control"} = PartsAt(5 - 1) /\ "control" \in Parts
    BY DEF PartsAt, Parts
  <2> QED
    BY <1>2, <1>6, <2>1, UndoStages_
<1>7. CASE s.stage = 1
  <2>1. PartsAt(1) \ {"platform"} = PartsAt(1 - 1) /\ "platform" \in Parts
    BY DEF PartsAt, Parts
  <2> QED
    BY <1>2, <1>7, <2>1, UndoStages_
<1> QED
  BY <1>3, <1>4, <1>5, <1>6, <1>7

(* What is known of the audio socket and its thread, in a situation        *)
AudioKnown(a) ==
  /\ threads["AudioPing"] # "none" => handles["audio"] # "invalid"
  /\ a = "none" => threads["AudioPing"] = "none" /\ handles["audio"] = "invalid"
  /\ a = "quiet" => threads["AudioPing"] = "none"
  /\ a = "bound" => handles["audio"] # "invalid" \/ AudioUnbound

LEMMA AudioUndone ==
  ASSUME NEW s, Settled(conf, s), s.stage = 3, AudioKnown(s.audio)
  PROVE  \E a : /\ AudioKnown(a)
                /\ Leads(conf, UndoStage(3) \o <<Undone, Undo>>,
                         AtPoint(s, 3, a, s.rtsp), Nothing)
<1> DEFINE At3(a) == AtPoint(s, 3, a, s.rtsp)
           t == "AudioPing"
<1>1. /\ AtStage(conf, s) /\ s.rtsp \in {"no", "done"}
      /\ s.threads = {} /\ s.handles = {} /\ s.renderers = {}
      /\ s.parts = PartsAt(3) /\ s.audio \in {"any", "bound"}
  BY LowHolds DEF Settled, AtStage, AudioAt
<1>2. \A a : /\ At3(a).threads = {} /\ At3(a).handles = {} /\ At3(a).audio = a
             /\ At3(a).renderers = {} /\ At3(a).parts = PartsAt(3)
             /\ At3(a).stage = 3 /\ At3(a).rtsp = s.rtsp /\ At3(a).rfi = s.rfi
             /\ At3(a).streams = s.streams
             /\ UsersServed(conf, At3(a))
  <2> TAKE a
  <2>1. /\ At3(a).threads = {} /\ At3(a).handles = {} /\ At3(a).audio = a
        /\ At3(a).renderers = {} /\ At3(a).parts = PartsAt(3)
        /\ At3(a).stage = 3 /\ At3(a).rtsp = s.rtsp /\ At3(a).rfi = s.rfi
        /\ At3(a).streams = s.streams
    BY <1>1 DEF AtPoint
  <2> HIDE DEF At3
  <2>2. UsersServed(conf, At3(a))
    BY <2>1, ThreadlessServed
  <2> QED
    BY <2>1, <2>2
<1>3. \A a, b : AtPoint(At3(a), 3, b, s.rtsp) = At3(b)
  BY DEF AtPoint
<1> HIDE DEF At3
<1> DEFINE r == Holding(At3("none"), {}, {}, PartsAt(3) \ {"audio"}, {})
<1>4. /\ Leads(conf, <<Destroy("audio")>>, At3("none"), r)
      /\ Leads(conf, <<Undone, Undo>>, r, Nothing)
  <2>1. Leads(conf, <<Destroy("audio")>>, At3("none"), r)
    BY <1>2, "audio" \in Parts, DestroyStep, UndoesLeads DEF Parts
  <2>2. /\ r.threads = {} /\ r.stage = 3 /\ r.audio = "none"
        /\ r.rtsp = s.rtsp /\ r.parts = PartsAt(3) \ {"audio"} /\ r.handles = {}
        /\ r.renderers = {} /\ r.rfi = s.rfi
    BY <1>2 DEF Holding
  <2> HIDE DEF r
  <2>3. PartsAt(3) \ {"audio"} = PartsAt(3 - 1)
    BY DEF PartsAt
  <2>4. AtStage(conf, AtPoint(r, r.stage - 1, r.audio, r.rtsp))
    BY <2>2, <2>3
    DEF AtStage, AtPoint, ThreadsAt, HandlesAt, RenderersAt, AudioAt
  <2>5. Leads(conf, <<Undone, Undo>>, r, Nothing)
    BY <1>1, <2>2, <2>4, ThreadlessServed, UndoneStep
  <2> QED
    BY <2>1, <2>5
<1> HIDE DEF r
<1>5. Undoes(conf, <<Close("audio")>>, At3("quiet"), At3("none"))
  <2> DEFINE x == Close("audio")
  <2>1. x.op = "close" /\ x.on = {"audio"}
    BY DEF Close, Step
  <2> HIDE DEF x
  <2>2. Needs(conf, x, At3("quiet"))
    BY <1>2, <2>1 DEF Needs, Handles
  <2>3. After(conf, x, At3("quiet")) = At3("none")
    BY <1>2, <1>3, <2>1 DEF After, AfterPoint, PointOps, LastOps
  <2>4. x.op \notin FailOps
    BY <2>1 DEF FailOps
  <2> QED
    BY <1>2, <2>2, <2>3, <2>4, OneUndoes DEF x
<1>6. ASSUME NEW a \in {"any", "bound"}
      PROVE  Undoes(conf, StopThread(t), At3(a), At3("quiet"))
  <2> DEFINE x == Join(t)
  <2>1. x.op = "join" /\ x.on = {"AudioPing"} /\ t \in Threads
    BY DEF Join, Step, Threads
  <2>2. Undoes(conf, <<Cancel({t})>>, At3(a), At3(a))
    BY <1>2, <2>1, IdleStep
  <2> HIDE DEF x
  <2>3. Needs(conf, x, At3(a))
    BY <1>2, <2>1 DEF Needs
  <2>4. After(conf, x, At3(a)) = At3("quiet")
    BY <1>2, <1>3, <2>1 DEF After, AfterPoint, PointOps, LastOps
  <2>5. x.op \notin FailOps
    BY <2>1 DEF FailOps
  <2>6. Undoes(conf, <<x>>, At3(a), At3("quiet"))
    BY <1>2, <2>3, <2>4, <2>5, OneUndoes
  <2> QED
    BY <2>2, <2>6, Undoes2 DEF x, StopThread
<1> DEFINE last == <<Undone, Undo>>
           close == <<Close("audio")>>
           destroy == <<Destroy("audio")>>
<1>7. UndoStage(3) = When(handles["audio"] # "invalid",
                          When(threads[t] # "none", StopThread(t)) \o close)
                     \o destroy
  BY UndoStages_ DEF destroyAudioStream
<1>8. ASSUME NEW a, NEW p, AudioKnown(a), UndoStage(3) = p \o destroy,
              Leads(conf, p, At3(a), At3("none"))
       PROVE  Leads(conf, UndoStage(3) \o last, At3(a), Nothing)
  <2> HIDE DEF last, destroy
  <2>1. Leads(conf, p \o destroy, At3(a), r)
    BY <1>4, <1>8, LeadsThen DEF destroy
  <2> QED
    BY <1>4, <1>8, <2>1, LeadsThen DEF last
<1>9. CASE handles["audio"] = "invalid"
  <2>1. UndoStage(3) = <<>> \o destroy
    BY <1>7, <1>9 DEF When
  <2>2. AudioKnown("none")
    BY <1>9 DEF AudioKnown
  <2>3. Leads(conf, <<>>, At3("none"), At3("none"))
    BY <1>2, NoStep
  <2>4. Leads(conf, UndoStage(3) \o last, At3("none"), Nothing)
    BY <1>8, <2>1, <2>2, <2>3
  <2> QED
    BY <2>2, <2>4 DEF At3
<1>10. CASE handles["audio"] # "invalid" /\ threads[t] = "none"
  <2> DEFINE p == <<>> \o close
  <2>1. UndoStage(3) = p \o destroy
    BY <1>7, <1>10 DEF When
  <2>2. AudioKnown("quiet")
    BY <1>10 DEF AudioKnown
  <2>3. Undoes(conf, <<>>, At3("quiet"), At3("quiet"))
    BY <1>2, NoStep
  <2>4. Leads(conf, p, At3("quiet"), At3("none"))
    BY <1>5, <2>3, UndoesThen, UndoesLeads
  <2> HIDE DEF p
  <2>5. Leads(conf, UndoStage(3) \o last, At3("quiet"), Nothing)
    BY <1>8, <2>1, <2>2, <2>4
  <2> QED
    BY <2>2, <2>5 DEF At3
<1>11. CASE handles["audio"] # "invalid" /\ threads[t] # "none"
  <2> DEFINE p == StopThread(t) \o close
  <2>1. UndoStage(3) = p \o destroy
    BY <1>7, <1>11 DEF When
  <2>2. AudioKnown(s.audio) /\ s.audio \in {"any", "bound"}
    BY <1>1
  <2>3. Leads(conf, p, At3(s.audio), At3("none"))
    BY <1>5, <1>6, <2>2, UndoesThen, UndoesLeads
  <2> HIDE DEF p
  <2>4. Leads(conf, UndoStage(3) \o last, At3(s.audio), Nothing)
    BY <1>8, <2>1, <2>2, <2>3
  <2> QED
    BY <2>2, <2>4 DEF At3
<1> QED
  BY <1>9, <1>10, <1>11

(***************************************************************************)
(* The way up to the streams                                               *)
(***************************************************************************)

(* Situations before the streams start                                     *)
Early(n, ps, hs, a, q) ==
  [threads |-> {}, handles |-> hs, parts |-> ps, renderers |-> {},
   stage |-> n, audio |-> a, streams |-> FALSE, rfi |-> FALSE, rtsp |-> q]

LEMMA EarlyServed ==
  ASSUME NEW c, NEW n, NEW ps, NEW hs, NEW a, NEW q
  PROVE  UsersServed(c, Early(n, ps, hs, a, q))
BY ThreadlessServed DEF Early

LEMMA EarlyAtStage ==
  ASSUME NEW c, NEW n \in 0..7, NEW q \in {"no", "done"}, NEW a \in AudioAt(n),
         n >= 4 => q = "done"
  PROVE  /\ AtStage(c, Early(n, PartsAt(n), {}, a, q))
         /\ Settled(c, Early(n, PartsAt(n), {}, a, q))
         /\ GivenUp(c, Early(n, PartsAt(n), {}, a, q))
<1> DEFINE s == Early(n, PartsAt(n), {}, a, q)
<1>1. /\ s.threads = {} /\ s.handles = {} /\ s.parts = PartsAt(n)
      /\ s.renderers = {} /\ s.stage = n /\ s.audio = a /\ s.rtsp = q
      /\ s.rfi = FALSE
  BY DEF Early
<1>2. /\ ~(n >= 8) /\ ~(n >= 9) /\ ~(n >= 10) /\ ~(n >= 11)
      /\ n >= 4 => q = "done"
  OBVIOUS
<1> HIDE DEF s
<1>3. ThreadsAt(c, s.stage, s.rfi) = {}
  BY <1>1, <1>2 DEF ThreadsAt
<1>4. HandlesAt(c, s.stage) = {}
  BY <1>1, <1>2 DEF HandlesAt
<1>5. RenderersAt(s.stage) = {}
  BY <1>1, <1>2 DEF RenderersAt
<1>6. AtStage(c, s)
  BY <1>1, <1>2, <1>3, <1>4, <1>5 DEF AtStage
<1>7. Settled(c, s) /\ GivenUp(c, s)
  BY <1>1, <1>6 DEF Settled, GivenUp
<1> QED
  BY <1>6, <1>7 DEF s

LEMMA EarlyAttempt ==
  ASSUME NEW c, NEW s, UsersServed(c, s), GivenUp(c, s), NEW w
  PROVE  Leads(c, <<Attempt(w, <<>>)>>, s, s)
<1> DEFINE x == Attempt(w, <<>>)
<1>1. x.op = "attempt" /\ x.undo = <<>>
  BY DEF Attempt, Step
<1>2. MayFail(c, x, s)
  BY <1>1, NoStep DEF MayFail
<1> HIDE DEF x
<1>3. Needs(c, x, s) /\ After(c, x, s) = s
  BY <1>1 DEF Needs, After, AfterHold, PointOps, LastOps
<1> QED
  BY <1>2, <1>3, OneLeads DEF x

LEMMA EarlyInitialize ==
  ASSUME NEW c, NEW n, NEW ps, NEW a, NEW q, NEW p \in Parts,
         p = "audio" => a = "none", NEW rs, rs = ps \cup {p}, NEW b,
         b = IF p = "audio" THEN "any" ELSE a
  PROVE  Leads(c, <<Initialize(p)>>, Early(n, ps, {}, a, q),
               Early(n, rs, {}, b, q))
<1> DEFINE s == Early(n, ps, {}, a, q)
           u == Early(n, rs, {}, b, q)
           x == Initialize(p)
<1>1. x.op = "initialize" /\ x.on = {p}
  BY DEF Initialize, Step
<1>2. /\ s.threads = {} /\ s.handles = {} /\ s.parts = ps /\ s.renderers = {}
      /\ s.stage = n /\ s.audio = a /\ s.streams = FALSE /\ s.rfi = FALSE
      /\ s.rtsp = q
  BY DEF Early
<1>3. /\ p # "audio" => Holding(s, {}, {}, ps \cup {p}, {}) = u
      /\ p = "audio" =>
           AtPoint(Holding(s, {}, {}, ps \cup {p}, {}), n, "any", q) = u
  BY <1>2 DEF Holding, AtPoint, Early
<1> HIDE DEF x, s, u
<1>4. Needs(c, x, s)
  BY <1>1, <1>2 DEF Needs
<1>5. After(c, x, s) = u
  <2>1. CASE p = "audio"
    BY <1>1, <1>2, <1>3, <2>1 DEF After, AfterPoint, PointOps, LastOps
  <2>2. CASE p # "audio"
    <3>1. x.on # {"audio"}
      BY <1>1, <2>2
    <3>2. After(c, x, s) = AfterHold(x, s)
      BY <1>1, <3>1 DEF After, PointOps, LastOps
    <3> QED
      BY <1>1, <1>2, <1>3, <2>2, <3>2 DEF AfterHold
  <2> QED
    BY <2>1, <2>2
<1>6. MayFail(c, x, s)
  BY <1>1 DEF MayFail, FailOps
<1>7. UsersServed(c, s) /\ UsersServed(c, u)
  BY EarlyServed DEF s, u
<1> QED
  BY <1>4, <1>5, <1>6, <1>7, OneLeads DEF x, s, u

LEMMA EarlyComplete ==
  ASSUME NEW c, NEW n \in 0..6, NEW m, m = n + 1, NEW a \in AudioAt(m),
         NEW q \in {"no", "done"}, m >= 4 => q = "done", NEW name
  PROVE  Leads(c, <<Step("complete", {name}, <<>>)>>,
               Early(n, PartsAt(m), {}, a, q), Early(m, PartsAt(m), {}, a, q))
<1> DEFINE s == Early(n, PartsAt(m), {}, a, q)
           u == Early(m, PartsAt(m), {}, a, q)
           x == Step("complete", {name}, <<>>)
<1>1. x.op = "complete"
  BY DEF Step
<1>2. AtPoint(s, s.stage + 1, s.audio, s.rtsp) = u /\ s.stage = n
  BY DEF AtPoint, Early
<1>3. AtStage(c, u)
  BY EarlyAtStage, m \in 0..7
<1>4. UsersServed(c, s) /\ UsersServed(c, u)
  BY EarlyServed
<1> HIDE DEF x, s, u
<1>5. Needs(c, x, s)
  BY <1>1, <1>2, <1>3 DEF Needs
<1>6. After(c, x, s) = u
  BY <1>1, <1>2 DEF After, AfterPoint, PointOps, LastOps
<1>7. MayFail(c, x, s)
  BY <1>1 DEF MayFail, FailOps
<1> QED
  BY <1>4, <1>5, <1>6, <1>7, OneLeads DEF x, s, u

(* The handshake                                                           *)
Shaking(hs, a, q) == Early(3, PartsAt(3), hs, a, q)

LEMMA ShakingFacts ==
  ASSUME NEW c, NEW hs \in {{}, {"rtspEnet"}}, NEW a \in {"any", "bound"},
         NEW q
  PROVE  /\ UsersServed(c, Shaking(hs, a, q))
         /\ q \in {"init", "request"} => InHandshake(Shaking(hs, a, q))
         /\ hs = {} /\ q = "done" => GivenUp(c, Shaking(hs, a, q))
         /\ hs = {} /\ q = "init" /\ EnetIn(c) => GivenUp(c, Shaking(hs, a, q))
<1>1. a \in AudioAt(3)
  BY DEF AudioAt
<1>2. UsersServed(c, Shaking(hs, a, q))
  BY EarlyServed DEF Shaking
<1>3. q \in {"init", "request"} => InHandshake(Shaking(hs, a, q))
  BY <1>1 DEF InHandshake, Shaking, Early
<1>4. hs = {} => AtStage(c, Shaking(hs, a, q))
  BY <1>1 DEF AtStage, Shaking, Early, ThreadsAt, HandlesAt, RenderersAt
<1>5. Shaking(hs, a, q).rtsp = q
  BY DEF Shaking, Early
<1> QED
  BY <1>2, <1>3, <1>4, <1>5 DEF GivenUp

LEMMA ExitStep ==
  ASSUME NEW c, NEW hs \in {{}, {"rtspEnet"}}, NEW a \in {"any", "bound"},
         NEW q \in {"init", "request"}
  PROVE  Undoes(c, RtspExit, Shaking(hs, a, q), Shaking({}, a, "done"))
<1> DEFINE s == Shaking(hs, a, q)
           u == Shaking({}, a, "done")
           x == Step("rtspExit", {}, <<>>)
<1>1. x.op = "rtspExit"
  BY DEF Step
<1>2. AtPoint(Holding(s, s.threads, {}, s.parts, s.renderers), s.stage, s.audio,
              "done") = u
  BY DEF AtPoint, Holding, Shaking, Early
<1>3. UsersServed(c, s) /\ UsersServed(c, u) /\ InHandshake(s)
  BY ShakingFacts
<1> HIDE DEF x, s, u
<1>4. Needs(c, x, s)
  BY <1>1, <1>3 DEF Needs
<1>5. After(c, x, s) = u
  BY <1>1, <1>2 DEF After, AfterPoint, PointOps, LastOps
<1>6. x.op \notin FailOps
  BY <1>1 DEF FailOps
<1> QED
  BY <1>3, <1>4, <1>5, <1>6, OneUndoes DEF x, s, u, RtspExit

LEMMA RequestStep ==
  ASSUME NEW c, NEW hs \in {{}, {"rtspEnet"}}, NEW a \in {"any", "bound"},
         NEW q \in {"init", "request"}, NEW r, NEW b,
         b = IF r = "SETUP audio" THEN "bound" ELSE a
  PROVE  Leads(c, Request(r), Shaking(hs, a, q), Shaking(hs, b, "request"))
<1> DEFINE s == Shaking(hs, a, q)
           u == Shaking(hs, b, "request")
           x == Step("request", {r}, RtspExit)
<1>1. x.op = "request" /\ x.on = {r} /\ x.undo = RtspExit
  BY DEF Step
<1>2. s.stage = 3 /\ s.audio = a /\ AtPoint(s, 3, b, "request") = u
  BY DEF AtPoint, Shaking, Early
<1>3. UsersServed(c, s) /\ UsersServed(c, u) /\ InHandshake(s)
  BY ShakingFacts
<1>4. MayFail(c, x, s)
  <2>1. Undoes(c, RtspExit, s, Shaking({}, a, "done"))
    BY ExitStep
  <2>2. GivenUp(c, Shaking({}, a, "done"))
    BY ShakingFacts
  <2> QED
    BY <1>1, <2>1, <2>2 DEF MayFail
<1> HIDE DEF x, s, u
<1>5. Needs(c, x, s)
  BY <1>1, <1>3 DEF Needs
<1>6. After(c, x, s) = u
  <2>1. x.on = {"SETUP audio"} <=> r = "SETUP audio"
    BY <1>1
  <2> QED
    BY <1>1, <1>2, <2>1 DEF After, AfterPoint, PointOps, LastOps
<1> QED
  BY <1>3, <1>4, <1>5, <1>6, OneLeads DEF x, s, u, Request

LEMMA InitStep ==
  ASSUME NEW c, NEW a \in {"any", "bound"}
  PROVE  Leads(c, <<Step("rtspInit", {}, <<>>)>>, Shaking({}, a, "no"),
               Shaking({}, a, "init"))
<1> DEFINE s == Shaking({}, a, "no")
           u == Shaking({}, a, "init")
           x == Step("rtspInit", {}, <<>>)
<1>1. x.op = "rtspInit"
  BY DEF Step
<1>2. AtPoint(s, s.stage, s.audio, "init") = u
  BY DEF AtPoint, Shaking, Early
<1>3. UsersServed(c, s) /\ UsersServed(c, u)
  BY ShakingFacts
<1> HIDE DEF x, s, u
<1>4. Needs(c, x, s)
  BY <1>1 DEF Needs
<1>5. After(c, x, s) = u
  BY <1>1, <1>2 DEF After, AfterPoint, PointOps, LastOps
<1>6. MayFail(c, x, s)
  BY <1>1 DEF MayFail, FailOps
<1> QED
  BY <1>3, <1>4, <1>5, <1>6, OneLeads DEF x, s, u

(* The ENet connection of the handshake, whose error path releases nothing *)
LEMMA EnetStep ==
  ASSUME NEW c, EnetIn(c), NEW a \in {"any", "bound"}
  PROVE  Leads(c, <<Open("rtspEnet", <<>>)>>, Shaking({}, a, "init"),
               Shaking({"rtspEnet"}, a, "init"))
<1> DEFINE s == Shaking({}, a, "init")
           u == Shaking({"rtspEnet"}, a, "init")
           x == Open("rtspEnet", <<>>)
<1>1. x.op = "open" /\ x.on = {"rtspEnet"} /\ x.undo = <<>>
  BY DEF Open, Step
<1>2. Holding(s, s.threads, s.handles \cup {"rtspEnet"}, s.parts, s.renderers) = u
  BY DEF Holding, Shaking, Early
<1>3. UsersServed(c, s) /\ UsersServed(c, u) /\ GivenUp(c, s)
  BY ShakingFacts
<1>4. MayFail(c, x, s)
  BY <1>1, <1>3, NoStep DEF MayFail
<1> HIDE DEF x, s, u
<1>5. Needs(c, x, s)
  BY <1>1 DEF Needs, Handles
<1>6. After(c, x, s) = u
  BY <1>1, <1>2 DEF After, AfterHold, PointOps, LastOps
<1> QED
  BY <1>3, <1>4, <1>5, <1>6, OneLeads DEF x, s, u

LEMMA Handshake ==
  Leads(conf, performRtspHandshake, Shaking({}, "any", "no"),
        Shaking({}, "bound", "done"))
<1> DEFINE hs == IF useEnet THEN {"rtspEnet"} ELSE {}
           S(a, q) == Shaking(hs, a, q)
           p0 == <<Step("rtspInit", {}, <<>>)>>
           p1 == IF useEnet THEN <<Open("rtspEnet", <<>>)>> ELSE <<>>
           p6 == IF conf.version[1] >= 5 THEN Request("SETUP control") ELSE <<>>
           p8 == IF AppVersionAtLeast(7, 1, 431) THEN Request("PLAY")
                 ELSE Request("PLAY video") \o Request("PLAY audio")
           bound == S("bound", "request")
<1>1. hs \in {{}, {"rtspEnet"}} /\ (useEnet <=> EnetIn(conf))
  BY DEF useEnet, EnetIn
<1>2. Leads(conf, p0, Shaking({}, "any", "no"), Shaking({}, "any", "init"))
  BY InitStep
<1>3. Leads(conf, p1, Shaking({}, "any", "init"), S("any", "init"))
  <2>1. CASE useEnet
    BY <1>1, <2>1, EnetStep
  <2>2. CASE ~useEnet
    BY <2>2, ShakingFacts, NoStep
  <2> QED
    BY <2>1, <2>2
<1>4. \A a \in {"any", "bound"} : UsersServed(conf, S(a, "request"))
  BY <1>1, ShakingFacts
<1> HIDE DEF hs
<1>5. \A r : r # "SETUP audio" =>
         /\ Leads(conf, Request(r), bound, bound)
         /\ Leads(conf, Request(r), S("any", "init"), S("any", "request"))
         /\ Leads(conf, Request(r), S("any", "request"), S("any", "request"))
  BY <1>1, RequestStep
<1>6. Leads(conf, Request("SETUP audio"), S("any", "request"), bound)
  BY <1>1, RequestStep
<1>7. Leads(conf, p6, bound, bound)
  BY <1>4, <1>5, NoStep
<1>8. Leads(conf, p8, bound, bound)
  <2>1. /\ Leads(conf, Request("PLAY"), bound, bound)
        /\ Leads(conf, Request("PLAY video"), bound, bound)
        /\ Leads(conf, Request("PLAY audio"), bound, bound)
    BY <1>5
  <2> HIDE DEF bound
  <2>2. Leads(conf, Request("PLAY video") \o Request("PLAY audio"), bound, bound)
    BY <2>1, LeadsThen
  <2> QED
    BY <2>1, <2>2
<1>9. Leads(conf, RtspExit, bound, Shaking({}, "bound", "done"))
  BY <1>1, ExitStep, UndoesLeads
<1>10. performRtspHandshake =
         p0 \o p1 \o Request("OPTIONS") \o Request("DESCRIBE")
         \o Request("SETUP audio") \o Request("SETUP video") \o p6
         \o Request("ANNOUNCE") \o p8 \o RtspExit
  BY DEF performRtspHandshake
<1>11. /\ Leads(conf, Request("OPTIONS"), S("any", "init"), S("any", "request"))
       /\ Leads(conf, Request("DESCRIBE"), S("any", "request"), S("any", "request"))
       /\ Leads(conf, Request("SETUP video"), bound, bound)
       /\ Leads(conf, Request("ANNOUNCE"), bound, bound)
  BY <1>5
<1> DEFINE s0 == Shaking({}, "any", "no")
<1> HIDE DEF S, bound, p0, p1, p6, p8, s0
<1>12. Leads(conf, p0 \o p1, s0, S("any", "init"))
  BY <1>2, <1>3, LeadsThen DEF s0
<1>13. Leads(conf, p0 \o p1 \o Request("OPTIONS"), s0, S("any", "request"))
  BY <1>11, <1>12, LeadsThen
<1>14. Leads(conf, p0 \o p1 \o Request("OPTIONS") \o Request("DESCRIBE"), s0,
             S("any", "request"))
  BY <1>11, <1>13, LeadsThen
<1> DEFINE p3 == p0 \o p1 \o Request("OPTIONS") \o Request("DESCRIBE")
<1> HIDE DEF p3
<1>15. Leads(conf, p3 \o Request("SETUP audio"), s0, bound)
  BY <1>6, <1>14, LeadsThen DEF p3
<1>16. Leads(conf, p3 \o Request("SETUP audio") \o Request("SETUP video"), s0,
             bound)
  BY <1>11, <1>15, LeadsThen
<1>17. Leads(conf, p3 \o Request("SETUP audio") \o Request("SETUP video") \o p6,
             s0, bound)
  BY <1>7, <1>16, LeadsThen
<1> DEFINE p7 == p3 \o Request("SETUP audio") \o Request("SETUP video") \o p6
<1> HIDE DEF p7
<1>18. Leads(conf, p7 \o Request("ANNOUNCE"), s0, bound)
  BY <1>11, <1>17, LeadsThen DEF p7
<1>19. Leads(conf, p7 \o Request("ANNOUNCE") \o p8, s0, bound)
  BY <1>8, <1>18, LeadsThen
<1>20. Leads(conf, p7 \o Request("ANNOUNCE") \o p8 \o RtspExit, s0,
             Shaking({}, "bound", "done"))
  BY <1>9, <1>19, LeadsThen
<1> QED
  BY <1>10, <1>20 DEF p7, p3, s0

LEMMA BeginStep ==
  ASSUME NEW c
  PROVE  Leads(c, <<Step("startStreams", {}, <<>>)>>,
               Early(7, PartsAt(7), {}, "bound", "done"), Complete(c, 11, FALSE))
<1> DEFINE s == Early(7, PartsAt(7), {}, "bound", "done")
           u == Complete(c, 11, FALSE)
           x == Step("startStreams", {}, <<>>)
<1>1. x.op = "startStreams"
  BY DEF Step
<1>2. s.rfi = FALSE /\ s.stage = 7
  BY DEF Early
<1>3. AtStage(c, s)
  BY EarlyAtStage DEF AudioAt
<1>4. UsersServed(c, s) /\ UsersServed(c, u)
  <2>1. UsersServed(c, s)
    BY EarlyServed
  <2>2. 11 \in 7..11
    OBVIOUS
  <2> QED
    BY <2>1, <2>2, StageServed
<1> HIDE DEF x, s
<1>5. Needs(c, x, s)
  BY <1>1, <1>2, <1>3 DEF Needs
<1>6. After(c, x, s) = u
  BY <1>1, <1>2 DEF After, AfterPoint, PointOps, LastOps
<1>7. MayFail(c, x, s)
  BY <1>1 DEF MayFail, FailOps
<1> HIDE DEF u
<1> QED
  BY <1>4, <1>5, <1>6, <1>7, OneLeads DEF x, s, u

(* LiStartConnection, from nothing to the complete connection              *)
LEMMA ConnectionStarts ==
  Leads(conf, LiStartConnection, Nothing, Complete(conf, 11, FALSE))
<1> DEFINE x(name) == <<Step("complete", {name}, <<>>)>>
           E(n, a, q) == Early(n, PartsAt(n), {}, a, q)
<1>1. Nothing = E(0, "none", "no")
  BY DEF Nothing, Early, PartsAt
<1>2. Leads(conf, <<Step("check", {}, <<>>), Step("reset", {}, <<>>),
                    Step("check", {}, <<>>)>>, Nothing, Nothing)
  <2>1. UsersServed(conf, Nothing) /\ Settled(conf, Nothing)
    BY NothingOver DEF Over
  <2>2. Step("check", {}, <<>>).op = "check" /\ Step("reset", {}, <<>>).op = "reset"
    BY DEF Step
  <2>3. /\ Undoes(conf, <<Step("check", {}, <<>>)>>, Nothing, Nothing)
        /\ Undoes(conf, <<Step("reset", {}, <<>>)>>, Nothing, Nothing)
    BY <2>1, <2>2, IdleAfter
  <2> QED
    BY <2>3, UndoesLeads, Leads3
<1>3. /\ PartsAt(1) = PartsAt(0) \cup {"platform"} /\ PartsAt(2) = PartsAt(1)
      /\ PartsAt(3) = PartsAt(2) \cup {"audio"} /\ PartsAt(4) = PartsAt(3)
      /\ PartsAt(5) = PartsAt(4) \cup {"control"}
      /\ PartsAt(6) = PartsAt(5) \cup {"video"}
      /\ PartsAt(7) = PartsAt(6) \cup {"input"}
  BY DEF PartsAt
<1>4. /\ "none" \in AudioAt(0) /\ "none" \in AudioAt(1) /\ "none" \in AudioAt(2)
      /\ "any" \in AudioAt(3) /\ "bound" \in AudioAt(4)
      /\ "bound" \in AudioAt(5) /\ "bound" \in AudioAt(6)
      /\ "bound" \in AudioAt(7)
  BY DEF AudioAt
<1>5. ASSUME NEW n \in 0..6, NEW m, m = n + 1, NEW a \in AudioAt(m),
             NEW q \in {"no", "done"}, n < 3 \/ q = "done", NEW name
      PROVE  Leads(conf, x(name), Early(n, PartsAt(m), {}, a, q), E(m, a, q))
  <2>1. m >= 4 => q = "done"
    BY <1>5
  <2> QED
    BY <1>5, <2>1, EarlyComplete
<1>6. ASSUME NEW n \in 0..7, NEW a \in AudioAt(n), NEW q \in {"no", "done"},
             n >= 4 => q = "done", NEW w
      PROVE  Leads(conf, <<Attempt(w, <<>>)>>, E(n, a, q), E(n, a, q))
  <2>1. GivenUp(conf, E(n, a, q))
    BY <1>6, EarlyAtStage
  <2> QED
    BY <2>1, EarlyServed, EarlyAttempt
<1> DEFINE p1 == <<Attempt("platform", <<>>), Initialize("platform")>>
           p2 == <<Attempt("resolve", <<>>)>>
           p3 == <<Initialize("audio")>>
           p5 == <<Initialize("control")>>
           p6 == <<Initialize("video")>>
           p7 == <<Initialize("input")>>
<1>7. Leads(conf, p1 \o x("platform"), E(0, "none", "no"), E(1, "none", "no"))
  <2>1. Leads(conf, <<Attempt("platform", <<>>)>>, E(0, "none", "no"),
              E(0, "none", "no"))
    BY <1>4, <1>6, 0 \in 0..7
  <2>2. Leads(conf, <<Initialize("platform")>>, E(0, "none", "no"),
              Early(0, PartsAt(1), {}, "none", "no"))
    BY <1>3, EarlyInitialize DEF Parts
  <2>3. Leads(conf, x("platform"), Early(0, PartsAt(1), {}, "none", "no"),
              E(1, "none", "no"))
    BY <1>4, <1>5, 0 \in 0..6, 1 = 0 + 1, 0 < 3
  <2> HIDE DEF x, E
  <2>4. Leads(conf, p1, E(0, "none", "no"), Early(0, PartsAt(1), {}, "none", "no"))
    BY <2>1, <2>2, Leads2
  <2> QED
    BY <2>3, <2>4, LeadsThen
<1>8. Leads(conf, p2 \o x("nameResolution"), E(1, "none", "no"),
            E(2, "none", "no"))
  <2>1. Leads(conf, p2, E(1, "none", "no"), E(1, "none", "no"))
    BY <1>4, <1>6, 1 \in 0..7
  <2>2. Leads(conf, x("nameResolution"), Early(1, PartsAt(2), {}, "none", "no"),
              E(2, "none", "no"))
    BY <1>4, <1>5, 1 \in 0..6, 2 = 1 + 1, 1 < 3
  <2>3. E(1, "none", "no") = Early(1, PartsAt(2), {}, "none", "no")
    BY <1>3
  <2> HIDE DEF x, E, p2
  <2> QED
    BY <2>1, <2>2, <2>3, LeadsThen
<1>9. Leads(conf, p3 \o x("audioInit"), E(2, "none", "no"), E(3, "any", "no"))
  <2>1. Leads(conf, p3, E(2, "none", "no"), Early(2, PartsAt(3), {}, "any", "no"))
    BY <1>3, EarlyInitialize DEF Parts
  <2>2. Leads(conf, x("audioInit"), Early(2, PartsAt(3), {}, "any", "no"),
              E(3, "any", "no"))
    BY <1>4, <1>5, 2 \in 0..6, 3 = 2 + 1, 2 < 3
  <2> HIDE DEF x, E, p3
  <2> QED
    BY <2>1, <2>2, LeadsThen
<1>10. Leads(conf, performRtspHandshake \o x("rtspHandshake"), E(3, "any", "no"),
             E(4, "bound", "done"))
  <2>1. Leads(conf, performRtspHandshake, E(3, "any", "no"),
              Early(3, PartsAt(4), {}, "bound", "done"))
    BY <1>3, Handshake DEF Shaking
  <2>2. Leads(conf, x("rtspHandshake"), Early(3, PartsAt(4), {}, "bound", "done"),
              E(4, "bound", "done"))
    BY <1>4, <1>5, 3 \in 0..6, 4 = 3 + 1
  <2> HIDE DEF x, E
  <2> QED
    BY <2>1, <2>2, LeadsThen
<1>11. Leads(conf, p5 \o x("controlInit"), E(4, "bound", "done"),
             E(5, "bound", "done"))
  <2>1. Leads(conf, p5, E(4, "bound", "done"),
              Early(4, PartsAt(5), {}, "bound", "done"))
    BY <1>3, EarlyInitialize DEF Parts
  <2>2. Leads(conf, x("controlInit"), Early(4, PartsAt(5), {}, "bound", "done"),
              E(5, "bound", "done"))
    BY <1>4, <1>5, 4 \in 0..6, 5 = 4 + 1
  <2> HIDE DEF x, E, p5
  <2> QED
    BY <2>1, <2>2, LeadsThen
<1>12. Leads(conf, p6 \o x("videoInit"), E(5, "bound", "done"),
             E(6, "bound", "done"))
  <2>1. Leads(conf, p6, E(5, "bound", "done"),
              Early(5, PartsAt(6), {}, "bound", "done"))
    BY <1>3, EarlyInitialize DEF Parts
  <2>2. Leads(conf, x("videoInit"), Early(5, PartsAt(6), {}, "bound", "done"),
              E(6, "bound", "done"))
    BY <1>4, <1>5, 5 \in 0..6, 6 = 5 + 1
  <2> HIDE DEF x, E, p6
  <2> QED
    BY <2>1, <2>2, LeadsThen
<1>13. Leads(conf, p7 \o x("inputInit"), E(6, "bound", "done"),
             E(7, "bound", "done"))
  <2>1. Leads(conf, p7, E(6, "bound", "done"),
              Early(6, PartsAt(7), {}, "bound", "done"))
    BY <1>3, EarlyInitialize DEF Parts
  <2>2. Leads(conf, x("inputInit"), Early(6, PartsAt(7), {}, "bound", "done"),
              E(7, "bound", "done"))
    BY <1>4, <1>5, 6 \in 0..6, 7 = 6 + 1
  <2> HIDE DEF x, E, p7
  <2> QED
    BY <2>1, <2>2, LeadsThen
<1> DEFINE p0 == <<Step("check", {}, <<>>), Step("reset", {}, <<>>),
                   Step("check", {}, <<>>)>>
           q1 == p1 \o x("platform")
           q2 == p2 \o x("nameResolution")
           q3 == p3 \o x("audioInit")
           q4 == performRtspHandshake \o x("rtspHandshake")
           q5 == p5 \o x("controlInit")
           q6 == p6 \o x("videoInit")
           q7 == p7 \o x("inputInit")
           last == <<Step("startStreams", {}, <<>>)>>
<1>14. LiStartConnection =
         p0 \o q1 \o q2 \o q3 \o q4 \o q5 \o q6 \o q7 \o last
  BY DEF LiStartConnection, Stage
<1>15. Leads(conf, last, E(7, "bound", "done"), Complete(conf, 11, FALSE))
  BY BeginStep
<1>16. Leads(conf, p0, Nothing, E(0, "none", "no"))
  BY <1>1, <1>2
<1> HIDE DEF p0, q1, q2, q3, q4, q5, q6, q7, last, E
<1>17. Leads(conf, p0 \o q1, Nothing, E(1, "none", "no"))
  BY <1>7, <1>16, LeadsThen DEF q1
<1>18. Leads(conf, p0 \o q1 \o q2, Nothing, E(2, "none", "no"))
  BY <1>8, <1>17, LeadsThen DEF q2
<1>19. Leads(conf, p0 \o q1 \o q2 \o q3, Nothing, E(3, "any", "no"))
  BY <1>9, <1>18, LeadsThen DEF q3
<1>20. Leads(conf, p0 \o q1 \o q2 \o q3 \o q4, Nothing, E(4, "bound", "done"))
  BY <1>10, <1>19, LeadsThen DEF q4
<1>21. Leads(conf, p0 \o q1 \o q2 \o q3 \o q4 \o q5, Nothing,
             E(5, "bound", "done"))
  BY <1>11, <1>20, LeadsThen DEF q5
<1>22. Leads(conf, p0 \o q1 \o q2 \o q3 \o q4 \o q5 \o q6, Nothing,
             E(6, "bound", "done"))
  BY <1>12, <1>21, LeadsThen DEF q6
<1>23. Leads(conf, p0 \o q1 \o q2 \o q3 \o q4 \o q5 \o q6 \o q7, Nothing,
             E(7, "bound", "done"))
  BY <1>13, <1>22, LeadsThen DEF q7
<1>24. Leads(conf, p0 \o q1 \o q2 \o q3 \o q4 \o q5 \o q6 \o q7 \o last, Nothing,
             Complete(conf, 11, FALSE))
  BY <1>15, <1>23, LeadsThen
<1> QED
  BY <1>14, <1>24

(***************************************************************************)
(* The inductive invariant                                                 *)
(***************************************************************************)

Alive == {t \in Threads \ {"AudioPing"} : threads[t] # "none"}
Opened == {h \in Handles \ {"audio", "rtspTcp"} : handles[h] = "open"}
SetUp == {r \in Renderers : renderers[r] # "none"}

(* The ENet error paths of an earlier call forgot the contexts.            *)
Forgotten == useEnet /\ (told.failed > 0 \/ connections > 1)

(* The state is in situation s.                                            *)
Matches(s) ==
  /\ s.threads = Alive /\ s.handles = Opened /\ s.parts = parts
  /\ s.renderers = SetUp /\ s.stage = stage
  /\ s.streams => (s.rfi <=> RfiEnabled)
  /\ AudioKnown(s.audio)
  /\ neg.session => s.rtsp = "request"
  /\ neg.contexts =>
       s.rtsp \in {"init", "request"} \/ (s.rtsp = "no" /\ Forgotten)

(* What is left of the call has annotations, from the present situation to *)
(* one in which a call may end.                                            *)
Annotated ==
  \E s, u : Matches(s) /\ Leads(conf, todo, s, u) /\ Over(conf, u)

(* A connection of the handshake is there during a request only.           *)
Held ==
  /\ \A h \in Handles : handles[h] = "dangling" => h \in {"audio", "video"}
  /\ handles["rtspTcp"] # "invalid" \/ answered => At("request")
  /\ handles["rtspTcp"] # "invalid" => ~answered

Counted ==
  /\ connections \in Nat
  /\ told.failed \in Nat
  /\ DOMAIN told = {"failed", "terminated"}
  /\ connections = 0 => todo = <<>> /\ stage = 0 /\ ~neg.contexts

NegShape ==
  DOMAIN neg = {"format", "rfi", "opus", "ports", "highQuality", "contexts",
                "session"}

IInv == TypeOK /\ NegShape /\ Held /\ Counted /\ Annotated

LEMMA LeadsEnd ==
  ASSUME NEW c, NEW p, NEW s, NEW u, Leads(c, p, s, u)
  PROVE  UsersServed(c, u)
<1>1. PICK tr : Annotates(c, p, tr) /\ tr[Len(p)] = u
  BY DEF Leads
<1>2. Len(p) \in Nat /\ Len(p) \in 0..Len(p)
  BY <1>1, ProgramFacts DEF Annotates
<1> QED
  BY <1>1, <1>2 DEF Annotates

LEMMA InitCorrect == Init => IInv
<1> SUFFICES ASSUME Init
             PROVE  IInv
  OBVIOUS
<1> USE DEF Init, PlatformInit, RtspInitial, NothingNegotiated
<1>1. TypeOK
  <2>1. connectRetries \in 0 .. RtspRetries /\ asyncTerm \in 0 .. MaxReports
    BY ConnectionAssumption
  <2>2. stage \in 0 .. Len(Stages)
    BY StageNames
  <2>3. {alreadyTerminated, ConnectionInterrupted, answered} \subseteq BOOLEAN
    OBVIOUS
  <2> QED
    BY <2>1, <2>2, <2>3 DEF TypeOK
<1>2. NegShape /\ Counted
  BY DEF NegShape, Counted
<1>3. Held
  BY DEF Held, Handles
<1>4. Matches(Nothing)
  <2>1. Alive = {} /\ Opened = {} /\ SetUp = {}
    BY DEF Alive, Opened, SetUp, Renderers
  <2>2. threads["AudioPing"] = "none" /\ handles["audio"] = "invalid"
    BY DEF Threads, Handles
  <2>3. neg.session = FALSE /\ neg.contexts = FALSE
    OBVIOUS
  <2> QED
    BY <2>1, <2>2, <2>3 DEF Matches, Nothing, AudioKnown
<1>5. Leads(conf, todo, Nothing, Nothing) /\ Over(conf, Nothing)
  BY NothingOver, NoStep
<1> QED
  BY <1>1, <1>2, <1>3, <1>4, <1>5 DEF IInv, Annotated

(***************************************************************************)
(* Steps of a call                                                         *)
(***************************************************************************)

LEMMA OnIs ==
  ASSUME NEW x, Head(todo).on = {x}
  PROVE  On = x
BY DEF On

(* The next step has what it needs.                                        *)
LEMMA Ahead ==
  ASSUME Annotated, todo # <<>>
  PROVE  \E s, u :
           /\ Matches(s) /\ UsersServed(conf, s) /\ Over(conf, u)
           /\ Leads(conf, todo, s, u)
           /\ Needs(conf, Head(todo), s) /\ MayFail(conf, Head(todo), s)
           /\ Leads(conf, Tail(todo), After(conf, Head(todo), s), u)
<1>1. PICK s, u : Matches(s) /\ Leads(conf, todo, s, u) /\ Over(conf, u)
  BY DEF Annotated
<1>2. UsersServed(conf, s)
  BY <1>1, LeadsServed
<1>3. /\ Needs(conf, Head(todo), s) /\ MayFail(conf, Head(todo), s)
      /\ Leads(conf, Tail(todo), After(conf, Head(todo), s), u)
  BY <1>1, LeadsHead
<1> QED
  BY <1>1, <1>2, <1>3

LEMMA Advancing ==
  ASSUME NEW s, NEW u, NEW r, Leads(conf, Tail(todo), r, u), Over(conf, u),
         Advance, conf' = conf, Matches(r)'
  PROVE  Annotated'
<1>1. Leads(conf', todo', r, u) /\ Over(conf', u)
  BY DEF Advance
<1> QED
  BY <1>1 DEF Annotated

LEMMA Failing ==
  ASSUME NEW s, MayFail(conf, Head(todo), s), Head(todo).op \in FailOps, Fail,
         conf' = conf, Matches(s)'
  PROVE  Annotated'
<1>1. PICK u : Undoes(conf, Head(todo).undo, s, u) /\ GivenUp(conf, u)
  BY DEF MayFail
<1>2. Leads(conf, Head(todo).undo, s, u) /\ UsersServed(conf, u)
  BY <1>1, UndoesLeads, LeadsEnd
<1>3. Leads(conf, <<Failed>>, u, Nothing)
  BY <1>1, <1>2, LastSteps
<1>4. Leads(conf', todo', s, Nothing) /\ Over(conf', Nothing)
  BY <1>2, <1>3, LeadsThen, NothingOver DEF Fail
<1> QED
  BY <1>4 DEF Annotated

(* What a step of a call other than a request leaves alone                 *)
LEMMA CallKeeps ==
  ASSUME IInv, NEW op, At(op), op # "request", connections' = connections,
         told' = told, answered' = answered,
         handles'["rtspTcp"] = handles["rtspTcp"],
         \A h \in Handles : \/ handles'[h] # "dangling"
                            \/ handles[h] = "dangling" \/ h \in {"audio", "video"}
  PROVE  Counted' /\ Held'
<1>1. todo # <<>> /\ ~At("request")
  BY DEF At
<1>2. Counted'
  BY <1>1 DEF IInv, Counted
<1>3. Held'
  BY <1>1 DEF IInv, Held
<1> QED
  BY <1>2, <1>3

(* What a situation says of the handshake, when the step does not touch it *)
NegAsIs == /\ NegShape' /\ neg'.contexts = neg.contexts
           /\ neg'.session = neg.session /\ neg'.rfi = neg.rfi

LEMMA Unmoved ==
  ASSUME NEW s, Matches(s), NegAsIs,
         UNCHANGED <<conf, threads, handles, stage, parts, told, connections>>,
         SetUp' = SetUp
  PROVE  Matches(s)'
<1>1. /\ Alive' = Alive /\ Opened' = Opened /\ Forgotten' = Forgotten
      /\ RfiEnabled' = RfiEnabled
  BY DEF Alive, Opened, Forgotten, RfiEnabled, useEnet, NegAsIs
<1>2. AudioKnown(s.audio)' = AudioKnown(s.audio)
  BY DEF AudioKnown, AudioUnbound
<1> QED
  BY <1>1, <1>2 DEF Matches, NegAsIs

(* A step that holds and releases nothing                                  *)
LEMMA Idle ==
  ASSUME IInv, NEW op \in IdleOps \cup {"check"}, At(op), Advance, TypeOK',
         NegAsIs, SetUp' = SetUp,
         UNCHANGED <<conf, threads, handles, answered, stage, parts, told,
                     connections>>
  PROVE  IInv'
<1>1. PICK s, u :
        /\ Matches(s) /\ Over(conf, u)
        /\ Leads(conf, Tail(todo), After(conf, Head(todo), s), u)
  BY Ahead DEF At, IInv
<1>2. After(conf, Head(todo), s) = s
  BY DEF At, IdleOps, After, AfterHold, PointOps, LastOps
<1>3. Matches(s)'
  BY <1>1, Unmoved
<1>4. Annotated'
  BY <1>1, <1>2, <1>3, Advancing
<1>5. Counted' /\ Held'
  BY CallKeeps DEF IdleOps, IInv, Held
<1> QED
  BY <1>4, <1>5 DEF IInv, NegAsIs

(* An attempt, and whatever else may fail without having held anything     *)
LEMMA FailsIdly ==
  ASSUME IInv, NEW op \in {"create", "open", "attempt"}, At(op), Fail, TypeOK',
         UNCHANGED <<conf, threads, handles, neg, renderers, answered, stage,
                     parts, told, connections>>
  PROVE  IInv'
<1>1. PICK s, u : Matches(s) /\ MayFail(conf, Head(todo), s)
  BY Ahead DEF At, IInv
<1>2. NegAsIs /\ SetUp' = SetUp
  BY DEF NegAsIs, IInv, NegShape, SetUp
<1>3. Matches(s)'
  BY <1>1, <1>2, Unmoved
<1>4. Annotated'
  BY <1>1, <1>3, Failing DEF At, FailOps
<1>5. Counted' /\ Held'
  BY CallKeeps DEF IInv, Held
<1> QED
  BY <1>2, <1>4, <1>5 DEF IInv, NegAsIs

(* A step that takes or releases threads, handles or parts                 *)
LEMMA Moving ==
  ASSUME IInv, NEW op, At(op), op # "request", Advance, TypeOK',
         UNCHANGED <<conf, neg, answered, told, connections>>,
         handles'["rtspTcp"] = handles["rtspTcp"],
         \A h \in Handles : \/ handles'[h] # "dangling"
                            \/ handles[h] = "dangling" \/ h \in {"audio", "video"},
         NEW s, NEW u, NEW r, Over(conf, u), Leads(conf, Tail(todo), r, u),
         Matches(s), r.threads = Alive', r.handles = Opened', r.parts = parts',
         r.renderers = SetUp', r.stage = stage', r.streams = s.streams,
         r.rfi = s.rfi, AudioKnown(r.audio)', r.rtsp = s.rtsp
  PROVE  IInv'
<1>1. Matches(r)'
  <2>1. RfiEnabled' = RfiEnabled /\ Forgotten' = Forgotten
    BY DEF RfiEnabled, Forgotten, useEnet
  <2> QED
    BY <2>1 DEF Matches
<1>2. Annotated'
  BY <1>1, Advancing
<1>3. Counted' /\ Held'
  BY CallKeeps
<1> QED
  BY <1>2, <1>3 DEF IInv, NegShape

LEMMA CancelCorrect ==
  ASSUME IInv, PltInterruptThread,
         UNCHANGED <<ConnectionInterrupted, rtsp, lifecycle>>
  PROVE  IInv'
<1> USE DEF PltInterruptThread, rtsp, lifecycle
<1>1. Head(todo).on \subseteq Threads
  <2>1. PICK s : Needs(conf, Head(todo), s)
    BY Ahead DEF At, IInv
  <2> QED
    BY <2>1 DEF At, Needs
<1>2. TypeOK'
  BY <1>1 DEF IInv, TypeOK
<1>3. NegAsIs /\ SetUp' = SetUp
  BY DEF NegAsIs, SetUp, IInv, NegShape
<1> QED
  BY <1>2, <1>3, Idle DEF IdleOps

LEMMA SignalCorrect ==
  ASSUME IInv, SignalWaiters,
         UNCHANGED <<ConnectionInterrupted, rtsp, lifecycle>>
  PROVE  IInv'
<1> USE DEF SignalWaiters, rtsp, lifecycle
<1>1. Head(todo).on \subseteq Signals
  <2>1. PICK s : Needs(conf, Head(todo), s)
    BY Ahead DEF At, IInv
  <2> QED
    BY <2>1 DEF At, Needs
<1>2. TypeOK'
  BY <1>1 DEF IInv, TypeOK
<1>3. NegAsIs /\ SetUp' = SetUp
  BY DEF NegAsIs, SetUp, IInv, NegShape
<1> QED
  BY <1>2, <1>3, Idle DEF IdleOps

LEMMA CreateCorrect ==
  ASSUME IInv, PltCreateThread,
         UNCHANGED <<ConnectionInterrupted, rtsp, lifecycle>>
  PROVE  IInv'
<1> USE DEF PltCreateThread, rtsp, lifecycle
<1>1. PICK s, u :
        /\ Matches(s) /\ Over(conf, u) /\ Needs(conf, Head(todo), s)
        /\ Leads(conf, Tail(todo), After(conf, Head(todo), s), u)
  BY Ahead DEF At, IInv
<1>2. PICK t \in Threads \ {"AudioPing"} : Head(todo).on = {t}
  BY <1>1 DEF At, Needs
<1>3. On = t
  BY <1>2, OnIs
<1>4. CASE /\ threads' = [threads EXCEPT ![On] = "running"]
           /\ cancelled' = cancelled \ {On} /\ ran' = ran \cup {On}
           /\ Advance
  <2> DEFINE r == Holding(s, s.threads \cup {t}, s.handles, s.parts, s.renderers)
  <2>1. After(conf, Head(todo), s) = r
    BY <1>2 DEF At, After, AfterHold, PointOps, LastOps
  <2>2. /\ r.threads = s.threads \cup {t} /\ r.handles = s.handles
        /\ r.parts = s.parts /\ r.renderers = s.renderers /\ r.stage = s.stage
        /\ r.streams = s.streams /\ r.rfi = s.rfi /\ r.audio = s.audio
        /\ r.rtsp = s.rtsp
    BY DEF Holding
  <2> HIDE DEF r
  <2>3. threads \in [Threads -> {"none", "running", "reporting", "lost"}]
    BY DEF IInv, TypeOK
  <2>4. Alive' = Alive \cup {t} /\ threads'["AudioPing"] = threads["AudioPing"]
    BY <1>3, <1>4, <2>3 DEF Alive, Threads
  <2>5. TypeOK'
    BY <1>3, <1>4, <2>3 DEF IInv, TypeOK
  <2>6. AudioKnown(r.audio)'
    BY <1>1, <2>2, <2>4 DEF Matches, AudioKnown, AudioUnbound
  <2>7. Opened' = Opened /\ SetUp' = SetUp
    BY DEF Opened, SetUp
  <2>8. /\ r.threads = Alive' /\ r.handles = Opened' /\ r.parts = parts'
        /\ r.renderers = SetUp' /\ r.stage = stage'
    BY <1>1, <2>2, <2>4, <2>7 DEF Matches
  <2>9. Leads(conf, Tail(todo), r, u)
    BY <1>1, <2>1
  <2>10. /\ handles'["rtspTcp"] = handles["rtspTcp"]
         /\ \A h \in Handles : handles'[h] # "dangling" \/ handles[h] = "dangling"
    OBVIOUS
  <2> QED
    BY <1>1, <1>4, <2>2, <2>5, <2>6, <2>8, <2>9, <2>10, Moving
<1>5. CASE Fail /\ UNCHANGED <<threads, cancelled, ran>>
  <2>1. TypeOK'
    BY <1>5 DEF IInv, TypeOK
  <2> QED
    BY <1>5, <2>1, FailsIdly
<1> QED
  BY <1>4, <1>5

LEMMA JoinCorrect ==
  ASSUME IInv, PltJoinThread,
         UNCHANGED <<ConnectionInterrupted, rtsp, lifecycle>>
  PROVE  IInv'
<1> USE DEF PltJoinThread, rtsp, lifecycle
<1>1. PICK s, u :
        /\ Matches(s) /\ Over(conf, u) /\ Needs(conf, Head(todo), s)
        /\ Leads(conf, Tail(todo), After(conf, Head(todo), s), u)
  BY Ahead DEF At, IInv
<1>2. PICK t \in Threads :
        Head(todo).on = {t} /\ (t = "AudioPing" => s.audio \in {"any", "bound"})
  BY <1>1 DEF At, Needs
<1>3. On = t
  BY <1>2, OnIs
<1>4. /\ threads \in [Threads -> {"none", "running", "reporting", "lost"}]
      /\ threads' = [threads EXCEPT ![t] = "none"]
  BY <1>3 DEF IInv, TypeOK
<1>5. TypeOK'
  BY <1>4 DEF IInv, TypeOK
<1>6. Opened' = Opened /\ SetUp' = SetUp
  BY DEF Opened, SetUp
<1>7. /\ handles'["rtspTcp"] = handles["rtspTcp"]
      /\ \A h \in Handles : handles'[h] # "dangling" \/ handles[h] = "dangling"
  OBVIOUS
<1>8. CASE t # "AudioPing"
  <2> DEFINE r == Holding(s, s.threads \ {t}, s.handles, s.parts, s.renderers)
  <2>1. After(conf, Head(todo), s) = r
    <3>1. Head(todo).op = "join" /\ Head(todo).on # {"AudioPing"}
      BY <1>2, <1>8 DEF At
    <3>2. After(conf, Head(todo), s) = AfterHold(Head(todo), s)
      BY <3>1 DEF After, PointOps, LastOps
    <3> QED
      BY <1>2, <3>1, <3>2 DEF AfterHold
  <2>2. /\ r.threads = s.threads \ {t} /\ r.handles = s.handles
        /\ r.parts = s.parts /\ r.renderers = s.renderers /\ r.stage = s.stage
        /\ r.streams = s.streams /\ r.rfi = s.rfi /\ r.audio = s.audio
        /\ r.rtsp = s.rtsp
    BY DEF Holding
  <2> HIDE DEF r
  <2>4. Alive' = Alive \ {t} /\ threads'["AudioPing"] = threads["AudioPing"]
    BY <1>4, <1>8 DEF Alive, Threads
  <2>6. AudioKnown(r.audio)'
    BY <1>1, <2>2, <2>4 DEF Matches, AudioKnown, AudioUnbound
  <2>8. /\ r.threads = Alive' /\ r.handles = Opened' /\ r.parts = parts'
        /\ r.renderers = SetUp' /\ r.stage = stage'
    BY <1>1, <1>6, <2>2, <2>4 DEF Matches
  <2>9. Leads(conf, Tail(todo), r, u)
    BY <1>1, <2>1
  <2> QED
    BY <1>1, <1>5, <1>7, <2>2, <2>6, <2>8, <2>9, Moving
<1>9. CASE t = "AudioPing"
  <2> DEFINE r == AtPoint(s, s.stage, "quiet", s.rtsp)
  <2>1. After(conf, Head(todo), s) = r
    BY <1>2, <1>9 DEF At, After, AfterPoint, PointOps, LastOps
  <2>2. /\ r.threads = s.threads /\ r.handles = s.handles
        /\ r.parts = s.parts /\ r.renderers = s.renderers /\ r.stage = s.stage
        /\ r.streams = s.streams /\ r.rfi = s.rfi /\ r.audio = "quiet"
        /\ r.rtsp = s.rtsp
    BY DEF AtPoint
  <2> HIDE DEF r
  <2>4. Alive' = Alive /\ threads'["AudioPing"] = "none"
    BY <1>4, <1>9 DEF Alive
  <2>6. AudioKnown(r.audio)'
    BY <2>2, <2>4 DEF AudioKnown
  <2>8. /\ r.threads = Alive' /\ r.handles = Opened' /\ r.parts = parts'
        /\ r.renderers = SetUp' /\ r.stage = stage'
    BY <1>1, <1>6, <2>2, <2>4 DEF Matches
  <2>9. Leads(conf, Tail(todo), r, u)
    BY <1>1, <2>1
  <2> QED
    BY <1>1, <1>5, <1>7, <2>2, <2>6, <2>8, <2>9, Moving
<1> QED
  BY <1>8, <1>9

LEMMA OpenCorrect ==
  ASSUME IInv, OpenHandle,
         UNCHANGED <<ConnectionInterrupted, rtsp, lifecycle>>
  PROVE  IInv'
<1> USE DEF OpenHandle, rtsp, lifecycle
<1>1. PICK s, u :
        /\ Matches(s) /\ Over(conf, u) /\ Needs(conf, Head(todo), s)
        /\ Leads(conf, Tail(todo), After(conf, Head(todo), s), u)
  BY Ahead DEF At, IInv
<1>2. PICK h \in Handles \ {"audio", "rtspTcp"} : Head(todo).on = {h}
  BY <1>1 DEF At, Needs
<1>3. On = h
  BY <1>2, OnIs
<1>4. CASE handles' = [handles EXCEPT ![On] = "open"] /\ Advance
  <2> DEFINE r == Holding(s, s.threads, s.handles \cup {h}, s.parts, s.renderers)
  <2>1. After(conf, Head(todo), s) = r
    BY <1>2 DEF At, After, AfterHold, PointOps, LastOps
  <2>2. /\ r.threads = s.threads /\ r.handles = s.handles \cup {h}
        /\ r.parts = s.parts /\ r.renderers = s.renderers /\ r.stage = s.stage
        /\ r.streams = s.streams /\ r.rfi = s.rfi /\ r.audio = s.audio
        /\ r.rtsp = s.rtsp
    BY DEF Holding
  <2> HIDE DEF r
  <2>3. /\ handles \in [Handles -> {"invalid", "open", "dangling"}]
        /\ handles' = [handles EXCEPT ![h] = "open"]
    BY <1>3, <1>4 DEF IInv, TypeOK
  <2>4. Opened' = Opened \cup {h} /\ handles'["audio"] = handles["audio"]
    BY <2>3 DEF Opened, Handles
  <2>5. TypeOK'
    BY <2>3 DEF IInv, TypeOK
  <2>6. AudioKnown(r.audio)'
    BY <1>1, <2>2, <2>4 DEF Matches, AudioKnown, AudioUnbound
  <2>7. Alive' = Alive /\ SetUp' = SetUp
    BY DEF Alive, SetUp
  <2>8. /\ r.threads = Alive' /\ r.handles = Opened' /\ r.parts = parts'
        /\ r.renderers = SetUp' /\ r.stage = stage'
    BY <1>1, <2>2, <2>4, <2>7 DEF Matches
  <2>9. Leads(conf, Tail(todo), r, u)
    BY <1>1, <2>1
  <2>10. /\ handles'["rtspTcp"] = handles["rtspTcp"]
         /\ \A g \in Handles : handles'[g] # "dangling" \/ handles[g] = "dangling"
    BY <2>3
  <2> QED
    BY <1>1, <1>4, <2>2, <2>5, <2>6, <2>8, <2>9, <2>10, Moving
<1>5. CASE Fail /\ UNCHANGED handles
  <2>1. TypeOK'
    BY <1>5 DEF IInv, TypeOK
  <2> QED
    BY <1>5, <2>1, FailsIdly
<1> QED
  BY <1>4, <1>5

LEMMA CloseCorrect ==
  ASSUME IInv, closeSocket,
         UNCHANGED <<ConnectionInterrupted, rtsp, lifecycle>>
  PROVE  IInv'
<1> USE DEF rtsp, lifecycle
<1>1. PICK s, u :
        /\ Matches(s) /\ Over(conf, u) /\ Needs(conf, Head(todo), s)
        /\ Leads(conf, Tail(todo), After(conf, Head(todo), s), u)
  BY Ahead DEF At, IInv, closeSocket
<1>2. PICK op \in {"close", "drop"} : At(op) /\ Head(todo).op = op
  BY DEF At, closeSocket
<1>3. PICK h \in Handles \ {"rtspEnet", "rtspTcp"} :
        /\ Head(todo).on = {h}
        /\ op = "close" /\ h = "audio" => s.audio = "quiet"
        /\ op = "drop" => h \in {"audio", "video"}
  <2>1. CASE op = "close"
    BY <1>1, <1>2, <2>1 DEF Needs
  <2>2. CASE op = "drop"
    BY <1>1, <1>2, <2>2 DEF Needs, Handles
  <2> QED
    BY <2>1, <2>2
<1>4. On = h
  BY <1>3, OnIs
<1>5. /\ UNCHANGED <<conf, threads, cancelled, ran, signalled>> /\ Advance
      /\ handles \in [Handles -> {"invalid", "open", "dangling"}]
      /\ handles' = [handles EXCEPT ![h] =
           IF handles[h] # "invalid" /\ op = "drop" THEN "dangling" ELSE "invalid"]
  BY <1>2, <1>4 DEF closeSocket, At, IInv, TypeOK
<1>6. TypeOK'
  BY <1>5 DEF IInv, TypeOK
<1>7. /\ handles'["rtspTcp"] = handles["rtspTcp"]
      /\ \A g \in Handles : \/ handles'[g] # "dangling"
                            \/ handles[g] = "dangling" \/ g \in {"audio", "video"}
  BY <1>3, <1>5
<1>8. Alive' = Alive /\ SetUp' = SetUp
  BY <1>5 DEF Alive, SetUp
<1>9. CASE ~(op = "close" /\ h = "audio")
  <2> DEFINE r == Holding(s, s.threads, s.handles \ {h}, s.parts, s.renderers)
  <2>1. After(conf, Head(todo), s) = r
    <3>1. /\ Head(todo).op \in {"close", "drop"}
          /\ ~(Head(todo).op = "close" /\ Head(todo).on = {"audio"})
      BY <1>2, <1>3, <1>9
    <3>2. After(conf, Head(todo), s) = AfterHold(Head(todo), s)
      BY <3>1 DEF After, PointOps, LastOps
    <3> QED
      BY <1>3, <3>1, <3>2 DEF AfterHold
  <2>2. /\ r.threads = s.threads /\ r.handles = s.handles \ {h}
        /\ r.parts = s.parts /\ r.renderers = s.renderers /\ r.stage = s.stage
        /\ r.streams = s.streams /\ r.rfi = s.rfi /\ r.audio = s.audio
        /\ r.rtsp = s.rtsp
    BY DEF Holding
  <2> HIDE DEF r
  <2>3. Opened' = Opened \ {h}
    BY <1>5 DEF Opened
  <2>4. handles'["audio"] = "invalid" <=> handles["audio"] = "invalid"
    BY <1>5, <1>9 DEF Handles
  <2>5. AudioKnown(r.audio)'
    BY <1>1, <1>5, <2>2, <2>4 DEF Matches, AudioKnown, AudioUnbound
  <2>8. /\ r.threads = Alive' /\ r.handles = Opened' /\ r.parts = parts'
        /\ r.renderers = SetUp' /\ r.stage = stage'
    BY <1>1, <1>8, <2>2, <2>3 DEF Matches
  <2>9. Leads(conf, Tail(todo), r, u)
    BY <1>1, <2>1
  <2> QED
    BY <1>1, <1>2, <1>5, <1>6, <1>7, <2>2, <2>5, <2>8, <2>9, Moving
<1>10. CASE op = "close" /\ h = "audio"
  <2> DEFINE r == AtPoint(s, s.stage, "none", s.rtsp)
  <2>1. After(conf, Head(todo), s) = r
    BY <1>2, <1>3, <1>10 DEF After, AfterPoint, PointOps, LastOps
  <2>2. /\ r.threads = s.threads /\ r.handles = s.handles
        /\ r.parts = s.parts /\ r.renderers = s.renderers /\ r.stage = s.stage
        /\ r.streams = s.streams /\ r.rfi = s.rfi /\ r.audio = "none"
        /\ r.rtsp = s.rtsp
    BY DEF AtPoint
  <2> HIDE DEF r
  <2>3. Opened' = Opened /\ handles'["audio"] = "invalid"
    BY <1>5, <1>10 DEF Opened
  <2>4. threads["AudioPing"] = "none"
    BY <1>1, <1>3, <1>10 DEF Matches, AudioKnown
  <2>5. AudioKnown(r.audio)'
    BY <1>5, <2>2, <2>3, <2>4 DEF AudioKnown
  <2>8. /\ r.threads = Alive' /\ r.handles = Opened' /\ r.parts = parts'
        /\ r.renderers = SetUp' /\ r.stage = stage'
    BY <1>1, <1>8, <2>2, <2>3 DEF Matches
  <2>9. Leads(conf, Tail(todo), r, u)
    BY <1>1, <2>1
  <2> QED
    BY <1>1, <1>2, <1>5, <1>6, <1>7, <2>2, <2>5, <2>8, <2>9, Moving
<1> QED
  BY <1>9, <1>10

LEMMA PlatformCorrect ==
  ASSUME IInv, PlatformStep,
         UNCHANGED <<ConnectionInterrupted, rtsp, lifecycle>>
  PROVE  IInv'
<1>1. CASE PltCreateThread
  BY <1>1, CreateCorrect
<1>2. CASE PltInterruptThread
  BY <1>2, CancelCorrect
<1>3. CASE PltJoinThread
  BY <1>3, JoinCorrect
<1>4. CASE SignalWaiters
  BY <1>4, SignalCorrect
<1>5. CASE OpenHandle
  BY <1>5, OpenCorrect
<1>6. CASE closeSocket
  BY <1>6, CloseCorrect
<1> QED
  BY <1>1, <1>2, <1>3, <1>4, <1>5, <1>6 DEF PlatformStep

(* Steps that hold and release nothing                                     *)
LEMMA IdleCorrect ==
  ASSUME IInv,
         \/ CheckAssumption
         \/ InterruptStep
         \/ At("attempt") /\ AttemptStep
         \/ At("check") /\ Advance /\ CheckParameters
         \/ ResetGlobals
  PROVE  IInv'
<1> USE DEF platform, rtsp, lifecycle
<1>1. CASE CheckAssumption
  <2>1. TypeOK' /\ NegAsIs /\ SetUp' = SetUp
    BY <1>1 DEF CheckAssumption, IInv, TypeOK, NegAsIs, NegShape, SetUp
  <2> QED
    BY <1>1, <2>1, Idle DEF CheckAssumption, IdleOps
<1>2. CASE InterruptStep
  <2>1. TypeOK'
    BY <1>2 DEF InterruptStep, IInv, TypeOK
  <2>2. NegAsIs /\ SetUp' = SetUp
    BY <1>2 DEF InterruptStep, IInv, NegAsIs, NegShape, SetUp
  <2> QED
    BY <1>2, <2>1, <2>2, Idle DEF InterruptStep, IdleOps
<1>3. CASE At("attempt") /\ AttemptStep
  <2>1. TypeOK' /\ NegAsIs /\ SetUp' = SetUp
    BY <1>3 DEF AttemptStep, IInv, TypeOK, NegAsIs, NegShape, SetUp
  <2>2. CASE Advance
    BY <1>3, <2>1, <2>2, Idle DEF AttemptStep, IdleOps
  <2>3. CASE Fail
    BY <1>3, <2>1, <2>3, FailsIdly DEF AttemptStep
  <2> QED
    BY <1>3, <2>2, <2>3 DEF AttemptStep
<1>4. CASE At("check") /\ Advance /\ CheckParameters
  <2>1. TypeOK' /\ NegAsIs /\ SetUp' = SetUp
    BY <1>4 DEF CheckParameters, IInv, TypeOK, NegAsIs, NegShape, SetUp
  <2> QED
    BY <1>4, <2>1, Idle DEF CheckParameters
<1>5. CASE ResetGlobals
  <2>1. TypeOK'
    BY <1>5 DEF ResetGlobals, IInv, TypeOK
  <2>2. NegAsIs /\ SetUp' = SetUp
    BY <1>5 DEF ResetGlobals, IInv, NegAsIs, NegShape, SetUp
  <2> QED
    BY <1>5, <2>1, <2>2, Idle DEF ResetGlobals, IdleOps
<1> QED
  BY <1>1, <1>2, <1>3, <1>4, <1>5

LEMMA RendererCorrect ==
  ASSUME IInv, CallRenderer
  PROVE  IInv'
<1> USE DEF rtsp, lifecycle
<1>1. PICK op \in {"setup", "start", "stop", "cleanup"} :
        At(op) /\ Head(todo).op = op
  BY DEF CallRenderer, At
<1>2. PICK s, u :
        /\ Matches(s) /\ Over(conf, u) /\ Needs(conf, Head(todo), s)
        /\ Leads(conf, Tail(todo), After(conf, Head(todo), s), u)
  BY <1>1, Ahead DEF At, IInv
<1>3. PICK d \in Renderers :
        Head(todo).on = {d} /\ (op \in {"start", "stop"} => d \in s.renderers)
  BY <1>1, <1>2 DEF Needs
<1>4. On = d
  BY <1>3, OnIs
<1>5. PICK after \in {"none", "ready", "started"} :
        /\ renderers' = [renderers EXCEPT ![d] = after]
        /\ after = "none" <=> op = "cleanup"
  BY <1>1, <1>4 DEF CallRenderer
<1>6. /\ UNCHANGED <<conf, threads, cancelled, ran, handles, signalled,
                     ConnectionInterrupted, rtsp, stage, alreadyTerminated,
                     parts, told, asyncTerm, asked, connections>>
      /\ Advance
      /\ renderers \in [Renderers -> {"none", "ready", "started"}]
  BY DEF CallRenderer, IInv, TypeOK, Renderers
<1>7. TypeOK'
  BY <1>5, <1>6 DEF IInv, TypeOK, Renderers
<1>8. SetUp' = IF op = "cleanup" THEN SetUp \ {d} ELSE SetUp \cup {d}
  BY <1>3, <1>5, <1>6 DEF SetUp
<1>9. CASE op \in {"start", "stop"}
  <2>1. SetUp' = SetUp
    BY <1>2, <1>3, <1>8, <1>9 DEF Matches
  <2>2. NegAsIs
    BY <1>6 DEF IInv, NegAsIs, NegShape
  <2> QED
    BY <1>1, <1>6, <1>7, <1>9, <2>1, <2>2, Idle DEF IdleOps
<1>10. CASE op \in {"setup", "cleanup"}
  <2> DEFINE r == Holding(s, s.threads, s.handles, s.parts, SetUp')
  <2>1. After(conf, Head(todo), s) = r
    <3>1. After(conf, Head(todo), s) = AfterHold(Head(todo), s)
      BY <1>1, <1>10 DEF After, PointOps, LastOps
    <3>2. s.renderers = SetUp
      BY <1>2 DEF Matches
    <3> QED
      BY <1>1, <1>3, <1>8, <1>10, <3>1, <3>2 DEF AfterHold
  <2>2. /\ r.threads = s.threads /\ r.handles = s.handles
        /\ r.parts = s.parts /\ r.renderers = SetUp' /\ r.stage = s.stage
        /\ r.streams = s.streams /\ r.rfi = s.rfi /\ r.audio = s.audio
        /\ r.rtsp = s.rtsp
    BY DEF Holding
  <2>3. Leads(conf, Tail(todo), r, u)
    BY <1>2, <2>1
  <2> HIDE DEF r
  <2>4. PICK q : q = r
    OBVIOUS
  <2>5. Alive' = Alive /\ Opened' = Opened
    BY <1>6 DEF Alive, Opened
  <2>6. AudioKnown(q.audio)'
    BY <1>2, <1>6, <2>2, <2>4 DEF Matches, AudioKnown, AudioUnbound
  <2>7. /\ q.threads = Alive' /\ q.handles = Opened' /\ q.parts = parts'
        /\ q.renderers = SetUp' /\ q.stage = stage'
        /\ q.streams = s.streams /\ q.rfi = s.rfi /\ q.rtsp = s.rtsp
    BY <1>2, <1>6, <2>2, <2>4, <2>5 DEF Matches
  <2>8. Leads(conf, Tail(todo), q, u)
    BY <2>3, <2>4
  <2>9. /\ handles'["rtspTcp"] = handles["rtspTcp"]
        /\ \A g \in Handles : handles'[g] # "dangling" \/ handles[g] = "dangling"
    BY <1>6
  <2> QED
    BY <1>1, <1>2, <1>6, <1>7, <1>10, <2>6, <2>7, <2>8, <2>9, Moving
<1> QED
  BY <1>9, <1>10

LEMMA InitializeCorrect ==
  ASSUME IInv, InitializePart
  PROVE  IInv'
<1> USE DEF InitializePart, rtsp, lifecycle
<1>1. PICK s, u :
        /\ Matches(s) /\ Over(conf, u) /\ Needs(conf, Head(todo), s)
        /\ Leads(conf, Tail(todo), After(conf, Head(todo), s), u)
  BY Ahead DEF At, IInv
<1>2. PICK p \in Parts : Head(todo).on = {p} /\ (p = "audio" => s.audio = "none")
  BY <1>1 DEF At, Needs
<1>3. On = p
  BY <1>2, OnIs
<1>4. TypeOK'
  BY <1>3 DEF IInv, TypeOK
<1>5. Alive' = Alive /\ Opened' = Opened /\ SetUp' = SetUp
  BY DEF Alive, Opened, SetUp
<1>6. PICK r :
        /\ r = After(conf, Head(todo), s)
        /\ r.threads = s.threads /\ r.handles = s.handles
        /\ r.parts = s.parts \cup {p} /\ r.renderers = s.renderers
        /\ r.stage = s.stage /\ r.streams = s.streams /\ r.rfi = s.rfi
        /\ r.audio = IF p = "audio" THEN "any" ELSE s.audio
        /\ r.rtsp = s.rtsp
  <2> DEFINE h == Holding(s, s.threads, s.handles, s.parts \cup {p}, s.renderers)
             q == AtPoint(h, s.stage, "any", s.rtsp)
  <2>1. CASE p = "audio"
    <3>1. After(conf, Head(todo), s) = q
      BY <1>2, <2>1 DEF At, After, AfterPoint, PointOps, LastOps
    <3> QED
      BY <2>1, <3>1 DEF Holding, AtPoint
  <2>2. CASE p # "audio"
    <3>1. Head(todo).op = "initialize" /\ Head(todo).on # {"audio"}
      BY <1>2, <2>2 DEF At
    <3>2. After(conf, Head(todo), s) = AfterHold(Head(todo), s)
      BY <3>1 DEF After, PointOps, LastOps
    <3>3. After(conf, Head(todo), s) = h
      BY <1>2, <3>1, <3>2 DEF AfterHold
    <3> QED
      BY <2>2, <3>3 DEF Holding
  <2> QED
    BY <2>1, <2>2
<1>7. AudioKnown(r.audio)'
  BY <1>1, <1>2, <1>6 DEF Matches, AudioKnown, AudioUnbound
<1>8. /\ r.threads = Alive' /\ r.handles = Opened' /\ r.parts = parts'
      /\ r.renderers = SetUp' /\ r.stage = stage'
  BY <1>1, <1>3, <1>5, <1>6 DEF Matches
<1>9. /\ handles'["rtspTcp"] = handles["rtspTcp"]
      /\ \A g \in Handles : handles'[g] # "dangling" \/ handles[g] = "dangling"
  OBVIOUS
<1>10. Leads(conf, Tail(todo), r, u)
  BY <1>1, <1>6
<1> QED
  BY <1>1, <1>4, <1>6, <1>7, <1>8, <1>9, <1>10, Moving

LEMMA DestroyCorrect ==
  ASSUME IInv, DestroyPart
  PROVE  IInv'
<1> USE DEF rtsp, lifecycle
<1>1. /\ At("destroy") /\ Advance /\ parts' = parts \ {On}
      /\ UNCHANGED <<conf, threads, cancelled, ran, handles, signalled,
                     ConnectionInterrupted, rtsp, stage, alreadyTerminated,
                     renderers, told, asyncTerm, asked, connections>>
  BY DEF DestroyPart
<1>2. PICK s, u :
        /\ Matches(s) /\ Over(conf, u) /\ Needs(conf, Head(todo), s)
        /\ Leads(conf, Tail(todo), After(conf, Head(todo), s), u)
  BY <1>1, Ahead DEF At, IInv
<1>3. PICK p \in Parts : Head(todo).on = {p}
  BY <1>1, <1>2 DEF At, Needs
<1>4. On = p
  BY <1>3, OnIs
<1>5. TypeOK'
  BY <1>1 DEF IInv, TypeOK
<1>6. Alive' = Alive /\ Opened' = Opened /\ SetUp' = SetUp
  BY <1>1 DEF Alive, Opened, SetUp
<1> DEFINE r == Holding(s, s.threads, s.handles, s.parts \ {p}, s.renderers)
<1>7. After(conf, Head(todo), s) = r
  BY <1>1, <1>3 DEF At, After, AfterHold, PointOps, LastOps
<1>8. /\ r.threads = s.threads /\ r.handles = s.handles
      /\ r.parts = s.parts \ {p} /\ r.renderers = s.renderers
      /\ r.stage = s.stage /\ r.streams = s.streams /\ r.rfi = s.rfi
      /\ r.audio = s.audio /\ r.rtsp = s.rtsp
  BY DEF Holding
<1> HIDE DEF r
<1>9. AudioKnown(r.audio)'
  BY <1>1, <1>2, <1>8 DEF Matches, AudioKnown, AudioUnbound
<1>10. /\ r.threads = Alive' /\ r.handles = Opened' /\ r.parts = parts'
       /\ r.renderers = SetUp' /\ r.stage = stage'
  BY <1>1, <1>2, <1>4, <1>6, <1>8 DEF Matches
<1>11. /\ handles'["rtspTcp"] = handles["rtspTcp"]
       /\ \A g \in Handles : handles'[g] # "dangling" \/ handles[g] = "dangling"
  BY <1>1
<1>12. Leads(conf, Tail(todo), r, u)
  BY <1>2, <1>7
<1> QED
  BY <1>1, <1>2, <1>5, <1>8, <1>9, <1>10, <1>11, <1>12, Moving

LEMMA StageCorrect ==
  ASSUME IInv, CompleteStage \/ StageUndone
  PROVE  IInv'
<1> USE DEF platform, rtsp, lifecycle
<1>1. PICK op \in {"complete", "undone"} :
        /\ At(op) /\ Head(todo).op = op /\ Advance
        /\ stage' = IF op = "complete" THEN stage + 1 ELSE stage - 1
        /\ UNCHANGED <<conf, threads, cancelled, ran, handles, signalled,
                       ConnectionInterrupted, rtsp, alreadyTerminated, parts,
                       renderers, told, asyncTerm, asked, connections>>
  <2>1. CASE CompleteStage
    BY <2>1 DEF CompleteStage, At
  <2>2. CASE StageUndone
    BY <2>2 DEF StageUndone, At
  <2> QED
    BY <2>1, <2>2
<1>2. PICK s, u :
        /\ Matches(s) /\ Over(conf, u) /\ Needs(conf, Head(todo), s)
        /\ Leads(conf, Tail(todo), After(conf, Head(todo), s), u)
  BY <1>1, Ahead DEF At, IInv
<1>3. s.stage = stage /\ stage \in 0..11 /\ Len(Stages) = 11
  BY <1>2, StageNames DEF Matches, IInv, TypeOK
<1>4. IF op = "complete" THEN stage < 11 ELSE stage > 0
  <2>1. CASE op = "complete"
    BY <1>1, <1>2, <1>3, <2>1 DEF Needs
  <2>2. CASE op = "undone"
    BY <1>1, <1>2, <1>3, <2>2 DEF Needs
  <2> QED
    BY <2>1, <2>2
<1>5. stage' \in 0..Len(Stages)
  BY <1>1, <1>3, <1>4
<1>6. TypeOK'
  BY <1>1, <1>5 DEF IInv, TypeOK
<1> DEFINE r == AtPoint(s, IF op = "complete" THEN s.stage + 1 ELSE s.stage - 1,
                        s.audio, s.rtsp)
<1>7. After(conf, Head(todo), s) = r
  BY <1>1 DEF After, AfterPoint, PointOps, LastOps
<1>8. /\ r.threads = s.threads /\ r.handles = s.handles
      /\ r.parts = s.parts /\ r.renderers = s.renderers
      /\ r.stage = IF op = "complete" THEN s.stage + 1 ELSE s.stage - 1
      /\ r.streams = s.streams /\ r.rfi = s.rfi
      /\ r.audio = s.audio /\ r.rtsp = s.rtsp
  BY DEF AtPoint
<1> HIDE DEF r
<1>9. AudioKnown(r.audio)'
  BY <1>1, <1>2, <1>8 DEF Matches, AudioKnown, AudioUnbound
<1>10. Alive' = Alive /\ Opened' = Opened /\ SetUp' = SetUp
  BY <1>1 DEF Alive, Opened, SetUp
<1>11. /\ r.threads = Alive' /\ r.handles = Opened' /\ r.parts = parts'
       /\ r.renderers = SetUp' /\ r.stage = stage'
  BY <1>1, <1>2, <1>3, <1>8, <1>10 DEF Matches
<1>12. /\ handles'["rtspTcp"] = handles["rtspTcp"]
       /\ \A g \in Handles : handles'[g] # "dangling" \/ handles[g] = "dangling"
  BY <1>1
<1>13. Leads(conf, Tail(todo), r, u)
  BY <1>2, <1>7
<1> QED
  BY <1>1, <1>2, <1>6, <1>8, <1>9, <1>11, <1>12, <1>13, Moving

(* A step that goes on with another program                                *)
LEMMA GoesOn ==
  ASSUME IInv, NEW op, At(op), op # "request", TypeOK',
         UNCHANGED <<conf, threads, handles, answered, neg, parts, renderers,
                     stage, connections>>,
         NEW s, NEW u, Leads(conf, todo', s, u), Over(conf, u),
         Counted', Matches(s)'
  PROVE  IInv'
<1>1. Annotated'
  BY DEF Annotated
<1>2. Held'
  BY DEF At, IInv, Held
<1> QED
  BY <1>1, <1>2 DEF IInv, NegShape

LEMMA BeginCorrect ==
  ASSUME IInv, BeginStreams
  PROVE  IInv'
<1> USE DEF BeginStreams, platform, rtsp, lifecycle
<1>1. PICK s : Matches(s) /\ Needs(conf, Head(todo), s)
  BY Ahead DEF At, IInv
<1>2. AtStage(conf, s) /\ s.stage = 7
  BY <1>1 DEF At, Needs
<1>3. /\ s.threads = {} /\ s.handles = {} /\ s.renderers = {}
      /\ s.parts = PartsAt(7) /\ s.audio = "bound" /\ s.rtsp = "done"
  BY <1>2, LowHolds DEF AtStage, AudioAt
<1>4. PICK r : r = Complete(conf, 7, RfiEnabled)
  OBVIOUS
<1>5. /\ r.threads = {} /\ r.handles = {} /\ r.renderers = {}
      /\ r.parts = PartsAt(7) /\ r.audio = "bound" /\ r.rtsp = "done"
      /\ r.stage = 7 /\ r.rfi = RfiEnabled
  BY <1>4, AtSeven DEF With
<1>6. Matches(r)
  BY <1>1, <1>2, <1>3, <1>5 DEF Matches
<1>7. NegAsIs /\ SetUp' = SetUp
  BY DEF IInv, NegAsIs, NegShape, SetUp
<1>8. Matches(r)'
  BY <1>6, <1>7, Unmoved
<1>9. Leads(conf, todo', r, Complete(conf, 11, RfiEnabled))
  BY <1>4, StreamsStart
<1>10. Over(conf, Complete(conf, 11, RfiEnabled))
  BY CompleteSettled, 11 \in 7..11 DEF Over
<1>11. TypeOK' /\ Counted'
  BY DEF IInv, TypeOK, Counted, At
<1>12. PICK u : Leads(conf, todo', r, u) /\ Over(conf, u)
  BY <1>9, <1>10
<1> QED
  BY <1>8, <1>11, <1>12, GoesOn

LEMMA FailedCorrect ==
  ASSUME IInv, StageFailed
  PROVE  IInv'
<1> USE DEF StageFailed, platform, rtsp, lifecycle
<1>1. PICK s : Matches(s) /\ Needs(conf, Head(todo), s) /\ UsersServed(conf, s)
  BY Ahead DEF At, IInv
<1>2. GivenUp(conf, s)
  BY <1>1 DEF At, Needs
<1>3. told'.failed = told.failed + 1 /\ DOMAIN told' = DOMAIN told
  BY DEF IInv, Counted
<1>4. told'.failed > 0 /\ told'.failed \in Nat
  BY <1>3 DEF IInv, Counted
<1>5. TypeOK' /\ Counted'
  BY <1>3, <1>4 DEF IInv, TypeOK, Counted, At
<1> DEFINE r == AtPoint(s, s.stage, s.audio, IF s.rtsp = "init" THEN "no" ELSE s.rtsp)
<1>6. /\ r.threads = s.threads /\ r.handles = s.handles
      /\ r.parts = s.parts /\ r.renderers = s.renderers
      /\ r.stage = s.stage /\ r.streams = s.streams /\ r.rfi = s.rfi
      /\ r.audio = s.audio /\ r.rtsp = IF s.rtsp = "init" THEN "no" ELSE s.rtsp
  BY DEF AtPoint
<1> HIDE DEF r
<1>7. s.rtsp = "init" => useEnet /\ s.stage < 4
  <2>1. s.stage \in 0..11
    BY <1>1, StageNames DEF Matches, IInv, TypeOK
  <2> QED
    BY <1>2, <2>1 DEF GivenUp, AtStage, EnetIn, useEnet
<1>8. Settled(conf, r)
  BY <1>2, <1>6, <1>7 DEF Settled, GivenUp, AtStage
<1>9. UsersServed(conf, r)
  BY <1>1, <1>6 DEF UsersServed
<1>10. Leads(conf, todo', r, Nothing)
  BY <1>8, <1>9, LastSteps
<1>11. Matches(r)'
  <2>1. /\ Alive' = Alive /\ Opened' = Opened /\ SetUp' = SetUp
        /\ RfiEnabled' = RfiEnabled
    BY DEF Alive, Opened, SetUp, RfiEnabled
  <2>2. AudioKnown(r.audio)'
    BY <1>1, <1>6 DEF Matches, AudioKnown, AudioUnbound
  <2>3. Forgotten => Forgotten'
    BY <1>4 DEF Forgotten, useEnet
  <2>4. useEnet => Forgotten'
    BY <1>4 DEF Forgotten, useEnet
  <2>5. r.rtsp \in {"no", "done"}
    BY <1>8 DEF Settled
  <2>6. neg.session => FALSE
    BY <1>1, <1>2 DEF Matches, GivenUp
  <2>7. neg.contexts => r.rtsp = "no" /\ Forgotten'
    BY <1>1, <1>2, <1>6, <1>7, <2>3, <2>4 DEF Matches, GivenUp
  <2> QED
    BY <1>1, <1>6, <2>1, <2>2, <2>6, <2>7 DEF Matches
<1> QED
  BY <1>5, <1>10, <1>11, NothingOver, GoesOn

LEMMA StopCorrect ==
  ASSUME IInv, LiStopConnection \/ (At("check") /\ todo' = <<Stop>> /\ CheckParameters)
  PROVE  IInv'
<1> USE DEF platform, rtsp, lifecycle
<1>1. PICK op \in {"check", "stopConnection"} :
        /\ At(op) /\ Head(todo).op = op /\ todo' \in {<<Stop>>, <<Undo>>}
        /\ UNCHANGED <<conf, threads, cancelled, ran, handles, signalled,
                       rtsp, stage, parts, renderers, told, asyncTerm,
                       asked, connections>>
        /\ {alreadyTerminated', ConnectionInterrupted'} \subseteq BOOLEAN
  BY DEF LiStopConnection, CheckParameters, At, IInv, TypeOK
<1>2. PICK s : Matches(s) /\ Needs(conf, Head(todo), s) /\ UsersServed(conf, s)
  BY <1>1, Ahead DEF At, IInv
<1>3. Settled(conf, s)
  BY <1>1, <1>2 DEF Needs
<1>4. Leads(conf, todo', s, Nothing)
  BY <1>1, <1>2, <1>3, LastSteps
<1>5. TypeOK' /\ Counted'
  BY <1>1 DEF IInv, TypeOK, Counted, At
<1>6. NegAsIs /\ SetUp' = SetUp
  BY <1>1 DEF IInv, NegAsIs, NegShape, SetUp
<1>7. Matches(s)'
  BY <1>1, <1>2, <1>6, Unmoved
<1> QED
  BY <1>1, <1>4, <1>5, <1>7, NothingOver, GoesOn

LEMMA UndoCorrect ==
  ASSUME IInv, UndoStages
  PROVE  IInv'
<1> USE DEF platform, rtsp, lifecycle
<1>1. PICK s : Matches(s) /\ Needs(conf, Head(todo), s) /\ UsersServed(conf, s)
  BY Ahead DEF At, IInv, UndoStages
<1>2. Settled(conf, s)
  BY <1>1 DEF At, Needs, UndoStages
<1>3. s.stage = stage /\ stage \in 0..11 /\ AtStage(conf, s)
  BY <1>1, <1>2, StageNames DEF Matches, IInv, TypeOK, Settled
<1>4. /\ At("undo")
      /\ UNCHANGED <<conf, threads, cancelled, ran, handles, signalled, faults,
                     ConnectionInterrupted, rtsp, stage, alreadyTerminated,
                     parts, renderers, told, asyncTerm, asked, connections>>
      /\ todo' = IF stage = 0 THEN <<>> ELSE UndoStage(stage) \o <<Undone, Undo>>
  BY DEF UndoStages, Undone
<1>5. TypeOK' /\ Counted'
  BY <1>4 DEF IInv, TypeOK, Counted, At
<1>6. NegAsIs /\ SetUp' = SetUp
  BY <1>4 DEF IInv, NegAsIs, NegShape, SetUp
<1>7. ASSUME NEW r, NEW u, Matches(r), Leads(conf, todo', r, u), Over(conf, u)
      PROVE  IInv'
  <2>1. Matches(r)'
    BY <1>4, <1>6, <1>7, Unmoved
  <2> QED
    BY <1>4, <1>5, <1>7, <2>1, GoesOn
<1>8. CASE stage = 0
  <2>1. Leads(conf, todo', s, s)
    BY <1>1, <1>4, <1>8, NoStep
  <2>2. Over(conf, s)
    BY <1>2, <1>3, <1>8 DEF Over
  <2> QED
    BY <1>1, <1>7, <2>1, <2>2
<1>9. CASE stage \in 8..11
  <2>1. PICK r : r = Complete(conf, stage, RfiEnabled)
    OBVIOUS
  <2>2. Leads(conf, todo', r, Nothing)
    <3>1. Leads(conf, UndoStage(stage) \o <<Undone, Undo>>,
                Complete(conf, stage, RfiEnabled), Nothing)
      BY <1>9, StreamUndone
    <3> QED
      BY <1>4, <1>9, <2>1, <3>1
  <2>3. /\ s.streams /\ s.rtsp = "done" /\ s.audio = "bound"
        /\ s.threads = ThreadsAt(conf, stage, s.rfi)
        /\ s.handles = HandlesAt(conf, stage) /\ s.parts = PartsAt(stage)
        /\ s.renderers = RenderersAt(stage)
    BY <1>3, <1>9 DEF AtStage, AudioAt
  <2>4. s.rfi <=> RfiEnabled
    BY <1>1, <2>3 DEF Matches
  <2>5. ThreadsAt(conf, stage, RfiEnabled) = ThreadsAt(conf, stage, s.rfi)
    BY <2>4 DEF ThreadsAt, ControlThreads
  <2>6. /\ r.threads = s.threads /\ r.handles = s.handles /\ r.parts = s.parts
        /\ r.renderers = s.renderers /\ r.stage = stage /\ r.rfi = RfiEnabled
        /\ r.rtsp = s.rtsp /\ r.audio = s.audio
    BY <2>1, <2>3, <2>5 DEF Complete, With
  <2>7. Matches(r)
    BY <1>1, <1>3, <2>6 DEF Matches
  <2> QED
    BY <1>7, <2>2, <2>7, NothingOver
<1>10. CASE stage = 3
  <2>1. AudioKnown(s.audio)
    BY <1>1 DEF Matches
  <2>2. PICK a : /\ AudioKnown(a)
                 /\ Leads(conf, UndoStage(3) \o <<Undone, Undo>>,
                          AtPoint(s, 3, a, s.rtsp), Nothing)
    BY <1>2, <1>3, <1>10, <2>1, AudioUndone
  <2> DEFINE r == AtPoint(s, 3, a, s.rtsp)
  <2>3. /\ r.threads = s.threads /\ r.handles = s.handles /\ r.parts = s.parts
        /\ r.renderers = s.renderers /\ r.stage = 3 /\ r.rfi = s.rfi
        /\ r.rtsp = s.rtsp /\ r.audio = a /\ r.streams = s.streams
    BY DEF AtPoint
  <2>4. Leads(conf, todo', r, Nothing)
    BY <1>4, <1>10, <2>2
  <2> HIDE DEF r
  <2>5. Matches(r)
    BY <1>1, <1>10, <2>2, <2>3 DEF Matches
  <2> QED
    BY <1>7, <2>4, <2>5, NothingOver
<1>11. CASE stage \in 1..7 /\ stage # 3
  <2>1. Leads(conf, UndoStage(s.stage) \o <<Undone, Undo>>, s, Nothing)
    BY <1>2, <1>3, <1>11, EarlyUndone
  <2>2. todo' = UndoStage(s.stage) \o <<Undone, Undo>>
    BY <1>3, <1>4, <1>11
  <2>3. Leads(conf, todo', s, Nothing)
    BY <2>1, <2>2
  <2> QED
    BY <1>1, <1>7, <2>3, NothingOver
<1> QED
  BY <1>3, <1>8, <1>9, <1>10, <1>11

(***************************************************************************)
(* Steps of the handshake                                                  *)
(***************************************************************************)

LEMMA RtspInitCorrect ==
  ASSUME IInv, RtspInit, UNCHANGED lifecycle
  PROVE  IInv'
<1> USE DEF platform, lifecycle
<1>1. PICK s, u :
        /\ Matches(s) /\ Over(conf, u)
        /\ Leads(conf, Tail(todo), After(conf, Head(todo), s), u)
  BY Ahead DEF At, IInv, RtspInit
<1>2. /\ At("rtspInit") /\ Advance
      /\ UNCHANGED <<conf, threads, cancelled, ran, handles, signalled, faults,
                     ConnectionInterrupted, connectRetries, answered, stage,
                     alreadyTerminated, parts, renderers, told, asyncTerm,
                     asked, connections>>
      /\ neg' = [neg EXCEPT !.contexts = TRUE, !.session = FALSE]
  BY DEF RtspInit
<1>3. TypeOK'
  BY <1>2 DEF IInv, TypeOK
<1>4. /\ NegShape' /\ neg'.contexts = TRUE /\ neg'.session = FALSE
      /\ neg'.rfi = neg.rfi
  BY <1>2 DEF IInv, NegShape
<1>5. Counted' /\ Held'
  BY <1>2, CallKeeps DEF IInv, Held
<1> DEFINE r == AtPoint(s, s.stage, s.audio, "init")
<1>6. After(conf, Head(todo), s) = r
  BY <1>2 DEF At, After, AfterPoint, PointOps, LastOps
<1>7. /\ r.threads = s.threads /\ r.handles = s.handles /\ r.parts = s.parts
      /\ r.renderers = s.renderers /\ r.stage = s.stage /\ r.rfi = s.rfi
      /\ r.rtsp = "init" /\ r.audio = s.audio /\ r.streams = s.streams
  BY DEF AtPoint
<1> HIDE DEF r
<1>8. Matches(r)'
  <2>1. /\ Alive' = Alive /\ Opened' = Opened /\ SetUp' = SetUp
        /\ RfiEnabled' = RfiEnabled
    BY <1>2, <1>4 DEF Alive, Opened, SetUp, RfiEnabled
  <2>2. AudioKnown(r.audio)'
    BY <1>1, <1>2, <1>7 DEF Matches, AudioKnown, AudioUnbound
  <2> QED
    BY <1>1, <1>2, <1>4, <1>7, <2>1, <2>2 DEF Matches
<1>9. Annotated'
  BY <1>1, <1>2, <1>6, <1>8, Advancing
<1> QED
  BY <1>3, <1>4, <1>5, <1>9 DEF IInv

LEMMA RtspExitCorrect ==
  ASSUME IInv, RtspCleanup, UNCHANGED lifecycle
  PROVE  IInv'
<1> USE DEF platform, lifecycle
<1>1. PICK s, u :
        /\ Matches(s) /\ Over(conf, u) /\ Needs(conf, Head(todo), s)
        /\ Leads(conf, Tail(todo), After(conf, Head(todo), s), u)
  BY Ahead DEF At, IInv, RtspCleanup
<1>2. /\ At("rtspExit") /\ Advance
      /\ handles' = [handles EXCEPT !["rtspEnet"] = "invalid"]
      /\ UNCHANGED <<conf, threads, cancelled, ran, signalled, faults,
                     ConnectionInterrupted, connectRetries, answered, stage,
                     alreadyTerminated, parts, renderers, told, asyncTerm,
                     asked, connections>>
      /\ neg' = [neg EXCEPT !.contexts = FALSE, !.session = FALSE]
      /\ handles \in [Handles -> {"invalid", "open", "dangling"}]
  BY DEF RtspCleanup, IInv, TypeOK
<1>3. TypeOK'
  BY <1>2 DEF IInv, TypeOK
<1>4. /\ NegShape' /\ neg'.contexts = FALSE /\ neg'.session = FALSE
      /\ neg'.rfi = neg.rfi
  BY <1>2 DEF IInv, NegShape
<1>5. Counted' /\ Held'
  BY <1>2, CallKeeps DEF IInv, Held
<1>6. InHandshake(s)
  BY <1>1, <1>2 DEF At, Needs
<1> DEFINE h == Holding(s, s.threads, {}, s.parts, s.renderers)
           r == AtPoint(h, s.stage, s.audio, "done")
<1>7. After(conf, Head(todo), s) = r
  BY <1>2 DEF At, After, AfterPoint, PointOps, LastOps
<1>8. /\ r.threads = s.threads /\ r.handles = {} /\ r.parts = s.parts
      /\ r.renderers = s.renderers /\ r.stage = s.stage /\ r.rfi = s.rfi
      /\ r.rtsp = "done" /\ r.audio = s.audio /\ r.streams = s.streams
  BY DEF AtPoint, Holding
<1> HIDE DEF r
<1>9. Matches(r)'
  <2>1. /\ Alive' = Alive /\ SetUp' = SetUp /\ RfiEnabled' = RfiEnabled
    BY <1>2, <1>4 DEF Alive, SetUp, RfiEnabled
  <2>2. Opened' = {}
    <3>1. Opened \subseteq {"rtspEnet"}
      BY <1>1, <1>6 DEF Matches, InHandshake
    <3> QED
      BY <1>2, <3>1 DEF Opened
  <2>3. handles'["audio"] = handles["audio"]
    BY <1>2 DEF Handles
  <2>4. AudioKnown(r.audio)'
    BY <1>1, <1>2, <1>8, <2>3 DEF Matches, AudioKnown, AudioUnbound
  <2> QED
    BY <1>1, <1>2, <1>4, <1>8, <2>1, <2>2, <2>4 DEF Matches
<1>10. Annotated'
  BY <1>1, <1>2, <1>7, <1>9, Advancing
<1> QED
  BY <1>3, <1>4, <1>5, <1>10 DEF IInv

(* What every step of a request leaves alone                               *)
Requested ==
  /\ At("request")
  /\ UNCHANGED <<conf, stage, parts, renderers, told, connections>>
  /\ Alive' = Alive /\ Opened' = Opened
  /\ \A a \in {"any", "bound"} : AudioKnown(a) => AudioKnown(a)'
  /\ \A h \in Handles : handles'[h] = "dangling" => handles[h] = "dangling"
  /\ NegShape' /\ neg'.contexts = neg.contexts

LEMMA RequestMatches ==
  ASSUME Requested, NEW s, Matches(s), InHandshake(s), NEW r,
         r.threads = s.threads, r.handles = s.handles, r.parts = s.parts,
         r.renderers = s.renderers, r.stage = s.stage, r.streams = s.streams,
         r.rtsp \in {"init", "request"}, AudioKnown(r.audio)',
         neg'.session => r.rtsp = "request"
  PROVE  Matches(r)'
<1>1. SetUp' = SetUp /\ ~r.streams
  BY DEF Requested, SetUp, InHandshake
<1> QED
  BY <1>1 DEF Requested, Matches

LEMMA RequestAhead ==
  ASSUME IInv, At("request")
  PROVE  \E s, u :
           /\ Matches(s) /\ Over(conf, u) /\ Leads(conf, todo, s, u)
           /\ InHandshake(s) /\ s.audio \in {"any", "bound"}
           /\ AudioKnown(s.audio) /\ s.rtsp \in {"init", "request"}
           /\ MayFail(conf, Head(todo), s)
           /\ Leads(conf, Tail(todo), After(conf, Head(todo), s), u)
<1>1. PICK s, u :
           /\ Matches(s) /\ Over(conf, u) /\ Leads(conf, todo, s, u)
           /\ Needs(conf, Head(todo), s) /\ MayFail(conf, Head(todo), s)
           /\ Leads(conf, Tail(todo), After(conf, Head(todo), s), u)
  BY Ahead DEF IInv, At
<1>2. InHandshake(s)
  BY <1>1 DEF At, Needs
<1>3. s.audio \in {"any", "bound"} /\ s.rtsp \in {"init", "request"}
  BY <1>2 DEF InHandshake, AudioAt
<1>4. AudioKnown(s.audio)
  BY <1>1 DEF Matches
<1> QED
  BY <1>1, <1>2, <1>3, <1>4

(* The request is left as it is, ...                                       *)
LEMMA RequestGoesOn ==
  ASSUME IInv, Requested, TypeOK', todo' = todo, neg' = neg,
         handles'["rtspTcp"] # "invalid" => ~answered'
  PROVE  IInv'
<1>1. PICK s, u :
        /\ Matches(s) /\ Over(conf, u) /\ Leads(conf, todo, s, u)
        /\ InHandshake(s) /\ s.audio \in {"any", "bound"}
        /\ AudioKnown(s.audio) /\ s.rtsp \in {"init", "request"}
  BY RequestAhead DEF Requested
<1>2. AudioKnown(s.audio)' /\ (neg'.session => s.rtsp = "request")
  BY <1>1 DEF Requested, Matches
<1>3. Matches(s)'
  BY <1>1, <1>2, RequestMatches
<1>4. conf' = conf
  BY DEF Requested
<1>5. Annotated'
  BY <1>1, <1>3, <1>4 DEF Annotated
<1>6. Counted' /\ Held'
  BY DEF IInv, Counted, Held, Requested, At
<1> QED
  BY <1>5, <1>6 DEF IInv, Requested

(* ... it fails, ...                                                       *)
LEMMA RequestFails ==
  ASSUME IInv, Requested, TypeOK', Fail, neg'.session => neg.session,
         handles'["rtspTcp"] = "invalid", ~answered'
  PROVE  IInv'
<1>1. PICK s, u :
        /\ Matches(s) /\ InHandshake(s) /\ s.audio \in {"any", "bound"}
        /\ AudioKnown(s.audio) /\ s.rtsp \in {"init", "request"}
        /\ MayFail(conf, Head(todo), s)
  BY RequestAhead DEF Requested
<1>2. AudioKnown(s.audio)' /\ (neg'.session => s.rtsp = "request")
  BY <1>1 DEF Requested, Matches
<1>3. Matches(s)'
  BY <1>1, <1>2, RequestMatches
<1>4. conf' = conf /\ Head(todo).op \in FailOps
  BY DEF Requested, At, FailOps
<1>5. Annotated'
  BY <1>1, <1>3, <1>4, Failing
<1>6. Counted' /\ Held'
  BY DEF IInv, Counted, Held, Requested, At
<1> QED
  BY <1>5, <1>6 DEF IInv, Requested

(* ... or its answer is taken.                                             *)
LEMMA RequestTaken ==
  ASSUME IInv, Requested, TypeOK', Advance,
         Head(todo).on = {"SETUP audio"} => AudioKnown("bound")',
         handles'["rtspTcp"] = "invalid", ~answered'
  PROVE  IInv'
<1>1. PICK s, u :
        /\ Matches(s) /\ Over(conf, u)
        /\ InHandshake(s) /\ s.audio \in {"any", "bound"}
        /\ AudioKnown(s.audio) /\ s.rtsp \in {"init", "request"}
        /\ Leads(conf, Tail(todo), After(conf, Head(todo), s), u)
  BY RequestAhead DEF Requested
<1>2. PICK a : a = IF Head(todo).on = {"SETUP audio"} THEN "bound" ELSE s.audio
  OBVIOUS
<1>3. AudioKnown(a)'
  <2>1. CASE Head(todo).on = {"SETUP audio"}
    BY <1>2, <2>1
  <2>2. CASE Head(todo).on # {"SETUP audio"}
    BY <1>1, <1>2, <2>2 DEF Requested
  <2> QED
    BY <2>1, <2>2
<1>4. PICK r : r = AtPoint(s, s.stage, a, "request")
  OBVIOUS
<1>5. After(conf, Head(todo), s) = r
  BY <1>4, <1>2 DEF Requested, At, After, AfterPoint, PointOps, LastOps
<1>6. /\ r.threads = s.threads /\ r.handles = s.handles /\ r.parts = s.parts
      /\ r.renderers = s.renderers /\ r.stage = s.stage
      /\ r.rtsp = "request" /\ r.audio = a /\ r.streams = s.streams
  BY <1>4 DEF AtPoint
<1>7. AudioKnown(r.audio)'
  BY <1>3, <1>6
<1>8. Matches(r)'
  BY <1>1, <1>6, <1>7, RequestMatches
<1>9. conf' = conf
  BY DEF Requested
<1>10. Annotated'
  BY <1>1, <1>5, <1>8, <1>9, Advancing
<1>11. Counted' /\ Held'
  BY DEF IInv, Counted, Held, Requested, At
<1> QED
  BY <1>10, <1>11 DEF IInv, Requested

(* A step of transactRtspMessage touches its own connection alone.         *)
LEMMA OwnConnection ==
  ASSUME IInv, At("request"),
         UNCHANGED <<conf, threads, neg, lifecycle>>,
         handles' \in [Handles -> {"invalid", "open", "dangling"}],
         \A h \in Handles : h # "rtspTcp" => handles'[h] = handles[h],
         handles'["rtspTcp"] # "dangling"
  PROVE  Requested
<1>1. Alive' = Alive /\ Opened' = Opened
  BY DEF Alive, Opened
<1>2. handles'["audio"] = handles["audio"]
  BY DEF Handles
<1>3. \A a \in {"any", "bound"} : AudioKnown(a) => AudioKnown(a)'
  BY <1>2 DEF AudioKnown, AudioUnbound
<1>4. NegShape' /\ neg'.contexts = neg.contexts
  BY DEF IInv, NegShape
<1> QED
  BY <1>1, <1>3, <1>4 DEF Requested, lifecycle

LEMMA TransactCorrect ==
  ASSUME IInv, UNCHANGED lifecycle,
         \/ RequestInterrupted
         \/ transactRtspMessageEnet
         \/ ConnectTcp
         \/ transactRtspMessageTcp
  PROVE  IInv'
<1> USE DEF platform, rtsp
<1>1. /\ handles \in [Handles -> {"invalid", "open", "dangling"}]
      /\ connectRetries \in 0..RtspRetries /\ RtspRetries \in Nat
      /\ handles["rtspTcp"] # "dangling"
      /\ handles["rtspTcp"] # "invalid" => ~answered
  BY ConnectionAssumption DEF IInv, TypeOK, Held, Handles
<1>2. CASE RequestInterrupted
  <2>1. Requested
    BY <1>1, <1>2, OwnConnection DEF RequestInterrupted, Requesting
  <2>2. TypeOK'
    BY <1>2 DEF RequestInterrupted, IInv, TypeOK, lifecycle
  <2> QED
    BY <1>2, <2>1, <2>2, RequestFails DEF RequestInterrupted, Requesting
<1>3. CASE transactRtspMessageEnet
  <2>1. Requested
    BY <1>1, <1>3, OwnConnection DEF transactRtspMessageEnet, Requesting
  <2>2. TypeOK'
    BY <1>3 DEF transactRtspMessageEnet, AnswerOrNot, IInv, TypeOK, lifecycle
  <2>3. CASE answered' = TRUE /\ UNCHANGED todo
    BY <1>3, <2>1, <2>2, <2>3, RequestGoesOn DEF transactRtspMessageEnet, Requesting
  <2>4. CASE Fail /\ UNCHANGED answered
    BY <1>3, <2>1, <2>2, <2>4, RequestFails DEF transactRtspMessageEnet, Requesting
  <2> QED
    BY <1>3, <2>3, <2>4 DEF transactRtspMessageEnet, AnswerOrNot
<1>4. CASE ConnectTcp
  <2>1. /\ At("request") /\ ~answered /\ handles["rtspTcp"] = "invalid"
        /\ UNCHANGED <<conf, threads, cancelled, ran, signalled, faults,
                       ConnectionInterrupted, answered, neg>>
        /\ \/ /\ handles' = [handles EXCEPT !["rtspTcp"] = "open"]
              /\ UNCHANGED <<todo, connectRetries>>
           \/ /\ connectRetries < RtspRetries
              /\ connectRetries' = connectRetries + 1
              /\ UNCHANGED <<todo, handles>>
           \/ connectRetries' = 0 /\ Fail /\ UNCHANGED handles
    BY <1>4 DEF ConnectTcp, Requesting
  <2>2. /\ handles' \in [Handles -> {"invalid", "open", "dangling"}]
        /\ \A h \in Handles : h # "rtspTcp" => handles'[h] = handles[h]
        /\ handles'["rtspTcp"] # "dangling"
    BY <1>1, <2>1
  <2>3. Requested
    BY <2>1, <2>2, OwnConnection
  <2>4. connectRetries' \in 0..RtspRetries
    BY <1>1, <2>1
  <2>5. TypeOK'
    BY <2>1, <2>2, <2>4 DEF IInv, TypeOK, lifecycle
  <2>6. CASE UNCHANGED todo
    BY <2>1, <2>3, <2>5, <2>6, RequestGoesOn
  <2>7. CASE Fail /\ UNCHANGED handles
    BY <2>1, <2>3, <2>5, <2>7, RequestFails
  <2> QED
    BY <2>1, <2>6, <2>7
<1>5. CASE transactRtspMessageTcp
  <2>1. /\ At("request") /\ handles["rtspTcp"] = "open"
        /\ handles' = [handles EXCEPT !["rtspTcp"] = "invalid"]
        /\ connectRetries' = 0
        /\ UNCHANGED <<conf, threads, cancelled, ran, signalled, faults,
                       ConnectionInterrupted, neg>>
        /\ \/ answered' = TRUE /\ UNCHANGED todo
           \/ Fail /\ UNCHANGED answered
    BY <1>5 DEF transactRtspMessageTcp, AnswerOrNot
  <2>2. /\ handles' \in [Handles -> {"invalid", "open", "dangling"}]
        /\ \A h \in Handles : h # "rtspTcp" => handles'[h] = handles[h]
        /\ handles'["rtspTcp"] = "invalid" /\ ~answered
    BY <1>1, <2>1 DEF Handles
  <2>3. Requested
    BY <2>1, <2>2, OwnConnection
  <2>4. connectRetries' \in 0..RtspRetries
    BY <1>1, <2>1
  <2>5. TypeOK'
    BY <2>1, <2>2, <2>4 DEF IInv, TypeOK, lifecycle
  <2>6. CASE UNCHANGED todo
    BY <2>1, <2>2, <2>3, <2>5, <2>6, RequestGoesOn
  <2>7. CASE Fail /\ UNCHANGED answered
    BY <2>1, <2>2, <2>3, <2>5, <2>7, RequestFails
  <2> QED
    BY <2>1, <2>6, <2>7
<1> QED
  BY <1>2, <1>3, <1>4, <1>5

(* An answer that starts nothing                                           *)
LEMMA QuietAnswer ==
  ASSUME IInv, At("request"), answered, answered' = FALSE,
         UNCHANGED <<conf, signalled, ConnectionInterrupted, connectRetries,
                     threads, cancelled, ran, handles, lifecycle>>,
         NegShape', neg'.contexts = neg.contexts, neg'.session = neg.session,
         Fail \/ (Advance /\ On # "SETUP audio")
  PROVE  IInv'
<1>1. handles["rtspTcp"] = "invalid" /\ handles["rtspTcp"] # "dangling"
  BY DEF IInv, Held
<1>2. Alive' = Alive /\ Opened' = Opened
  BY DEF Alive, Opened
<1>3. \A a \in {"any", "bound"} : AudioKnown(a) => AudioKnown(a)'
  BY DEF AudioKnown, AudioUnbound
<1>4. Requested
  BY <1>2, <1>3 DEF Requested, lifecycle
<1>5. TypeOK'
  BY DEF IInv, TypeOK, lifecycle
<1>6. CASE Fail
  BY <1>1, <1>4, <1>5, <1>6, RequestFails
<1>7. CASE Advance /\ On # "SETUP audio"
  <2>1. Head(todo).on # {"SETUP audio"}
    BY <1>7, OnIs
  <2> QED
    BY <1>1, <1>4, <1>5, <1>7, <2>1, RequestTaken
<1> QED
  BY <1>6, <1>7

LEMMA SetupAudioCorrect ==
  ASSUME IInv, At("request"), answered, answered' = FALSE,
         UNCHANGED <<conf, signalled, ConnectionInterrupted, connectRetries,
                     lifecycle>>,
         TakeSetupAudio
  PROVE  IInv'
<1>1. /\ handles["rtspTcp"] = "invalid"
      /\ handles \in [Handles -> {"invalid", "open", "dangling"}]
      /\ threads \in [Threads -> {"none", "running", "reporting", "lost"}]
  BY DEF IInv, Held, TypeOK
<1>2. PICK port \in serverPort, session \in BOOLEAN :
        /\ neg' = [neg EXCEPT !.ports["audio"] = port, !.session = session]
        /\ notifyAudioPortNegotiationComplete
        /\ IF session THEN Advance ELSE Fail
  BY DEF TakeSetupAudio
<1>3. /\ NegShape' /\ neg'.contexts = neg.contexts /\ neg'.session = session
  BY <1>2 DEF IInv, NegShape
<1>4. /\ threads' \in [Threads -> {"none", "running", "reporting", "lost"}]
      /\ cancelled' \subseteq Threads /\ ran' \subseteq Threads
      /\ handles' \in [Handles -> {"invalid", "open", "dangling"}]
      /\ \A t \in Threads : t # "AudioPing" => threads'[t] = threads[t]
      /\ \A h \in Handles : h # "audio" => handles'[h] = handles[h]
      /\ handles'["audio"] = "open" \/ (/\ "audio" \in conf.noHandle
                                        /\ UNCHANGED <<threads, handles>>)
  <2>1. "audio" \in Handles /\ "AudioPing" \in Threads
    BY DEF Handles, Threads
  <2>2. cancelled \subseteq Threads /\ ran \subseteq Threads
    BY DEF IInv, TypeOK
  <2> QED
    BY <1>1, <1>2, <2>1, <2>2 DEF notifyAudioPortNegotiationComplete
<1>5. Alive' = Alive /\ Opened' = Opened
  BY <1>4 DEF Alive, Opened
<1>6. \A a \in {"any", "bound"} : AudioKnown(a) => AudioKnown(a)'
  BY <1>4 DEF AudioKnown, AudioUnbound
<1>7. AudioKnown("bound")' \/ ~AudioKnown("any")
  BY <1>4 DEF AudioKnown, AudioUnbound
<1>8. \A h \in Handles : handles'[h] = "dangling" => handles[h] = "dangling"
  BY <1>4
<1>9. Requested
  BY <1>3, <1>5, <1>6, <1>8 DEF Requested, lifecycle
<1>10. TypeOK'
  BY <1>4 DEF IInv, TypeOK, lifecycle
<1>11. handles'["rtspTcp"] = "invalid"
  BY <1>1, <1>4 DEF Handles
<1>12. AudioKnown("any")
  <2>1. PICK s : AudioKnown(s.audio) /\ s.audio \in {"any", "bound"}
    BY RequestAhead
  <2> QED
    BY <2>1 DEF AudioKnown
<1>13. CASE session
  BY <1>2, <1>7, <1>9, <1>10, <1>11, <1>12, <1>13, RequestTaken
<1>14. CASE ~session
  BY <1>2, <1>3, <1>9, <1>10, <1>11, <1>14, RequestFails
<1> QED
  BY <1>13, <1>14

LEMMA HeadFirst ==
  ASSUME NEW p, IsProgram(p), p # <<>>
  PROVE  p = <<Head(p)>> \o Tail(p)
<1> DEFINE x == Head(p)
           q == <<x>> \o Tail(p)
<1>1. PICK S : p \in Seq(S)
  BY DEF IsProgram
<1>2. /\ x \in S /\ Tail(p) \in Seq(S) /\ Len(p) \in Nat \ {0} /\ x = p[1]
      /\ Len(Tail(p)) = Len(p) - 1
      /\ \A i \in 1..Len(p) - 1 : Tail(p)[i] = p[i + 1]
  BY <1>1, HeadTailProperties, EmptySeq, LenProperties
<1> HIDE DEF x
<1>3. <<x>> \in Seq(S) /\ Len(<<x>>) = 1 /\ <<x>>[1] = x
  BY <1>2
<1>4. /\ q \in Seq(S) /\ Len(q) = 1 + (Len(p) - 1)
      /\ \A i \in 1..1 + (Len(p) - 1) :
           q[i] = IF i <= 1 THEN <<x>>[i] ELSE Tail(p)[i - 1]
  BY <1>2, <1>3, ConcatProperties
<1> HIDE DEF q
<1>5. Len(q) = Len(p)
  BY <1>2, <1>4
<1>6. ASSUME NEW i \in 1..Len(p)
      PROVE  p[i] = q[i]
  <2>1. CASE i = 1
    BY <1>2, <1>3, <1>4, <2>1
  <2>2. CASE i # 1
    <3>1. i - 1 \in 1..Len(p) - 1 /\ ~(i <= 1) /\ (i - 1) + 1 = i
      BY <1>2, <2>2
    <3>2. q[i] = Tail(p)[i - 1]
      BY <1>2, <1>4, <3>1
    <3> QED
      BY <1>2, <3>1, <3>2
  <2> QED
    BY <2>1, <2>2
<1>7. p = q
  BY <1>1, <1>4, <1>5, <1>6, SeqEqual
<1> QED
  BY <1>7 DEF q, x

(* A status line without a number: the handshake goes to its end.          *)
LEMMA ZeroCorrect ==
  ASSUME IInv, At("request"), answered, answered' = FALSE,
         UNCHANGED <<conf, signalled, ConnectionInterrupted, connectRetries,
                     threads, cancelled, ran, handles, neg, lifecycle>>,
         conf.statusZero, NEW i \in 1..Len(todo), todo[i].op = "rtspExit",
         todo' = SubSeq(todo, i, Len(todo))
  PROVE  IInv'
<1>1. PICK s, u :
        /\ Matches(s) /\ Over(conf, u) /\ Leads(conf, todo, s, u)
        /\ InHandshake(s) /\ s.audio \in {"any", "bound"}
        /\ AudioKnown(s.audio) /\ s.rtsp \in {"init", "request"}
  BY RequestAhead
<1> DEFINE p == SubSeq(todo, i, Len(todo))
           x == Head(p)
<1>2. PICK r : Needs(conf, todo[i], r) /\ Leads(conf, p, r, u)
  BY <1>1, LeadsFrom
<1>3. IsProgram(todo) /\ IsProgram(p) /\ Len(todo) \in Nat
  BY <1>1, <1>2, LeadsServed, ProgramFacts
<1>4. p # <<>> /\ x = todo[i]
  <2>1. PICK S : todo \in Seq(S) /\ \A j \in i..Len(todo) : todo[j] \in S
    BY <1>3, ElementOfSeq DEF IsProgram
  <2>2. Len(p) = Len(todo) - i + 1 /\ p[1] = todo[i + 1 - 1]
    BY <1>3, <2>1, SubSeqProperties, i \in Int, Len(todo) \in Int, i <= Len(todo)
  <2>3. Len(p) # 0 /\ p[1] = todo[i]
    BY <1>3, <2>2
  <2> HIDE DEF p
  <2> QED
    BY <1>3, <2>3, ProgramFacts
<1>5. InHandshake(r) /\ x.op = "rtspExit"
  BY <1>2, <1>4 DEF Needs
<1> HIDE DEF p, x
<1>6. Leads(conf, Tail(p), After(conf, x, r), u)
  BY <1>2, <1>4, LeadsHead DEF x
<1> DEFINE h == Holding(r, {}, s.handles, PartsAt(3), {})
           q == AtPoint(h, 3, r.audio, s.rtsp)
           after == AtPoint(Holding(r, {}, {}, PartsAt(3), {}), 3, r.audio, "done")
<1>7. /\ q.threads = {} /\ q.handles = s.handles /\ q.parts = PartsAt(3)
      /\ q.renderers = {} /\ q.stage = 3 /\ q.streams = r.streams
      /\ q.rfi = r.rfi /\ q.audio = r.audio /\ q.rtsp = s.rtsp
  BY DEF AtPoint, Holding
<1>8. InHandshake(q)
  BY <1>1, <1>5, <1>7 DEF InHandshake
<1>9. After(conf, x, r) = after
  BY <1>5 DEF InHandshake, After, AfterPoint, PointOps, LastOps
<1>10. After(conf, x, q) = after
  <2>1. After(conf, x, q)
          = AtPoint(Holding(q, q.threads, {}, q.parts, q.renderers), q.stage,
                    q.audio, "done")
    BY <1>5 DEF After, AfterPoint, PointOps, LastOps
  <2> HIDE DEF q
  <2> QED
    BY <1>7, <2>1 DEF AtPoint, Holding
<1>11. after.threads = {}
  BY DEF AtPoint, Holding
<1> HIDE DEF q, after
<1>12. UsersServed(conf, q) /\ UsersServed(conf, after)
  BY <1>7, <1>11, ThreadlessServed
<1>13. Needs(conf, x, q) /\ MayFail(conf, x, q)
  BY <1>5, <1>8 DEF Needs, MayFail, FailOps
<1>14. Leads(conf, <<x>>, q, after)
  BY <1>10, <1>12, <1>13, OneLeads
<1>15. Leads(conf, <<x>> \o Tail(p), q, u)
  BY <1>6, <1>9, <1>14, LeadsThen
<1>16. p = <<x>> \o Tail(p)
  BY <1>3, <1>4, HeadFirst DEF x
<1>17. Leads(conf, todo', q, u)
  BY <1>15, <1>16 DEF p
<1>18. AudioKnown(q.audio)'
  <2>1. q.audio \in {"any", "bound"}
    BY <1>5, <1>7 DEF InHandshake, AudioAt
  <2> QED
    BY <1>1, <2>1 DEF AudioKnown, AudioUnbound
<1>19. /\ handles["rtspTcp"] = "invalid"
       /\ \A g \in Handles : handles[g] = "dangling" => g \in {"audio", "video"}
  BY DEF IInv, Held
<1>20. Alive' = Alive /\ Opened' = Opened /\ SetUp' = SetUp
  BY DEF Alive, Opened, SetUp, lifecycle
<1>21. Matches(q)'
  <2>1. /\ q.threads = Alive' /\ q.handles = Opened' /\ q.parts = parts'
        /\ q.renderers = SetUp' /\ q.stage = stage'
    BY <1>1, <1>7, <1>20 DEF Matches, InHandshake, lifecycle
  <2>2. ~q.streams
    BY <1>5, <1>7 DEF InHandshake
  <2> QED
    BY <1>1, <1>7, <1>18, <2>1, <2>2 DEF Matches
<1>22. Annotated'
  BY <1>1, <1>17, <1>21 DEF Annotated
<1>23. TypeOK' /\ Counted' /\ Held'
  BY <1>19 DEF IInv, TypeOK, Counted, Held, At, lifecycle
<1> QED
  BY <1>22, <1>23 DEF IInv, NegShape

LEMMA AnswerCorrect ==
  ASSUME IInv, TakeAnswer, UNCHANGED lifecycle
  PROVE  IInv'
<1>1. /\ At("request") /\ answered /\ answered' = FALSE
      /\ Accepted \/ Refused
      /\ UNCHANGED <<conf, signalled, ConnectionInterrupted, connectRetries>>
  BY DEF TakeAnswer
<1>2. CASE /\ NegShape' /\ neg'.contexts = neg.contexts
           /\ neg'.session = neg.session
           /\ UNCHANGED <<threads, cancelled, ran, handles>>
           /\ Fail \/ (Advance /\ On # "SETUP audio")
  BY <1>1, <1>2, QuietAnswer
<1>3. CASE Refused
  <2>1. NegShape' /\ neg'.contexts = neg.contexts /\ neg'.session = neg.session
    BY <1>3 DEF Refused, IInv, NegShape
  <2>2. CASE Fail
    BY <1>2, <1>3, <2>1, <2>2 DEF Refused
  <2>3. CASE ~Fail
    <3>1. PICK i \in 1 .. Len(todo) :
            todo[i].op = "rtspExit" /\ todo' = SubSeq(todo, i, Len(todo))
      BY <1>3, <2>3 DEF Refused
    <3>2. conf.statusZero
      BY <1>3, <2>3 DEF Refused
    <3> QED
      BY <1>1, <1>3, <3>1, <3>2, ZeroCorrect DEF Refused
  <2> QED
    BY <2>2, <2>3
<1>4. CASE Accepted /\ On = "DESCRIBE"
  <2>1. TakeDescribe
    BY <1>4 DEF Accepted
  <2>2. PICK described, opus, rfi :
          /\ neg' = [neg EXCEPT !.format = NegotiatedVideoFormat(described),
                                !.rfi = rfi, !.opus = opus]
          /\ Advance \/ Fail
    BY <2>1 DEF TakeDescribe
  <2>3. NegShape' /\ neg'.contexts = neg.contexts /\ neg'.session = neg.session
    BY <2>2 DEF IInv, NegShape
  <2> QED
    BY <1>2, <1>4, <2>1, <2>2, <2>3 DEF TakeDescribe
<1>5. CASE Accepted /\ On = "SETUP audio"
  <2>1. TakeSetupAudio
    BY <1>5 DEF Accepted
  <2> QED
    BY <1>1, <2>1, SetupAudioCorrect
<1>6. CASE Accepted /\ On \in {"SETUP video", "SETUP control"}
  <2>1. PICK stream \in {"video", "control"} : TakeSetup(stream)
    BY <1>6 DEF Accepted
  <2>2. PICK port \in serverPort : neg' = [neg EXCEPT !.ports[stream] = port]
    BY <2>1 DEF TakeSetup
  <2>3. NegShape' /\ neg'.contexts = neg.contexts /\ neg'.session = neg.session
    BY <2>2 DEF IInv, NegShape
  <2> QED
    BY <1>2, <1>6, <2>1, <2>3 DEF TakeSetup
<1>7. CASE Accepted /\ On = "ANNOUNCE"
  <2>1. TakeAnnounce
    BY <1>7 DEF Accepted
  <2>2. NegShape' /\ neg'.contexts = neg.contexts /\ neg'.session = neg.session
    BY <2>1 DEF TakeAnnounce, IInv, NegShape
  <2> QED
    BY <1>2, <1>7, <2>1, <2>2 DEF TakeAnnounce
<1>8. CASE Accepted /\ On \notin {"DESCRIBE", "SETUP audio", "SETUP video",
                                  "SETUP control", "ANNOUNCE"}
  <2>1. Advance /\ UNCHANGED <<threads, cancelled, ran, handles, faults, neg>>
    BY <1>8 DEF Accepted
  <2>2. NegShape' /\ neg'.contexts = neg.contexts /\ neg'.session = neg.session
    BY <2>1 DEF IInv, NegShape
  <2> QED
    BY <1>2, <1>8, <2>1, <2>2
<1> QED
  BY <1>1, <1>3, <1>4, <1>5, <1>6, <1>7, <1>8

LEMMA CallCorrect ==
  ASSUME IInv, CallStep
  PROVE  IInv'
<1>1. CASE PlatformStep /\ UNCHANGED <<ConnectionInterrupted, rtsp, lifecycle>>
  BY <1>1, PlatformCorrect
<1>2. CASE RtspStep /\ UNCHANGED lifecycle
  BY <1>2, RtspInitCorrect, RtspExitCorrect, TransactCorrect, AnswerCorrect
  DEF RtspStep
<1>3. CASE CheckParameters
  <2>1. CASE Advance
    BY <1>3, <2>1, IdleCorrect DEF CheckParameters
  <2>2. CASE todo' = <<Stop>>
    BY <1>3, <2>2, StopCorrect DEF CheckParameters
  <2> QED
    BY <1>3, <2>1, <2>2 DEF CheckParameters
<1>4. CASE ResetGlobals \/ CheckAssumption \/ InterruptStep
  BY <1>4, IdleCorrect
<1>5. CASE AttemptStep
  BY <1>5, IdleCorrect DEF AttemptStep
<1>6. CASE CompleteStage \/ StageUndone
  BY <1>6, StageCorrect
<1>7. CASE BeginStreams
  BY <1>7, BeginCorrect
<1>8. CASE StageFailed
  BY <1>8, FailedCorrect
<1>9. CASE LiStopConnection
  BY <1>9, StopCorrect
<1>10. CASE UndoStages
  BY <1>10, UndoCorrect
<1>11. CASE InitializePart
  BY <1>11, InitializeCorrect
<1>12. CASE DestroyPart
  BY <1>12, DestroyCorrect
<1>13. CASE CallRenderer
  BY <1>13, RendererCorrect
<1> QED
  BY <1>1, <1>2, <1>3, <1>4, <1>5, <1>6, <1>7, <1>8, <1>9, <1>10, <1>11,
     <1>12, <1>13 DEF CallStep

(***************************************************************************)
(* The application and the threads                                         *)
(***************************************************************************)

(* Between calls, or beside them                                           *)
LEMMA StartCorrect ==
  ASSUME IInv, AppStart
  PROVE  IInv'
<1> USE DEF AppStart, platform, rtsp
<1>1. PICK s, u : Matches(s) /\ Leads(conf, todo, s, u) /\ Over(conf, u)
  BY DEF IInv, Annotated
<1>2. Settled(conf, s) /\ s.stage = 0
  BY <1>1, LeadsNowhere DEF Over, Matches
<1>3. /\ s.threads = {} /\ s.handles = {} /\ s.renderers = {} /\ s.parts = {}
      /\ s.audio = "none" /\ s.rtsp \in {"no", "done"}
  <2>1. AtStage(conf, s) /\ s.stage = 0 /\ s.rtsp \in {"no", "done"}
    BY <1>2 DEF Settled
  <2>2. s.parts = {} /\ s.audio = "none"
    BY <2>1 DEF AtStage, PartsAt, AudioAt
  <2>3. s.stage \in 0..7
    BY <2>1
  <2> QED
    BY <2>1, <2>2, <2>3, LowHolds
<1>4. TypeOK'
  BY DEF IInv, TypeOK
<1>5. connections \in Nat /\ connections' = connections + 1
  BY DEF IInv, Counted
<1>6. Counted'
  BY <1>5 DEF Counted
<1>7. Held' /\ NegShape'
  BY DEF IInv, Held, NegShape, At
<1>8. /\ Alive' = {} /\ Opened' = {} /\ SetUp' = {} /\ AudioKnown("none")'
      /\ parts' = {} /\ stage' = 0
  <2>1. Alive' = Alive /\ Opened' = Opened /\ SetUp' = SetUp
    BY DEF Alive, Opened, SetUp
  <2>2. AudioKnown("none")'
    BY <1>1, <1>3 DEF Matches, AudioKnown, AudioUnbound
  <2> QED
    BY <1>1, <1>2, <1>3, <2>1, <2>2 DEF Matches
<1>9. ~neg'.session
  BY <1>1, <1>3 DEF Matches
<1>10. neg'.contexts => Forgotten'
  <2>1. ASSUME neg.contexts
        PROVE  useEnet /\ connections # 0
    BY <1>1, <1>3, <2>1 DEF Matches, Forgotten, IInv, Counted
  <2>2. connections # 0 => connections' > 1
    BY <1>5
  <2> QED
    BY <2>1, <2>2 DEF Forgotten, useEnet
<1>11. Matches(Nothing)'
  <2>1. /\ Nothing.threads = {} /\ Nothing.handles = {} /\ Nothing.parts = {}
        /\ Nothing.renderers = {} /\ Nothing.stage = 0 /\ ~Nothing.streams
        /\ Nothing.audio = "none" /\ Nothing.rtsp = "no"
    BY DEF Nothing
  <2> QED
    BY <1>8, <1>9, <1>10, <2>1 DEF Matches
<1>12. /\ Leads(conf, todo', Nothing, Complete(conf, 11, FALSE))
       /\ Over(conf, Complete(conf, 11, FALSE))
  BY ConnectionStarts, CompleteSettled, 11 \in 7..11 DEF Over
<1>13. Annotated'
  BY <1>11, <1>12 DEF Annotated
<1> QED
  BY <1>4, <1>6, <1>7, <1>13 DEF IInv

LEMMA AppStopCorrect ==
  ASSUME IInv, AppStop
  PROVE  IInv'
<1> USE DEF AppStop, platform, rtsp
<1>1. PICK s, u : Matches(s) /\ Leads(conf, todo, s, u) /\ Over(conf, u)
  BY DEF IInv, Annotated
<1>2. Settled(conf, s) /\ UsersServed(conf, s)
  BY <1>1, LeadsNowhere, LeadsServed DEF Over
<1>3. Leads(conf, todo', s, Nothing)
  BY <1>2, LastSteps
<1>4. NegAsIs /\ SetUp' = SetUp
  BY DEF NegAsIs, SetUp, IInv, NegShape
<1>5. Matches(s)'
  BY <1>1, <1>4, Unmoved
<1>6. Annotated'
  BY <1>3, <1>5, NothingOver DEF Annotated
<1>7. TypeOK' /\ Held'
  BY DEF IInv, TypeOK, Held, At
<1>8. Counted'
  BY StageNames DEF IInv, Counted
<1> QED
  BY <1>4, <1>6, <1>7, <1>8 DEF IInv, NegAsIs

(* An interruption, a thread that loses the connection, and the callback   *)
LEMMA BesideCorrect ==
  ASSUME IInv,
         \/ LiInterruptConnection
         \/ \E t \in Threads : TestTerminated(t) \/ CreateAsyncTerm(t)
         \/ terminationCallbackThreadFunc
  PROVE  IInv'
<1> USE DEF platform, rtsp, lifecycle
<1>1. /\ UNCHANGED <<conf, todo, cancelled, ran, handles, signalled, faults,
                     rtsp, stage, parts, renderers, connections>>
      /\ told'.failed = told.failed /\ DOMAIN told' = DOMAIN told
  BY DEF LiInterruptConnection, TestTerminated, CreateAsyncTerm,
         terminationCallbackThreadFunc, IInv, Counted
<1>2. /\ threads' \in [Threads -> {"none", "running", "reporting", "lost"}]
      /\ \A t \in Threads : threads'[t] = "none" <=> threads[t] = "none"
  BY DEF LiInterruptConnection, TestTerminated, CreateAsyncTerm,
         terminationCallbackThreadFunc, IInv, TypeOK
<1>3. asyncTerm' \in 0 .. MaxReports
  BY ConnectionAssumption
  DEF LiInterruptConnection, TestTerminated, CreateAsyncTerm,
      terminationCallbackThreadFunc, IInv, TypeOK
<1>4. /\ asked' \subseteq {"stop", "interrupt"}
      /\ {alreadyTerminated', ConnectionInterrupted'} \subseteq BOOLEAN
  BY DEF LiInterruptConnection, TestTerminated, CreateAsyncTerm,
         terminationCallbackThreadFunc, IInv, TypeOK
<1>5. TypeOK'
  BY <1>1, <1>2, <1>3, <1>4 DEF IInv, TypeOK
<1>6. NegShape' /\ Held' /\ Counted'
  BY <1>1 DEF IInv, NegShape, Held, Counted, At
<1>7. PICK s, u : Matches(s) /\ Leads(conf, todo, s, u) /\ Over(conf, u)
  BY DEF IInv, Annotated
<1>8. /\ Alive' = Alive /\ Opened' = Opened /\ SetUp' = SetUp
      /\ RfiEnabled' = RfiEnabled /\ (Forgotten => Forgotten')
  BY <1>1, <1>2 DEF Alive, Opened, SetUp, RfiEnabled, Forgotten, useEnet
<1>9. AudioKnown(s.audio)'
  <2>1. threads'["AudioPing"] = "none" <=> threads["AudioPing"] = "none"
    BY <1>2 DEF Threads
  <2> QED
    BY <1>1, <1>7, <2>1 DEF Matches, AudioKnown, AudioUnbound
<1>10. Matches(s)'
  BY <1>1, <1>7, <1>8, <1>9 DEF Matches
<1>11. Annotated'
  BY <1>1, <1>7, <1>10 DEF Annotated
<1> QED
  BY <1>5, <1>6, <1>11 DEF IInv

(* What the input thread waits for is acknowledged: nothing is held that   *)
(* was not held before.                                                    *)
LEMMA AcknowledgedCorrect ==
  ASSUME IInv, Acknowledged
  PROVE  IInv'
<1> USE DEF platform, rtsp, lifecycle
<1>1. /\ UNCHANGED <<conf, todo, threads, cancelled, ran, handles, faults,
                     ConnectionInterrupted, rtsp, lifecycle>>
      /\ signalled' = signalled \cup {"acks"}
  BY DEF Acknowledged
<1>2. PICK s, u : Matches(s) /\ Leads(conf, todo, s, u) /\ Over(conf, u)
  BY DEF IInv, Annotated
<1>3. NegAsIs /\ SetUp' = SetUp
  BY <1>1 DEF NegAsIs, SetUp, IInv, NegShape
<1>4. Matches(s)'
  BY <1>1, <1>2, <1>3, Unmoved
<1>5. Annotated'
  BY <1>1, <1>2, <1>4 DEF Annotated
<1>6. TypeOK' /\ Held' /\ Counted'
  BY <1>1 DEF IInv, TypeOK, Held, Counted, At, Signals
<1> QED
  BY <1>1, <1>3, <1>5, <1>6 DEF IInv, NegAsIs

LEMMA StutterCorrect ==
  ASSUME IInv, UNCHANGED vars
  PROVE  IInv'
<1> USE DEF vars, platform, rtsp, lifecycle
<1>1. PICK s, u : Matches(s) /\ Leads(conf, todo, s, u) /\ Over(conf, u)
  BY DEF IInv, Annotated
<1>2. NegAsIs /\ SetUp' = SetUp
  BY DEF NegAsIs, SetUp, IInv, NegShape
<1>3. Matches(s)'
  BY <1>1, <1>2, Unmoved
<1>4. Annotated'
  BY <1>1, <1>3 DEF Annotated
<1>5. TypeOK' /\ Held' /\ Counted'
  BY DEF IInv, TypeOK, Held, Counted, At
<1> QED
  BY <1>2, <1>4, <1>5 DEF IInv, NegAsIs

LEMMA NextCorrect == IInv /\ [Next]_vars => IInv'
BY CallCorrect, StartCorrect, AppStopCorrect, BesideCorrect,
   AcknowledgedCorrect, StutterCorrect DEF Next

LEMMA InvariantHolds == Spec => []IInv
<1>1. Init => IInv
  BY InitCorrect
<1>2. IInv /\ [Next]_vars => IInv'
  BY NextCorrect
<1> QED
  BY <1>1, <1>2, PTL DEF Spec

(***************************************************************************)
(* The theorems                                                            *)
(***************************************************************************)

(* Whatever fails on the way up and down, the stage stays one of those     *)
(* there are, the host is asked to connect no more often than              *)
(* connectTcpSocket's caller allows (RtspConnection.c:423), and no more    *)
(* terminations are reported at a time than MaxReports.                    *)
THEOREM TypeCorrect == Spec => []TypeOK
<1>1. IInv => TypeOK
  BY DEF IInv
<1> QED
  BY <1>1, InvariantHolds, PTL

LEMMA Returned ==
  ASSUME IInv, todo = << >>
  PROVE  \E s : Matches(s) /\ Settled(conf, s) /\ s.stage \in {0, 11}
<1>1. PICK s, u : Matches(s) /\ Leads(conf, todo, s, u) /\ Over(conf, u)
  BY DEF IInv, Annotated
<1>2. s = u
  BY <1>1, LeadsNowhere
<1> QED
  BY <1>1, <1>2 DEF Over

LEMMA OutlivesNothing == IInv => NothingOutlives
<1> SUFFICES ASSUME IInv, todo = << >>
             PROVE  NothingOutlives
  BY DEF NothingOutlives
<1>1. PICK s : Matches(s) /\ Settled(conf, s) /\ s.stage \in {0, 11}
  BY Returned
<1>2. /\ s.stage = stage /\ s.parts = parts /\ s.threads = Alive
      /\ s.handles = Opened /\ s.renderers = SetUp /\ AudioKnown(s.audio)
  BY <1>1 DEF Matches
<1>3. AtStage(conf, s) /\ s.rtsp \in {"no", "done"}
  BY <1>1 DEF Settled
<1>4. handles \in [Handles -> {"invalid", "open", "dangling"}]
  BY DEF IInv, TypeOK
<1>5. handles["rtspTcp"] = "invalid"
  BY DEF IInv, Held, At
<1>6. handles["rtspEnet"] = "invalid"
  <2>1. "rtspEnet" \notin HandlesAt(conf, s.stage)
    BY DEF HandlesAt
  <2>2. s.handles = HandlesAt(conf, s.stage)
    BY <1>3 DEF AtStage
  <2>3. "rtspEnet" \in Handles \ {"audio", "rtspTcp"}
    BY DEF Handles
  <2>4. handles["rtspEnet"] # "open"
    BY <1>2, <2>1, <2>2, <2>3 DEF Opened
  <2>5. handles["rtspEnet"] # "dangling"
    BY <2>3 DEF IInv, Held
  <2> QED
    BY <1>4, <2>3, <2>4, <2>5
<1>7. ~neg.session
  BY <1>1, <1>3 DEF Matches
<1>8. ASSUME neg.contexts
      PROVE  useEnet /\ stage = 0 /\ (told.failed > 0 \/ connections > 1)
  <2>1. s.rtsp = "no" /\ Forgotten
    BY <1>1, <1>3, <1>8 DEF Matches
  <2>2. s.stage # 11
    BY <1>3, <2>1 DEF AtStage
  <2> QED
    BY <1>1, <1>2, <2>1, <2>2 DEF Forgotten
<1>9. ASSUME stage = 0
      PROVE  /\ parts = {} /\ activeThreads = 0
             /\ \A r \in DOMAIN renderers : renderers[r] = "none"
             /\ \A h \in Handles : handles[h] # "open"
  <2>1. s.stage = 0 /\ s.stage \in 0..7
    BY <1>2, <1>9
  <2>2. s.parts = {} /\ s.audio = "none"
    BY <1>3, <2>1 DEF AtStage, PartsAt, AudioAt
  <2>3. Alive = {} /\ Opened = {} /\ SetUp = {}
    BY <1>2, <1>3, <2>1, LowHolds
  <2>4. threads["AudioPing"] = "none" /\ handles["audio"] # "open"
    BY <1>2, <2>2 DEF AudioKnown
  <2>5. {t \in Threads : threads[t] # "none"} = {}
    BY <2>3, <2>4 DEF Alive
  <2>6. activeThreads = 0
    BY <2>5, FS_EmptySet DEF activeThreads
  <2>7. \A h \in Handles : handles[h] # "open"
    BY <1>5, <2>3, <2>4 DEF Opened
  <2>8. \A r \in DOMAIN renderers : renderers[r] = "none"
    <3>1. DOMAIN renderers = Renderers
      BY DEF IInv, TypeOK, Renderers
    <3> QED
      BY <2>3, <3>1 DEF SetUp
  <2> QED
    BY <1>2, <2>2, <2>6, <2>7, <2>8
<1> QED
  BY <1>5, <1>6, <1>7, <1>8, <1>9 DEF NothingOutlives

(* A LiStartConnection that failed, at whatever step and wherever it was   *)
(* interrupted, and a LiStopConnection leave nothing behind when they      *)
(* return: no part initialised, no thread to be joined, no socket open, no *)
(* renderer set up.  The one exception is the encryption contexts of an    *)
(* ENet handshake that failed, in this call or in an earlier one.          *)
THEOREM NothingOutlivesHolds == Spec => []NothingOutlives
BY OutlivesNothing, InvariantHolds, PTL

LEMMA UsersAreServed == IInv => NoUseAfterRelease
<1> SUFFICES ASSUME IInv, NEW t \in Threads, Running(t)
             PROVE  /\ PartsUsed(t) \subseteq parts
                    /\ \A r \in RenderersUsed(t) : renderers[r] # "none"
                    /\ \A h \in HandlesUsed(t) :
                         \/ handles[h] = "open"
                         \/ h = "audio" /\ handles[h] = "dangling"
  BY DEF NoUseAfterRelease
<1>1. PICK s, u : Matches(s) /\ Leads(conf, todo, s, u) /\ Over(conf, u)
  BY DEF IInv, Annotated
<1>2. UsersServed(conf, s)
  BY <1>1, LeadsServed
<1>3. /\ s.parts = parts /\ s.threads = Alive /\ s.handles = Opened
      /\ s.renderers = SetUp /\ AudioKnown(s.audio)
  BY <1>1 DEF Matches
<1>4. handles \in [Handles -> {"invalid", "open", "dangling"}]
  BY DEF IInv, TypeOK
<1>5. threads[t] # "none"
  BY DEF Running
<1>6. CASE t = "AudioPing"
  <2>1. PartsUsed(t) = {} /\ RenderersUsed(t) = {} /\ HandlesUsed(t) = {"audio"}
    BY <1>6 DEF PartsUsed, RenderersUsed, HandlesUsed
  <2>2. handles["audio"] # "invalid" /\ "audio" \in Handles
    BY <1>3, <1>5, <1>6 DEF AudioKnown, Handles
  <2> QED
    BY <1>4, <2>1, <2>2
<1>7. CASE t # "AudioPing"
  <2>1. t \in s.threads
    BY <1>3, <1>5, <1>7 DEF Alive
  <2>2. PartsUsed(t) \subseteq parts
    BY <1>2, <1>3, <2>1 DEF UsersServed
  <2>3. \A r \in RenderersUsed(t) : renderers[r] # "none"
    <3>1. RenderersUsed(t) \subseteq s.renderers
      BY <1>2, <2>1 DEF UsersServed, RenderersUsed
    <3> QED
      BY <1>3, <3>1 DEF SetUp
  <2>4. ASSUME NEW h \in HandlesUsed(t), h # "audio"
        PROVE  handles[h] = "open"
    <3>1. h \in s.handles
      <4>1. CASE t \in {"VideoRecv", "VideoPing"}
        BY <1>2, <2>1, <2>4, <4>1 DEF UsersServed, HandlesUsed
      <4>2. CASE t = "InputSend"
        BY <1>2, <2>1, <2>4, <4>2 DEF UsersServed, HandlesUsed, OnTcp, TcpIn
      <4>3. CASE t \in {"AudioRecv", "AudioDec"}
        BY <2>4, <4>3 DEF HandlesUsed
      <4>4. CASE t \in ControlThreads(TRUE)
        <5>1. HandlesUsed(t) = {"control"}
          BY <4>4 DEF ControlThreads, HandlesUsed
        <5> QED
          BY <1>2, <2>1, <2>4, <4>4, <5>1 DEF UsersServed
      <4>5. CASE t = "VideoDec"
        BY <1>2, <2>1, <2>4, <4>5 DEF UsersServed, HandlesUsed
      <4> QED
        BY <1>7, <4>1, <4>2, <4>3, <4>4, <4>5 DEF Threads, ControlThreads
    <3> QED
      BY <1>3, <3>1 DEF Opened
  <2>5. ASSUME "audio" \in HandlesUsed(t)
        PROVE  handles["audio"] \in {"open", "dangling"}
    <3>1. t = "AudioRecv" /\ ~AudioUnbound
      BY <1>7, <2>5 DEF HandlesUsed
    <3>2. s.audio = "bound"
      BY <1>2, <2>1, <3>1 DEF UsersServed
    <3>3. handles["audio"] # "invalid" /\ "audio" \in Handles
      BY <1>3, <3>1, <3>2 DEF AudioKnown, Handles
    <3> QED
      BY <1>4, <3>3
  <2> QED
    BY <2>2, <2>3, <2>4, <2>5
<1> QED
  BY <1>6, <1>7

(* No thread that runs uses a part that is destroyed, a socket that is     *)
(* closed or a renderer that is cleaned up: not while the streams start,   *)
(* not on any of their error paths, and not while LiStopConnection undoes  *)
(* the stages.                                                             *)
THEOREM NoUseAfterReleaseHolds == Spec => []NoUseAfterRelease
BY UsersAreServed, InvariantHolds, PTL
=============================================================================
