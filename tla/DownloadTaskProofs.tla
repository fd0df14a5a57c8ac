------------------------- MODULE DownloadTaskProofs -------------------------
(***************************************************************************)
(* Proofs about DownloadTask: its type invariant for every value of the    *)
(* constants; for ranged transfers without a speed limit on a network that *)
(* refuses, redirects and breaks off, that completed downloads are exact; and, *)
(* for every value again, that nothing is written at rest.                 *)
(***************************************************************************)
EXTENDS DownloadTask, TLAPS

-----------------------------------------------------------------------------
(* Inductive invariants *)

\* A slice is never longer than what is left of its chunk.
SliceInChunk == \A w \in writers : w.len <= w.left

TypeInv == TypeOK /\ SliceInChunk

\* The transfers the exactness theorem is about.
Plain ==
    /\ ResumeSupport /\ ~Limited
    /\ "remove" \notin UserOps
    /\ \A k \in {"short", "reset", "writeError", "lateOpen"} : k \notin Faults

Exact == \A o \in Offsets : file[o] = o

\* Progress that claims only bytes in place, and completed parts only in full.
Claims(f, a) ==
    \A p \in Parts :
        /\ \A o \in Offsets : From(p) <= o /\ o < a[p].cur => f[o] = o
        /\ a[p].done => a[p].cur > To(p)

AllClaims ==
    /\ Claims(file, parts) /\ Claims(file, saved.parts) /\ Claims(file, saving.parts)
    /\ Claims(file, kept.parts) /\ Claims(file, halt.save.parts) /\ Claims(file, listed.parts)

\* Completion is remembered only of an exact file, and the file stays.
Outcome ==
    /\ status = "completed" \/ kept.status = "completed" => Exact
    /\ BytesAtOwnOffset
    /\ ~exists => file = EmptyFile
    /\ sess.pc \in {"running", "closing", "failing", "removing"} => exists
    /\ halt.pc # "no" => Halted
    /\ ~halt.del

\* Whoever is about to create the download empties nothing: no task transfers
\* while a creation of an earlier start() is pending.
CreateInv ==
    /\ sess.pc = "creating" \/ (\E i \in DOMAIN late : late[i] = "creating") => file = EmptyFile
    /\ (\E i \in DOMAIN late : late[i] = "creating") =>
          sess.pc \in {"none", "loading", "opening", "creating"}

\* Chunk loops belong to the current task, issue one write each, at the
\* offset of its bytes, and are gone before the task is.
LoopInv ==
    /\ \A w \in writers :
          /\ w.task = "current" /\ w.pc = "write" /\ w.hit /\ w.len = w.left
          /\ w.pos = parts[w.part].cur /\ w.src = w.pos
    /\ \A v, w \in writers : v.part = w.part => v = w
    /\ writers # {} => sess.pc = "running" /\ halt.pc # "cancelRemoving" /\ exists

\* While transferring, each attempt's next byte follows the bytes written and
\* the bytes being written, and its response ends where its part does.
AttemptInv ==
    Transferring =>
        /\ sess.handle
        /\ \A w \in writers : xfer[w.part].pc = "body" /\ w.retries = xfer[w.part].retries
        /\ \A p \in Parts :
              /\ xfer[p].pc = "done" => parts[p].done \/ sess.fatal
              /\ xfer[p].pc = "body" =>
                    /\ xfer[p].src + xfer[p].left = To(p) + 1
                    /\ \A w \in writers : w.part = p => xfer[p].src = parts[p].cur + w.len
                    /\ (\A w \in writers : w.part # p) => xfer[p].src = parts[p].cur

ExactInv == AllClaims /\ Outcome /\ CreateInv /\ LoopInv /\ AttemptInv

-----------------------------------------------------------------------------
(* The layout of the parts *)

\* Part boundaries are natural numbers inside the source.
LEMMA Layout ==
    /\ PartsCount \in Nat \ {0} /\ PartSize \in Nat /\ PartsCount * PartSize <= Size
    /\ \A p \in Parts : p \in Nat /\ From(p) \in Nat /\ To(p) \in Int
    /\ FreshParts \in PartsArray
<1>1. PartsCount \in Nat \ {0}
  BY SizeAssumption DEF PartsCount, Lesser, AtLeastOne
<1>2. \A n \in Nat \ {0} : Size \div n \in Nat /\ n * (Size \div n) <= Size
  BY SizeAssumption
<1>3. PartSize \in Nat /\ PartsCount * PartSize <= Size
  BY <1>1, <1>2 DEF PartSize
<1>4. ASSUME NEW p \in Parts
      PROVE  p \in Nat /\ From(p) \in Nat /\ To(p) \in Int
  <2>1. p \in Nat /\ p - 1 \in Nat
    BY <1>1 DEF Parts
  <2>2. \A a, b \in Nat : a * b \in Nat
    OBVIOUS
  <2>3. From(p) \in Nat
    BY <1>3, <2>1, <2>2 DEF From
  <2> QED
    BY <1>3, <2>1, <2>3, SizeAssumption DEF To
<1>5. FreshParts \in PartsArray
  BY <1>4 DEF FreshParts, PartsArray, PartState
<1> QED
  BY <1>1, <1>3, <1>4, <1>5

\* Every offset of the source belongs to a part (ensurePartsLayout): no byte
\* is left out between two parts or after the last one.
LEMMA Coverage ==
    ASSUME NEW o \in Offsets
    PROVE  \E p \in Parts : From(p) <= o /\ o <= To(p)
<1>1. PartsCount \in Nat \ {0} /\ PartSize \in Nat /\ Parts = 1..PartsCount
  BY Layout DEF Parts
<1>2. o \in Nat /\ o <= Size - 1 /\ Size \in Nat
  BY SizeAssumption DEF Offsets
<1>3. CASE PartSize = 0 \/ o >= (PartsCount - 1) * PartSize
  <2>1. From(PartsCount) <= o
    <3>1. CASE PartSize = 0
      BY <3>1, <1>1, <1>2 DEF From
    <3>2. CASE o >= (PartsCount - 1) * PartSize
      BY <3>2 DEF From
    <3> QED
      BY <1>3, <3>1, <3>2
  <2>2. o <= To(PartsCount)
    BY <1>2 DEF To
  <2> QED
    BY <1>1, <2>1, <2>2
<1>4. CASE PartSize # 0 /\ ~(o >= (PartsCount - 1) * PartSize)
  <2> DEFINE k == o \div PartSize
  <2>1. k \in Nat /\ k * PartSize <= o /\ o < k * PartSize + PartSize
    BY <1>1, <1>2, <1>4
  <2>2. k + 1 < PartsCount
    <3>1. SUFFICES ASSUME k + 1 >= PartsCount PROVE FALSE
      BY <1>1, <2>1
    <3>2. \A a, b, c \in Nat : a >= b => a * c >= b * c
      OBVIOUS
    <3>3. k * PartSize >= (PartsCount - 1) * PartSize
      BY <1>1, <2>1, <3>1, <3>2
    <3> QED
      BY <1>1, <1>2, <1>4, <2>1, <3>3
  <2>3. From(k + 1) = k * PartSize
    BY <1>1, <2>1 DEF From
  <2>4. To(k + 1) = k * PartSize + PartSize - 1
    BY <1>1, <2>1, <2>2, <2>3 DEF To
  <2> HIDE DEF k
  <2>5. o <= To(k + 1) /\ From(k + 1) <= o
    BY <1>1, <1>2, <2>1, <2>3, <2>4
  <2> QED
    BY <1>1, <2>1, <2>2, <2>5
<1> QED
  BY <1>3, <1>4

-----------------------------------------------------------------------------
(* Type correctness *)

LEMMA ConstantTypes ==
    /\ NoSession \in Session /\ NoAttempt \in Attempt /\ Idle \in [Parts -> Attempt]
    /\ NoPartsFile \in [ok: BOOLEAN, parts: PartsArray]
    /\ NoWrite \in [on: BOOLEAN, parts: PartsArray]
    /\ NoHalt \in Halt
    /\ EmptyFile \in [Offsets -> Nat]
    /\ Together \in [apart: BOOLEAN, parts: PartsArray]
    /\ NoneLate \in [0..MaxStarts -> LatePcs]
<1>1. FreshParts \in PartsArray
  BY Layout
<1>2. NoSession \in Session
  BY DEF NoSession, Session, SessPcs
<1>3. NoAttempt \in Attempt
  BY SizeAssumption DEF NoAttempt, Attempt, AttemptPcs
<1>4. Idle \in [Parts -> Attempt]
  BY <1>3 DEF Idle
<1>5. NoPartsFile \in [ok: BOOLEAN, parts: PartsArray] /\ NoWrite \in [on: BOOLEAN, parts: PartsArray]
  BY <1>1 DEF NoPartsFile, NoWrite
<1>6. NoHalt \in Halt
  BY <1>5 DEF NoHalt, Halt, HaltPcs
<1>7. EmptyFile \in [Offsets -> Nat]
  BY SizeAssumption DEF EmptyFile, Hole
<1>8. Together \in [apart: BOOLEAN, parts: PartsArray] /\ NoneLate \in [0..MaxStarts -> LatePcs]
  BY <1>1 DEF Together, NoneLate, LatePcs, SessPcs
<1> QED
  BY <1>2, <1>3, <1>4, <1>5, <1>6, <1>7, <1>8

LEMMA FirstAttemptType ==
    ASSUME parts \in PartsArray, NEW p \in Parts
    PROVE  FirstAttempt(p) \in Attempt
<1>1. parts[p].cur \in Nat
  BY DEF PartsArray, PartState
<1> QED
  BY <1>1, SizeAssumption DEF FirstAttempt, Request, Attempt, AttemptPcs

\* What the updates of an attempt do to its fields, given their guards.
LEMMA AttemptUpdates ==
    ASSUME NEW a \in Attempt
    PROVE  /\ a.retries > 0 => Retried(a) \in Attempt
           /\ \A o \in Nat : a.redirects > 0 => Redirected(a, o) \in Attempt
           /\ \A o, n \in Nat : Answered(a, o, n) \in Attempt
           /\ \A n \in Nat : n <= a.left => Taken(a, n) \in Attempt
<1>1. \A r \in 0..MaxRetries : [NoAttempt EXCEPT !.pc = "backoff", !.retries = r, !.redirects = a.redirects] \in Attempt
  BY ConstantTypes DEF Attempt, AttemptPcs
<1>2. \A r \in 0..MaxRedirects, f \in Nat : [a EXCEPT !.redirects = r, !.from = f] \in Attempt
  BY DEF Attempt
<1>3. \A o, n \in Nat : Answered(a, o, n) \in Attempt
  BY DEF Answered, Attempt, AttemptPcs
<1>4. \A l, s \in Nat : [a EXCEPT !.left = l, !.src = s] \in Attempt
  BY DEF Attempt
<1>5. a.retries > 0 => a.retries - 1 \in 0..MaxRetries
  BY SizeAssumption DEF Attempt
<1>6. a.redirects > 0 => a.redirects - 1 \in 0..MaxRedirects
  BY SizeAssumption DEF Attempt
<1>7. \A n \in Nat : n <= a.left => a.left - n \in Nat /\ a.src + n \in Nat
  BY DEF Attempt
<1>8. a.retries > 0 => Retried(a) \in Attempt
  BY <1>1, <1>5 DEF Retried
<1>9. \A o \in Nat : a.redirects > 0 => Redirected(a, o) \in Attempt
  BY <1>2, <1>6 DEF Redirected
<1>10. \A n \in Nat : n <= a.left => Taken(a, n) \in Attempt
  BY <1>4, <1>7 DEF Taken
<1> QED
  BY <1>3, <1>8, <1>9, <1>10

LEMMA WritingType ==
    ASSUME TypeOK, NEW w \in Writer, NEW k \in 1..w.left
    PROVE  /\ Writing(w, k) \in Writer
           /\ Writing(w, k).len <= Writing(w, k).left
<1>1. w.part \in Parts /\ w.left \in Nat /\ w.task \in {"current", "stopped", "ended"}
  BY DEF Writer
<1>2. parts[w.part].cur \in Nat
  BY <1>1 DEF TypeOK, older, PartsArray, PartState
<1>3. k \in Nat /\ k <= w.left
  BY <1>1
<1>4. PICK h \in BOOLEAN : h = (w.task = "current" /\ sess.handle)
  OBVIOUS
<1>5. PICK q \in Nat : q = parts[w.part].cur
  BY <1>2
<1>6. Writing(w, k) = [w EXCEPT !.pc = "write", !.len = k, !.pos = q, !.hit = h]
  BY <1>4, <1>5 DEF Writing
<1>7. \A v : v = [w EXCEPT !.pc = "write", !.len = k, !.pos = q, !.hit = h]
                => v \in Writer /\ v.len = k /\ v.left = w.left
  BY <1>3 DEF Writer
<1> QED
  BY <1>3, <1>6, <1>7

LEMMA NextSliceType ==
    ASSUME NEW w \in Writer, w.len <= w.left, w.left # w.len
    PROVE  NextSlice(w) \in Writer /\ NextSlice(w).len <= NextSlice(w).left
<1>1. w.src + w.len \in Nat /\ w.left - w.len \in Nat \ {0}
  BY DEF Writer
<1> QED
  BY <1>1 DEF NextSlice, Loop, Writer

LEMMA FailType ==
    ASSUME TypeOK, NEW p \in Parts, Fail(p)
    PROVE  sess' \in Session /\ parts' \in PartsArray /\ xfer' \in [Parts -> Attempt]
<1>1. sess' \in Session
  BY DEF TypeOK, older, Fail, Session
<1>2. parts' \in PartsArray
  BY DEF TypeOK, older, Fail, PartsArray, PartState
<1>3. xfer' \in [Parts -> Attempt]
  BY ConstantTypes DEF TypeOK, Fail
<1> QED
  BY <1>1, <1>2, <1>3

LEMMA RetryOrFailType ==
    ASSUME TypeOK, NEW p \in Parts, RetryOrFail(p)
    PROVE  sess' \in Session /\ parts' \in PartsArray /\ xfer' \in [Parts -> Attempt]
<1>1. CASE Fail(p)
  BY <1>1, FailType
<1>2. CASE /\ xfer[p].retries > 0
           /\ xfer' = [xfer EXCEPT ![p] = Retried(@)]
           /\ UNCHANGED <<sess, parts>>
  BY <1>2, AttemptUpdates DEF TypeOK
<1> QED
  BY <1>1, <1>2 DEF RetryOrFail

LEMMA PartTypeStep ==
    ASSUME TypeInv, NEW p \in Parts, PartStep(p)
    PROVE  TypeInv'
<1> USE DEF TypeInv
<1>0. parts[p].cur \in Nat /\ xfer[p] \in Attempt /\ p \in Nat /\ From(p) \in Nat /\ To(p) \in Int
  BY Layout DEF TypeOK, older, PartsArray, PartState
<1>1. CASE Attempt_(p)
  BY <1>0, <1>1 DEF TypeOK, older, SliceInChunk, item, disk, Attempt_, Request, Attempt, AttemptPcs
<1>2. CASE Respond(p)
  <2>1. PICK n \in BodyLengths(p) :
          xfer' = [xfer EXCEPT ![p] = Answered(@, IF ResumeSupport THEN parts[p].cur ELSE 0, n)]
    BY <1>2 DEF Respond
  <2>2. n \in Nat
    BY <1>0, <1>2, <2>1, SizeAssumption DEF Respond, RangeMatches, BodyLengths
  <2>3. Answered(xfer[p], IF ResumeSupport THEN parts[p].cur ELSE 0, n) \in Attempt
    BY <1>0, <2>2, AttemptUpdates
  <2> QED
    BY <1>2, <2>1, <2>3 DEF TypeOK, older, SliceInChunk, item, disk, Respond
<1>3. CASE RequestFails(p)
  BY <1>3, RetryOrFailType DEF TypeOK, older, SliceInChunk, disk, RequestFails
<1>4. CASE Redirect(p)
  <2>1. sess' \in Session /\ parts' \in PartsArray /\ xfer' \in [Parts -> Attempt]
    <3>1. CASE Fail(p)
      BY <3>1, FailType
    <3>2. CASE /\ xfer[p].redirects > 0
               /\ xfer' = [xfer EXCEPT ![p] = Redirected(@, parts[p].cur)]
               /\ UNCHANGED <<sess, parts>>
      <4>1. Redirected(xfer[p], parts[p].cur) \in Attempt
        BY <1>0, <3>2, AttemptUpdates
      <4> QED
        BY <3>2, <4>1 DEF TypeOK
    <3> QED
      BY <1>4, <3>1, <3>2 DEF Redirect
  <2> QED
    BY <1>4, <2>1 DEF TypeOK, older, SliceInChunk, disk, Redirect
<1>5. CASE Data(p)
  <2>1. PICK n \in 1..Lesser(ChunkMax, xfer[p].left) :
          /\ xfer' = [xfer EXCEPT ![p] = Taken(@, n)]
          /\ LET loop == Loop(p, xfer[p].retries, "current", xfer[p].src, n)
             IN  writers' = writers \cup {IF Limited THEN loop ELSE Writing(loop, n)}
    BY <1>5 DEF Data
  <2>2. n \in Nat \ {0} /\ n <= xfer[p].left
    BY <1>0, <2>1, SizeAssumption DEF Lesser, Attempt
  <2>3. Taken(xfer[p], n) \in Attempt
    BY <1>0, <2>2, AttemptUpdates
  <2>4. xfer' \in [Parts -> Attempt]
    BY <2>1, <2>3 DEF TypeOK
  <2> DEFINE loop == Loop(p, xfer[p].retries, "current", xfer[p].src, n)
             added == IF Limited THEN loop ELSE Writing(loop, n)
  <2>5. loop \in Writer /\ loop.part = p /\ loop.len = 0 /\ loop.left = n
    BY <1>0, <2>2 DEF Loop, Writer, Attempt
  <2>6. added \in Writer /\ added.len <= added.left
    <3> HIDE DEF loop
    <3>1. Writing(loop, n) \in Writer /\ Writing(loop, n).len <= Writing(loop, n).left
      BY <1>0, <2>2, <2>5, WritingType
    <3> QED
      BY <2>2, <2>5, <3>1
  <2>7. writers' = writers \cup {added}
    BY <2>1
  <2> HIDE DEF added
  <2> QED
    BY <1>5, <2>4, <2>6, <2>7 DEF TypeOK, older, SliceInChunk, item, disk, Data
<1>6. CASE End(p)
  <2>1. sess' \in Session /\ parts' \in PartsArray /\ xfer' \in [Parts -> Attempt]
    <3>1. CASE RetryOrFail(p)
      BY <3>1, RetryOrFailType
    <3>2. CASE /\ parts' = [parts EXCEPT ![p].done = TRUE]
               /\ xfer' = [xfer EXCEPT ![p] = NoAttempt]
               /\ UNCHANGED sess
      <4>1. parts' \in PartsArray
        BY <3>2 DEF TypeOK, older, PartsArray, PartState
      <4>2. xfer' \in [Parts -> Attempt]
        BY <3>2, ConstantTypes DEF TypeOK
      <4> QED
        BY <3>2, <4>1, <4>2 DEF TypeOK
    <3> QED
      BY <1>6, <3>1, <3>2 DEF End
  <2> QED
    BY <1>6, <2>1 DEF TypeOK, older, SliceInChunk, disk, End
<1>7. CASE ResponseFails(p)
  BY <1>7, RetryOrFailType DEF TypeOK, older, SliceInChunk, disk, ResponseFails
<1>8. CASE RequestErrors(p)
  BY <1>8, RetryOrFailType DEF TypeOK, older, SliceInChunk, disk, RequestErrors
<1> QED
  BY <1>1, <1>2, <1>3, <1>4, <1>5, <1>6, <1>7, <1>8 DEF PartStep

LEMMA LoopTypeStep ==
    ASSUME TypeInv, NEW w \in writers, Grant(w) \/ Land(w) \/ WriteFails(w)
    PROVE  TypeInv'
<1> USE DEF TypeInv
<1>0. w \in Writer /\ w.part \in Parts /\ parts[w.part].cur \in Nat /\ w.len <= w.left
  BY DEF TypeOK, older, SliceInChunk, Writer, PartsArray, PartState
<1>1. CASE Grant(w)
  <2>1. PICK k \in 1..w.left : writers' = (writers \ {w}) \cup {Writing(w, k)}
    BY <1>1 DEF Grant
  <2>2. Writing(w, k) \in Writer /\ Writing(w, k).len <= Writing(w, k).left
    BY <1>0, <2>1, WritingType
  <2> QED
    BY <1>1, <2>1, <2>2 DEF TypeOK, older, SliceInChunk, item, disk, Grant
<1>2. CASE Land(w)
  <2>1. file' \in [Offsets -> Nat]
    <3>1. w.src \in Nat /\ w.pos \in Nat /\ w.len \in Nat
      BY <1>0 DEF Writer
    <3>2. \A o \in Offsets : o \in w.pos..(w.pos + w.len - 1) => w.src + (o - w.pos) \in Nat
      BY <3>1
    <3>3. \A o \in Offsets : file[o] \in Nat
      BY DEF TypeOK
    <3> QED
      BY <1>2, <3>2, <3>3 DEF Land
  <2>2. parts' \in PartsArray
    <3>1. parts \in [Parts -> PartState] /\ w.len \in Nat
      BY <1>0 DEF TypeOK, PartsArray, Writer
    <3>2. [parts[w.part] EXCEPT !.cur = @ + w.len] \in PartState
      BY <1>0, <3>1 DEF PartState
    <3> QED
      BY <1>2, <3>1, <3>2 DEF Land, PartsArray
  <2>3. w.left # w.len => NextSlice(w) \in Writer /\ NextSlice(w).len <= NextSlice(w).left
    BY <1>0, NextSliceType
  <2> QED
    BY <1>2, <2>1, <2>2, <2>3 DEF TypeOK, older, SliceInChunk, item, disk, Land
<1>3. CASE WriteFails(w)
  <2>1. xfer' \in [Parts -> Attempt]
    <3>1. \A a \in Attempt : [a EXCEPT !.bad = TRUE] \in Attempt
      BY DEF Attempt
    <3>2. \A p \in Parts : xfer[p] \in Attempt
      BY DEF TypeOK
    <3> QED
      BY <1>3, <3>1, <3>2 DEF WriteFails
  <2> QED
    BY <1>3, <2>1 DEF TypeOK, older, SliceInChunk, item, disk, WriteFails
<1> QED
  BY <1>1, <1>2, <1>3


\* Every step keeps the types: in particular no retry counter goes below
\* zero, no response or chunk has a negative rest and no write a negative place.
LEMMA TypeStep ==
    ASSUME TypeInv, [Next]_vars
    PROVE  TypeInv'
<1> USE DEF TypeInv
<1>1. CASE UNCHANGED vars
  BY <1>1 DEF TypeOK, older, SliceInChunk, vars
<1>2. CASE LoadParts
  <2>1. parts' \in PartsArray /\ laid' \in BOOLEAN /\ sess' \in Session
    BY <1>2, Layout DEF TypeOK, LoadParts, ItemParts, Session, SessPcs
  <2> QED
    BY <1>2, <2>1, ConstantTypes DEF TypeOK, SliceInChunk, disk, LoadParts
<1>3. CASE OpenFile
  <2>1. status' \in Statuses
    BY <1>3 DEF TypeOK, older, OpenFile, BeginFinish, Statuses
  <2>2. sess' \in Session
    BY <1>3 DEF TypeOK, older, OpenFile, BeginFinish, Session, SessPcs
  <2>3. xfer' \in [Parts -> Attempt]
    <3>1. parts \in PartsArray /\ xfer \in [Parts -> Attempt]
      BY DEF TypeOK
    <3>2. NoAttempt \in Attempt /\ \A p \in Parts : FirstAttempt(p) \in Attempt
      BY <3>1, FirstAttemptType, ConstantTypes
    <3> QED
      BY <1>3, <3>1, <3>2 DEF OpenFile
  <2>4. file' \in [Offsets -> Nat]
    BY <1>3, ConstantTypes DEF TypeOK, older, OpenFile, Opened
  <2> QED
    BY <1>3, <2>1, <2>2, <2>3, <2>4 DEF TypeOK, older, SliceInChunk, OpenFile
<1>4. CASE Join
  <2>1. sess' \in Session /\ status' \in Statuses
    BY <1>4 DEF TypeOK, Join, BeginFinish, Session, SessPcs, Statuses
  <2> QED
    BY <1>4, <2>1 DEF TypeOK, older, SliceInChunk, item, disk, Join
<1>5. CASE CloseFile
  BY <1>5, ConstantTypes DEF TypeOK, older, SliceInChunk, item, disk, CloseFile, Session, SessPcs
<1>6. CASE RemovePartsFile
  BY <1>6, ConstantTypes DEF TypeOK, older, SliceInChunk, item, disk, RemovePartsFile, Session, SessPcs
<1>7. CASE PauseSaves
  BY <1>7, ConstantTypes DEF TypeOK, older, SliceInChunk, item, disk, PauseSaves, Session, Halt, HaltPcs
<1>8. CASE PauseDone
  BY <1>8, ConstantTypes DEF TypeOK, older, SliceInChunk, item, disk, PauseDone, Released, Session, SessPcs
<1>9. CASE CancelRemovesParts
  BY <1>9, ConstantTypes DEF TypeOK, older, SliceInChunk, item, disk, CancelRemovesParts, Halt, HaltPcs
<1>10. CASE CancelDone
  BY <1>10, ConstantTypes DEF TypeOK, older, SliceInChunk, item, disk, CancelDone, Released, Session, SessPcs, Statuses
<1>11. ASSUME NEW p \in Parts, PartStep(p) PROVE TypeInv'
  BY <1>11, PartTypeStep
<1>12. ASSUME NEW w \in writers, Grant(w) \/ Land(w) \/ WriteFails(w) PROVE TypeInv'
  BY <1>12, LoopTypeStep
<1>13. CASE Start
  <2>1. \A v : \A w \in Writer, t \in {"current", "stopped", "ended"} :
          v = [w EXCEPT !.task = t] => v \in Writer /\ v.len = w.len /\ v.left = w.left
    BY DEF Writer
  <2>2. \A w \in writers : w \in Writer /\ w.task \in {"current", "stopped", "ended"} /\ w.len <= w.left
    BY DEF TypeOK, older, SliceInChunk, Writer
  <2>3. \A v \in writers' : \E w \in writers, t \in {"current", "stopped", "ended"} : v = [w EXCEPT !.task = t]
    BY <1>13, <2>2 DEF Start
  <2>4. \A v \in writers' : v \in Writer /\ v.len <= v.left
    BY <2>1, <2>2, <2>3
  <2>5. sess' \in Session /\ status' \in Statuses
    BY <1>13 DEF Start, NoSession, Session, SessPcs, Statuses
  <2>6. starts' \in 0..MaxStarts
    BY <1>13, SizeAssumption DEF Start, TypeOK
  <2>7. late' \in [0..MaxStarts -> LatePcs]
    BY <1>13 DEF Start, NoTask, TypeOK, Session, SessPcs, LatePcs
  <2> QED
    BY <1>13, <2>4, <2>5, <2>6, <2>7 DEF TypeOK, SliceInChunk, disk, Start
<1>14. CASE TimerTick
  <2>1. saving' \in [on: BOOLEAN, parts: PartsArray]
    BY <1>14 DEF TypeOK, TimerTick, ItemParts
  <2> QED
    BY <1>14, <2>1 DEF TypeOK, older, SliceInChunk, item, disk, TimerTick
<1>15. CASE SaveLands
  <2>1. [ok |-> TRUE, parts |-> saving.parts] \in [ok: BOOLEAN, parts: PartsArray]
    BY DEF TypeOK
  <2>2. saved' \in [ok: BOOLEAN, parts: PartsArray]
    BY <1>15, <2>1, ConstantTypes DEF TypeOK, older, SaveLands
  <2> QED
    BY <1>15, <2>2, ConstantTypes DEF TypeOK, older, SliceInChunk, item, disk, SaveLands
<1>16. CASE Pause
  <2>1. halt' \in Halt
    BY <1>16 DEF TypeOK, Pause, ItemParts, Halt, HaltPcs
  <2>2. sess' \in Session
    BY <1>16 DEF TypeOK, older, Pause, Session
  <2> QED
    BY <1>16, <2>1, <2>2, ConstantTypes DEF TypeOK, older, SliceInChunk, disk, Pause, Statuses
<1>17. CASE Cancel
  <2>1. \A op \in {"cancel", "remove"}, del \in BOOLEAN :
          [pc |-> "cancelClosing", save |-> NoPartsFile, op |-> op, del |-> del] \in Halt
    BY ConstantTypes DEF Halt, HaltPcs
  <2>2. halt' \in Halt
    BY <1>17, <2>1 DEF Cancel
  <2>3. sess' \in Session
    BY <1>17 DEF TypeOK, older, Cancel, Session
  <2> QED
    BY <1>17, <2>2, <2>3, ConstantTypes DEF TypeOK, older, SliceInChunk, item, disk, Cancel
<1>18. CASE Retry
  BY <1>18, Layout, ConstantTypes DEF TypeOK, older, SliceInChunk, item, disk, Retry, Statuses
<1>19. CASE RemoveIdle
  BY <1>19, ConstantTypes DEF TypeOK, older, SliceInChunk, item, disk, RemoveIdle, Statuses
<1>20. CASE AddAgain
  BY <1>20, Layout, ConstantTypes DEF TypeOK, older, SliceInChunk, item, disk, AddAgain, Statuses
<1>21. CASE SaveState
  BY <1>21 DEF TypeOK, older, SliceInChunk, item, disk, SaveState, ItemParts
<1>22. CASE Crash
  <2>1. status' \in Statuses /\ laid' \in BOOLEAN /\ parts' \in PartsArray
    BY <1>22 DEF TypeOK, older, Crash, Statuses
  <2>2. saved' \in [ok: BOOLEAN, parts: PartsArray]
    <3>1. [ok |-> TRUE, parts |-> saving.parts] \in [ok: BOOLEAN, parts: PartsArray]
      BY DEF TypeOK
    <3>2. halt.save \in [ok: BOOLEAN, parts: PartsArray]
      BY DEF TypeOK, older, Halt
    <3>3. saved' \in {saved, NoPartsFile, [ok |-> TRUE, parts |-> saving.parts], halt.save}
      BY <1>22 DEF Crash
    <3> QED
      BY <3>1, <3>2, <3>3, ConstantTypes DEF TypeOK
  <2> QED
    BY <1>22, <2>1, <2>2, ConstantTypes DEF TypeOK, older, SliceInChunk, disk, Crash
<1>23. CASE LookForFile
  BY <1>23 DEF TypeOK, older, SliceInChunk, item, disk, LookForFile, Session, SessPcs
<1>24. ASSUME NEW i \in DOMAIN late, LateLoad(i) \/ LateLook(i) \/ LateCreate(i) \/ LateEnd(i) PROVE TypeInv'
  <2>1. late' \in [0..MaxStarts -> LatePcs]
    BY <1>24 DEF TypeOK, LateLoad, LateLook, LateCreate, LateEnd, LatePcs, SessPcs
  <2>2. CASE LateLoad(i)
    <3>1. saved.parts \in PartsArray
      BY DEF TypeOK
    <3>2. listed' \in [apart: BOOLEAN, parts: PartsArray]
      <4>1. listed' \in {listed, Together, [apart |-> TRUE, parts |-> saved.parts]}
        BY <2>2 DEF LateLoad
      <4>2. [apart |-> TRUE, parts |-> saved.parts] \in [apart: BOOLEAN, parts: PartsArray]
        BY <3>1
      <4> QED
        BY <4>1, <4>2, ConstantTypes DEF TypeOK
    <3>3. laid' \in BOOLEAN /\ parts' \in PartsArray /\ writers' \subseteq writers
      BY <2>2, <3>1 DEF TypeOK, LateLoad
    <3> QED
      BY <2>1, <2>2, <3>2, <3>3 DEF TypeOK, SliceInChunk, disk, LateLoad
  <2>3. CASE LateLook(i) \/ LateCreate(i) \/ LateEnd(i)
    BY <2>1, <2>3, ConstantTypes DEF TypeOK, SliceInChunk, item, disk, LateLook, LateCreate, LateEnd
  <2> QED
    BY <1>24, <2>2, <2>3
<1> QED
  BY <1>1, <1>2, <1>3, <1>4, <1>5, <1>6, <1>7, <1>8, <1>9, <1>10, <1>11, <1>12, <1>13, <1>14, <1>15, <1>16, <1>17, <1>18, <1>19, <1>20, <1>21, <1>22, <1>23, <1>24 DEF Next, TaskStep

LEMMA TypeInit == Init => TypeInv
<1>1. ASSUME Init PROVE kept \in [status: Statuses, laid: BOOLEAN, parts: PartsArray]
  BY <1>1, Layout DEF Init, Statuses
<1>2. ASSUME Init PROVE starts \in 0..MaxStarts
  BY <1>2, SizeAssumption DEF Init
<1> QED
  BY <1>1, <1>2, ConstantTypes, Layout DEF Init, TypeInv, TypeOK, SliceInChunk, Statuses

\* Every reachable state is well formed, for every source size, layout, retry
\* limit, fault and operation (DownloadTask.ts, all of it).
THEOREM TypeCorrect == Spec => []TypeOK
<1>1. Init => TypeInv
  BY TypeInit
<1>2. TypeInv /\ [Next]_vars => TypeInv'
  BY TypeStep
<1>3. TypeInv => TypeOK
  BY DEF TypeInv
<1> QED
  BY <1>1, <1>2, <1>3, PTL DEF Spec

-----------------------------------------------------------------------------
(* Exactness of plain transfers *)

LEMMA FreshClaims == Claims(file, FreshParts)
<1>1. \A p \in Parts : From(p) \in Nat
  BY Layout
<1> QED
  BY <1>1, SizeAssumption DEF Claims, FreshParts, Offsets

LEMMA ClaimsImprove ==
    ASSUME NEW f, NEW g, NEW a, Claims(f, a), \A o \in Offsets : f[o] = o => g[o] = o
    PROVE  Claims(g, a)
BY DEF Claims

\* Completed parts that cover the source make the file exact.
LEMMA DoneIsExact ==
    ASSUME TypeOK, Claims(file, parts), \A p \in Parts : parts[p].done
    PROVE  Exact
<1>1. SUFFICES ASSUME NEW o \in Offsets PROVE file[o] = o
  BY DEF Exact
<1>2. PICK p \in Parts : From(p) <= o /\ o <= To(p)
  BY Coverage
<1>3. parts[p].cur > To(p) /\ parts[p].cur \in Nat /\ To(p) \in Int /\ o \in Nat
  BY Layout, SizeAssumption DEF Claims, TypeOK, PartsArray, PartState, Offsets
<1> QED
  BY <1>2, <1>3 DEF Claims

\* A part whose attempt awaits no chunk loop has none.
LEMMA NoLoop ==
    ASSUME Transferring, LoopInv, AttemptInv, NEW p \in Parts,
           xfer[p].pc # "body" \/ Busy(p) = {}
    PROVE  \A w \in writers : w.part # p
BY DEF LoopInv, AttemptInv, Busy

LEMMA FailKeepsExact ==
    ASSUME TypeOK, Transferring, ExactInv, NEW p \in Parts, \A w \in writers : w.part # p,
           Fail(p), UNCHANGED <<status, laid, disk, saved, saving, kept, halt, writers, older>>
    PROVE  ExactInv'
<1>1. /\ sess' = [sess EXCEPT !.fatal = TRUE]
      /\ sess'.fatal /\ sess'.pc = sess.pc /\ sess'.handle = sess.handle
      /\ sess'.stopped = sess.stopped /\ sess'.destroyed = sess.destroyed
  BY DEF Fail, TypeOK, Session
<1>2. \A q \in Parts : parts'[q].cur = parts[q].cur /\ (parts'[q].done => parts[q].done)
  BY DEF Fail, TypeOK, PartsArray, PartState
<1>3. \A q \in Parts : q # p => xfer'[q] = xfer[q]
  BY DEF Fail, TypeOK
<1>4. xfer'[p].pc = "done"
  BY DEF Fail, NoAttempt, TypeOK
<1>5. AllClaims'
  BY <1>2 DEF ExactInv, AllClaims, Claims, disk, older
<1>6. Outcome'
  BY <1>1 DEF ExactInv, Outcome, BytesAtOwnOffset, Exact, disk, Halted
<1>7. LoopInv'
  BY <1>1, <1>2 DEF ExactInv, LoopInv, TypeOK, Writer, disk
<1>8. AttemptInv'
  <2>1. \A w \in writers : w.part \in Parts
    BY DEF TypeOK, Writer
  <2>2. \A q \in Parts : q # p => parts'[q].done = parts[q].done
    BY DEF Fail, TypeOK, PartsArray
  <2> QED
    BY <1>1, <1>2, <1>3, <1>4, <2>1, <2>2 DEF ExactInv, AttemptInv, Transferring, Halted
<1>9. CreateInv'
  BY <1>1 DEF ExactInv, CreateInv, disk, older
<1> QED
  BY <1>5, <1>6, <1>7, <1>8, <1>9 DEF ExactInv

LEMMA RetryKeepsExact ==
    ASSUME TypeOK, Transferring, ExactInv, NEW p \in Parts, \A w \in writers : w.part # p,
           RetryOrFail(p), UNCHANGED <<status, laid, disk, saved, saving, kept, halt, writers, older>>
    PROVE  ExactInv'
<1>1. CASE Fail(p)
  BY <1>1, FailKeepsExact
<1>2. CASE xfer' = [xfer EXCEPT ![p] = Retried(@)] /\ UNCHANGED <<sess, parts>>
  <2>1. Retried(xfer[p]).pc = "backoff"
    BY DEF Retried, TypeOK, Attempt
  <2>2. xfer'[p].pc = "backoff" /\ \A q \in Parts : q # p => xfer'[q] = xfer[q]
    BY <1>2, <2>1 DEF TypeOK
  <2>3. AttemptInv'
    BY <1>2, <2>2 DEF ExactInv, AttemptInv, Transferring, Halted, TypeOK, Writer
  <2> QED
    BY <1>2, <2>3 DEF ExactInv, AllClaims, Claims, CreateInv, older, Outcome, BytesAtOwnOffset, Exact, LoopInv, disk, Halted
<1> QED
  BY <1>1, <1>2 DEF RetryOrFail

LEMMA PartKeepsExact ==
    ASSUME Plain, TypeInv, ExactInv, NEW p \in Parts, PartStep(p)
    PROVE  ExactInv'
<1> USE DEF TypeInv
<1>0. /\ Transferring /\ parts[p].cur \in Nat /\ xfer[p] \in Attempt /\ p \in Nat
      /\ From(p) \in Nat /\ To(p) \in Int
  BY Layout DEF PartStep, Attempt_, Respond, RequestFails, Redirect, Data, End,
                ResponseFails, RequestErrors, TypeOK, PartsArray, PartState
<1>1. CASE Attempt_(p)
  <2>1. xfer'[p].pc = "request" /\ \A q \in Parts : q # p => xfer'[q] = xfer[q]
    BY <1>1 DEF Attempt_, Request, TypeOK
  <2>2. \A w \in writers : w.part # p
    BY <1>0, <1>1, NoLoop DEF ExactInv, Attempt_
  <2>3. AttemptInv'
    BY <1>0, <1>1, <2>1, <2>2 DEF Attempt_, item, ExactInv, AttemptInv, Transferring, Halted, TypeOK, Writer
  <2> QED
    BY <1>1, <2>3 DEF Attempt_, item, disk, ExactInv, AllClaims, CreateInv, older, Outcome, BytesAtOwnOffset, Exact, LoopInv, Halted
<1>2. CASE Respond(p)
  <2>1. parts[p].cur <= To(p) /\ BodyLengths(p) = {To(p) + 1 - parts[p].cur}
    BY <1>2 DEF Plain, Respond, RangeMatches, BodyLengths
  <2>2. xfer' = [xfer EXCEPT ![p] = Answered(@, parts[p].cur, To(p) + 1 - parts[p].cur)]
    BY <1>2, <2>1 DEF Plain, Respond
  <2>3. /\ xfer'[p].pc = "body" /\ xfer'[p].src = parts[p].cur
        /\ xfer'[p].left = To(p) + 1 - parts[p].cur
        /\ \A q \in Parts : q # p => xfer'[q] = xfer[q]
    BY <2>2 DEF Answered, TypeOK, Attempt
  <2>4. \A w \in writers : w.part # p
    BY <1>0, <1>2, NoLoop DEF ExactInv, Respond
  <2>5. xfer'[p].src + xfer'[p].left = To(p) + 1
    BY <1>0, <2>3
  <2>6. AttemptInv'
    BY <1>0, <1>2, <2>3, <2>4, <2>5 DEF Respond, item, ExactInv, AttemptInv, Transferring, Halted, TypeOK, Writer
  <2> QED
    BY <1>2, <2>6 DEF Respond, item, disk, ExactInv, AllClaims, CreateInv, older, Outcome, BytesAtOwnOffset, Exact, LoopInv, Halted
<1>3. CASE RequestFails(p)
  <2>1. \A w \in writers : w.part # p
    BY <1>0, <1>3, NoLoop DEF ExactInv, RequestFails
  <2> QED
    BY <1>0, <1>3, <2>1, RetryKeepsExact DEF RequestFails
<1>4. CASE Redirect(p)
  <2>1. \A w \in writers : w.part # p
    BY <1>0, <1>4, NoLoop DEF ExactInv, Redirect
  <2>2. CASE Fail(p)
    BY <1>0, <1>4, <2>1, <2>2, FailKeepsExact DEF Redirect
  <2>3. CASE xfer' = [xfer EXCEPT ![p] = Redirected(@, parts[p].cur)] /\ UNCHANGED <<sess, parts>>
    <3>1. Redirected(xfer[p], parts[p].cur).pc = "request"
      BY <1>4 DEF Redirect, Redirected, TypeOK, Attempt
    <3>2. xfer'[p].pc = "request" /\ \A q \in Parts : q # p => xfer'[q] = xfer[q]
      BY <2>3, <3>1 DEF TypeOK
    <3>3. AttemptInv'
      BY <1>0, <1>4, <2>1, <2>3, <3>2 DEF Redirect, ExactInv, AttemptInv, Transferring, Halted, TypeOK, Writer
    <3> QED
      BY <1>4, <2>3, <3>3 DEF Redirect, disk, ExactInv, AllClaims, CreateInv, older, Outcome, BytesAtOwnOffset, Exact, LoopInv, Halted
  <2> QED
    BY <1>4, <2>2, <2>3 DEF Redirect
<1>5. CASE Data(p)
  <2>1. \A w \in writers : w.part # p
    BY <1>0, <1>5, NoLoop DEF ExactInv, Data
  <2> DEFINE loop(n) == Loop(p, xfer[p].retries, "current", xfer[p].src, n)
  <2>2. PICK n \in 1..Lesser(ChunkMax, xfer[p].left) :
          /\ xfer' = [xfer EXCEPT ![p] = Taken(@, n)]
          /\ writers' = writers \cup {Writing(loop(n), n)}
    BY <1>5 DEF Data, Plain
  <2>3. n \in Nat \ {0} /\ n <= xfer[p].left
    BY <1>0, <2>2, SizeAssumption DEF Lesser, Attempt
  <2>6. xfer[p].pc = "body" /\ xfer[p].src = parts[p].cur /\ sess.handle
        /\ xfer[p].src + xfer[p].left = To(p) + 1
    BY <1>0, <1>5, <2>1 DEF Data, ExactInv, AttemptInv
  <2> DEFINE new == Writing(loop(n), n)
  <2>4. /\ new.task = "current" /\ new.pc = "write" /\ new.len = n /\ new.left = n
        /\ new.pos = parts[p].cur /\ new.src = xfer[p].src /\ new.part = p
        /\ new.retries = xfer[p].retries /\ new.hit
    BY <2>6 DEF Writing, Loop
  <2>5. /\ xfer'[p].pc = xfer[p].pc /\ xfer'[p].src = xfer[p].src + n
        /\ xfer'[p].left = xfer[p].left - n /\ xfer'[p].retries = xfer[p].retries
        /\ \A q \in Parts : q # p => xfer'[q] = xfer[q]
    <3>1. /\ Taken(xfer[p], n).pc = xfer[p].pc /\ Taken(xfer[p], n).retries = xfer[p].retries
      BY DEF Taken, TypeOK, Attempt
    <3>2. Taken(xfer[p], n).src = xfer[p].src + n /\ Taken(xfer[p], n).left = xfer[p].left - n
      BY <1>0 DEF Taken, Attempt
    <3> QED
      BY <2>2, <3>1, <3>2 DEF TypeOK
  <2> HIDE DEF new
  <2>7. writers' = writers \cup {new}
    BY <2>2 DEF new
  <2>8. LoopInv'
    <3>1. sess.pc = "running" /\ halt.pc # "cancelRemoving" /\ exists
      BY <1>0 DEF Transferring, ExactInv, Outcome
    <3> QED
      BY <1>5, <2>1, <2>4, <2>6, <2>7, <3>1 DEF Data, item, disk, ExactInv, LoopInv
  <2>9. xfer'[p].src + xfer'[p].left = To(p) + 1 /\ xfer'[p].src = parts[p].cur + n
    BY <1>0, <2>3, <2>5, <2>6 DEF Attempt
  <2>10. AttemptInv'
    BY <1>0, <1>5, <2>1, <2>4, <2>5, <2>6, <2>7, <2>9
    DEF Data, item, ExactInv, AttemptInv, Transferring, Halted, TypeOK, Writer
  <2> QED
    BY <1>5, <2>8, <2>10 DEF Data, item, disk, ExactInv, AllClaims, CreateInv, older, Outcome, BytesAtOwnOffset, Exact, Halted
<1>6. CASE End(p)
  <2>1. \A w \in writers : w.part # p
    BY <1>0, <1>6, NoLoop DEF ExactInv, End
  <2>2. CASE RetryOrFail(p)
    BY <1>0, <1>6, <2>1, <2>2, RetryKeepsExact DEF End
  <2>3. CASE /\ parts' = [parts EXCEPT ![p].done = TRUE]
             /\ xfer' = [xfer EXCEPT ![p] = NoAttempt]
             /\ UNCHANGED sess
    <3>1. parts[p].cur > To(p)
      BY <1>0, <1>6, <2>1 DEF End, ExactInv, AttemptInv, Attempt
    <3>2. /\ \A q \in Parts : parts'[q].cur = parts[q].cur /\ (q # p => parts'[q] = parts[q])
          /\ parts'[p].done
      BY <2>3 DEF TypeOK, older, PartsArray, PartState
    <3>3. xfer'[p].pc = "done" /\ \A q \in Parts : q # p => xfer'[q] = xfer[q]
      BY <2>3 DEF TypeOK, NoAttempt
    <3>4. AllClaims'
      BY <1>6, <3>1, <3>2 DEF End, disk, older, ExactInv, AllClaims, Claims
    <3>5. LoopInv'
      BY <1>6, <2>3, <3>2 DEF End, ExactInv, LoopInv, TypeOK, Writer, disk
    <3>6. AttemptInv'
      BY <1>0, <1>6, <2>1, <2>3, <3>2, <3>3 DEF End, ExactInv, AttemptInv, Transferring, Halted, TypeOK, Writer
    <3> QED
      BY <1>6, <2>3, <3>4, <3>5, <3>6 DEF End, disk, older, ExactInv, CreateInv, Outcome, BytesAtOwnOffset, Exact, Halted
  <2> QED
    BY <1>6, <2>2, <2>3 DEF End
<1>7. CASE ResponseFails(p)
  <2>1. \A w \in writers : w.part # p
    BY <1>0, <1>7, NoLoop DEF ExactInv, ResponseFails
  <2> QED
    BY <1>0, <1>7, <2>1, RetryKeepsExact DEF ResponseFails
<1>8. CASE RequestErrors(p)
  BY <1>8 DEF RequestErrors, Plain
<1> QED
  BY <1>1, <1>2, <1>3, <1>4, <1>5, <1>6, <1>7, <1>8 DEF PartStep

\* A landing write puts its bytes at their own offsets and counts them.
LEMMA LandKeepsExact ==
    ASSUME Plain, TypeInv, ExactInv, NEW w \in writers, Grant(w) \/ Land(w) \/ WriteFails(w)
    PROVE  ExactInv'
<1> USE DEF TypeInv
<1>1. /\ w.pc = "write" /\ w.hit /\ w.len = w.left /\ w.pos = w.src
      /\ w.pos = parts[w.part].cur /\ w.task = "current"
  BY DEF ExactInv, LoopInv
<1>2. Land(w)
  BY <1>1 DEF Grant, WriteFails, Plain
<1>3. w \in Writer /\ w.part \in Parts /\ w.len \in Nat /\ w.pos \in Nat /\ parts[w.part].cur \in Nat
  BY DEF TypeOK, older, Writer, PartsArray, PartState
<1>4. writers' = writers \ {w}
  BY <1>1, <1>2 DEF Land
<1>5. \A o \in Offsets : file'[o] = IF w.pos <= o /\ o < w.pos + w.len THEN o ELSE file[o]
  <2>1. \A o \in Offsets : o \in Int
    BY SizeAssumption DEF Offsets
  <2> QED
    <3>1. file' = [o \in Offsets |-> IF o \in w.pos..(w.pos + w.len - 1)
                                      THEN w.src + (o - w.pos) ELSE file[o]]
      BY <1>1, <1>2 DEF Land
    <3>2. \A o \in Offsets : /\ w.src + (o - w.pos) = o
                             /\ o \in w.pos..(w.pos + w.len - 1) <=> w.pos <= o /\ o < w.pos + w.len
      BY <1>1, <1>3, <2>1
    <3> QED
      BY <3>1, <3>2
<1>6. /\ parts'[w.part].cur = parts[w.part].cur + w.len
      /\ parts'[w.part].done => parts[w.part].done
      /\ \A q \in Parts : q # w.part => parts'[q] = parts[q]
  BY <1>2, <1>3 DEF Land, TypeOK, PartsArray, PartState
<1>7. \A o \in Offsets : file[o] = o => file'[o] = o
  BY <1>5
<1>8. Claims(file', parts')
  <2>1. SUFFICES ASSUME NEW p \in Parts
                 PROVE  /\ \A o \in Offsets : From(p) <= o /\ o < parts'[p].cur => file'[o] = o
                        /\ parts'[p].done => parts'[p].cur > To(p)
    BY DEF Claims
  <2>2. CASE p # w.part
    BY <1>6, <1>7, <2>2 DEF ExactInv, AllClaims, Claims
  <2>3. CASE p = w.part
    <3>1. parts'[p].done => parts'[p].cur > To(p)
      BY <1>3, <1>6, <2>3, Layout DEF ExactInv, AllClaims, Claims
    <3>2. ASSUME NEW o \in Offsets, From(p) <= o, o < parts'[p].cur
          PROVE  file'[o] = o
      <4>1. o \in Int
        BY SizeAssumption DEF Offsets
      <4>2. CASE o < parts[p].cur
        BY <1>7, <3>2, <4>2 DEF ExactInv, AllClaims, Claims
      <4>3. CASE ~(o < parts[p].cur)
        BY <1>1, <1>3, <1>5, <1>6, <2>3, <3>2, <4>1, <4>3
      <4> QED
        BY <4>2, <4>3
    <3> QED
      BY <3>1, <3>2
  <2> QED
    BY <2>2, <2>3
<1>9. AllClaims'
  BY <1>2, <1>7, <1>8, ClaimsImprove DEF Land, older, ExactInv, AllClaims
<1>13. CreateInv'
  BY <1>2 DEF Land, older, ExactInv, CreateInv, LoopInv
<1>10. Outcome'
  <2>1. EmptyFile = [o \in Offsets |-> Hole] /\ (~exists => writers = {})
    BY <1>1 DEF EmptyFile, ExactInv, LoopInv
  <2> QED
    BY <1>2, <1>5, <1>7, <2>1 DEF Land, ExactInv, Outcome, BytesAtOwnOffset, Exact, Halted
<1>11. LoopInv'
  BY <1>2, <1>4, <1>6 DEF Land, ExactInv, LoopInv, TypeOK, Writer, disk
<1>12. AttemptInv'
  <2> SUFFICES ASSUME Transferring PROVE AttemptInv'
    BY <1>2 DEF Land, AttemptInv, Transferring, Halted
  <2>1. /\ UNCHANGED <<sess, xfer>> /\ \A v \in writers : v.part \in Parts
        /\ \A v \in writers : v.part = w.part => v = w
    BY <1>2 DEF Land, TypeOK, Writer, ExactInv, LoopInv
  <2>2. parts'[w.part].done = parts[w.part].done
    BY <1>2, <1>3 DEF Land, TypeOK, PartsArray, PartState
  <2>3. xfer[w.part].pc = "body" /\ xfer[w.part].src = parts[w.part].cur + w.len
    BY <1>3 DEF ExactInv, AttemptInv
  <2> QED
    BY <1>3, <1>4, <1>6, <2>1, <2>2, <2>3 DEF ExactInv, AttemptInv, Transferring, Halted
<1> QED
  BY <1>9, <1>10, <1>11, <1>12, <1>13 DEF ExactInv

\* Loading the parts file, opening the download and the end of start().
LEMMA StartKeepsExact ==
    ASSUME Plain, TypeInv, ExactInv,
           Start \/ LoadParts \/ LookForFile \/ OpenFile \/ Join \/ CloseFile \/ RemovePartsFile
    PROVE  ExactInv'
<1> USE DEF TypeInv
<1>1. CASE Start
  <2>1. writers = {} /\ writers' = {}
    BY <1>1 DEF Start, NoTask, WritesLanded, ExactInv, LoopInv
  <2>2. sess'.pc = "loading" /\ ~Halted' /\ halt.pc = "no" /\ status' = "downloading"
    BY <1>1 DEF Start, NoTask, NoSession, Halted
  <2>3. Outcome'
    BY <1>1, <2>2 DEF Start, disk, ExactInv, Outcome, BytesAtOwnOffset, Exact
  <2>4. \A i \in DOMAIN late' : i \in DOMAIN late /\ (late'[i] = late[i] \/ late'[i] = sess.pc)
    BY <1>1 DEF Start, TypeOK
  <2>5. CreateInv'
    BY <1>1, <2>2, <2>4 DEF Start, disk, ExactInv, CreateInv
  <2> QED
    BY <1>1, <2>1, <2>2, <2>3, <2>5 DEF Start, disk, ExactInv, AllClaims, LoopInv, AttemptInv, Transferring
<1>2. CASE LoadParts
  <2>1. writers = {} /\ writers' = {}
    BY <1>2 DEF LoadParts, ExactInv, LoopInv
  <2>2. sess'.pc \in {"none", "opening"} /\ sess'.stopped = sess.stopped /\ sess'.destroyed = sess.destroyed
    BY <1>2 DEF LoadParts, TypeOK, Session
  <2>3. AllClaims'
    BY <1>2, FreshClaims DEF LoadParts, ItemParts, Together, disk, ExactInv, AllClaims
  <2>4. Outcome'
    BY <1>2, <2>2 DEF LoadParts, disk, ExactInv, Outcome, BytesAtOwnOffset, Exact, Halted
  <2>5. CreateInv'
    BY <1>2, <2>2 DEF LoadParts, disk, ExactInv, CreateInv
  <2> QED
    BY <2>1, <2>2, <2>3, <2>4, <2>5 DEF ExactInv, LoopInv, AttemptInv, Transferring
<1>7. CASE LookForFile
  <2>1. writers = {} /\ writers' = {} /\ file = EmptyFile
    BY <1>7 DEF LookForFile, ExactInv, LoopInv, Outcome
  <2>2. sess'.pc = "creating" /\ sess'.stopped = sess.stopped /\ sess'.destroyed = sess.destroyed
    BY <1>7 DEF LookForFile, TypeOK, Session
  <2>3. AllClaims'
    BY <1>7 DEF LookForFile, item, disk, older, ExactInv, AllClaims
  <2>4. Outcome'
    BY <1>7, <2>2 DEF LookForFile, item, disk, ExactInv, Outcome, BytesAtOwnOffset, Exact, Halted
  <2>5. CreateInv'
    BY <1>7, <2>1, <2>2 DEF LookForFile, disk, older, ExactInv, CreateInv
  <2> QED
    BY <2>1, <2>2, <2>3, <2>4, <2>5 DEF ExactInv, LoopInv, AttemptInv, Transferring
<1>3. CASE OpenFile
  <2>1. writers = {} /\ writers' = {}
    BY <1>3 DEF OpenFile, ExactInv, LoopInv
  <2>2. file' = file /\ exists'
    BY <1>3 DEF OpenFile, Opened, ExactInv, Outcome, CreateInv
  <2>3. AllClaims'
    BY <1>3, <2>2 DEF OpenFile, older, ExactInv, AllClaims
  <2>9. CreateInv'
    BY <1>3 DEF OpenFile, OpensInOrder, BeginFinish, older, Plain, TypeOK, Session, ExactInv, CreateInv
  <2>4. status' = "completed" => status = "completed" \/ \A p \in Parts : parts[p].done
    BY <1>3 DEF OpenFile, BeginFinish
  <2>5. status' = "completed" \/ kept.status = "completed" => Exact
    BY <2>3, <2>4, DoneIsExact DEF ExactInv, AllClaims, Outcome
  <2>6. sess'.stopped = sess.stopped /\ sess'.destroyed = sess.destroyed
    BY <1>3 DEF OpenFile, BeginFinish, TypeOK, Session
  <2>7. Outcome'
    BY <1>3, <2>2, <2>5, <2>6 DEF OpenFile, ExactInv, Outcome, BytesAtOwnOffset, Exact, Halted
  <2>8. CASE Transferring'
    <3>1. /\ sess'.handle /\ xfer' = [p \in Parts |-> IF parts[p].done THEN NoAttempt ELSE FirstAttempt(p)]
      BY <1>3, <2>8 DEF OpenFile, BeginFinish, Transferring, Halted, TypeOK, Session
    <3>2. \A p \in Parts : xfer'[p].pc = (IF parts[p].done THEN "done" ELSE "request")
      BY <3>1 DEF NoAttempt, FirstAttempt, Request
    <3>3. parts' = parts
      BY <1>3 DEF OpenFile
    <3> QED
      BY <2>1, <2>3, <2>7, <2>9, <3>1, <3>2, <3>3 DEF ExactInv, LoopInv, AttemptInv
  <2> QED
    BY <2>1, <2>3, <2>7, <2>8, <2>9 DEF ExactInv, LoopInv, AttemptInv
<1>4. CASE Join
  <2>1. sess'.pc \in {"failing", "closing"} /\ sess'.stopped = sess.stopped /\ sess'.destroyed = sess.destroyed
    BY <1>4 DEF Join, BeginFinish, TypeOK, Session
  <2>2. status' = "completed" => \A p \in Parts : parts[p].done
    BY <1>4 DEF Join, BeginFinish, ExactInv, AttemptInv
  <2>3. status' = "completed" \/ kept.status = "completed" => Exact
    BY <2>2, DoneIsExact DEF ExactInv, AllClaims, Outcome
  <2>4. Outcome'
    <3>1. exists /\ UNCHANGED <<exists, file, halt, kept>>
      BY <1>4 DEF Join, disk, Transferring, ExactInv, Outcome
    <3> QED
      BY <2>1, <2>3, <3>1 DEF ExactInv, Outcome, BytesAtOwnOffset, Exact, Halted
  <2>5. AllClaims'
    BY <1>4 DEF Join, disk, older, ExactInv, AllClaims
  <2>6. CreateInv'
    BY <1>4, <2>1 DEF Join, Transferring, disk, older, ExactInv, CreateInv
  <2>7. writers = {} /\ writers' = {}
    <3>1. \A w \in writers : w.part \in Parts
      BY DEF TypeOK, Writer
    <3> QED
      BY <1>4, <3>1 DEF Join, ExactInv, AttemptInv
  <2> QED
    BY <1>4, <2>1, <2>4, <2>5, <2>6, <2>7 DEF ExactInv, LoopInv, AttemptInv, Transferring
<1>5. CASE CloseFile
  <2>1. writers = {} /\ writers' = {}
    BY <1>5 DEF CloseFile, WritesLanded, ExactInv, LoopInv
  <2>2. sess'.pc \in {"none", "removing"} /\ sess'.stopped = sess.stopped /\ sess'.destroyed = sess.destroyed
    BY <1>5 DEF CloseFile, TypeOK, Session
  <2>3. AllClaims'
    BY <1>5 DEF CloseFile, item, disk, older, ExactInv, AllClaims
  <2>4. Outcome'
    BY <1>5, <2>2 DEF CloseFile, item, disk, ExactInv, Outcome, BytesAtOwnOffset, Exact, Halted
  <2>5. CreateInv'
    BY <1>5, <2>2 DEF CloseFile, disk, older, ExactInv, CreateInv
  <2> QED
    BY <2>1, <2>2, <2>3, <2>4, <2>5 DEF ExactInv, LoopInv, AttemptInv, Transferring
<1>6. CASE RemovePartsFile
  <2>1. writers = {} /\ writers' = {}
    BY <1>6 DEF RemovePartsFile, ExactInv, LoopInv
  <2>2. sess'.pc = "none" /\ sess'.stopped = sess.stopped /\ sess'.destroyed = sess.destroyed
    BY <1>6 DEF RemovePartsFile, TypeOK, Session
  <2>3. AllClaims'
    BY <1>6, FreshClaims DEF RemovePartsFile, NoPartsFile, item, disk, older, ExactInv, AllClaims
  <2>4. Outcome'
    BY <1>6, <2>2 DEF RemovePartsFile, item, disk, ExactInv, Outcome, BytesAtOwnOffset, Exact, Halted
  <2>5. CreateInv'
    BY <1>6, <2>2 DEF RemovePartsFile, disk, older, ExactInv, CreateInv
  <2> QED
    BY <2>1, <2>2, <2>3, <2>4, <2>5 DEF ExactInv, LoopInv, AttemptInv, Transferring
<1> QED
  BY <1>1, <1>2, <1>3, <1>4, <1>5, <1>6, <1>7

\* What earlier start()s still do: whichever creates the download now found no
\* file, and nothing has been written to it since.
LEMMA LateKeepsExact ==
    ASSUME Plain, TypeInv, ExactInv, NEW i \in DOMAIN late,
           LateLoad(i) \/ LateLook(i) \/ LateCreate(i) \/ LateEnd(i)
    PROVE  ExactInv'
<1> USE DEF TypeInv
<1>1. \A j \in DOMAIN late' : j \in DOMAIN late /\ (j # i => late'[j] = late[j])
  BY DEF LateLoad, LateLook, LateCreate, LateEnd, TypeOK
<1>2. CASE LateLoad(i)
  <2>1. late'[i] = "none"
    BY <1>2 DEF LateLoad, TypeOK
  <2>2. AllClaims'
    BY <1>2, FreshClaims DEF LateLoad, Together, disk, ExactInv, AllClaims
  <2>3. Outcome' /\ CreateInv'
    BY <1>1, <1>2, <2>1 DEF LateLoad, disk, ExactInv, Outcome, CreateInv, BytesAtOwnOffset, Exact, Halted
  <2>4. CASE UNCHANGED <<parts, writers>>
    BY <1>2, <2>2, <2>3, <2>4 DEF LateLoad, disk, ExactInv, LoopInv, AttemptInv, Transferring, Halted
  <2>5. CASE sess.pc # "running"
    <3>1. writers = {} /\ writers' = {}
      BY <1>2, <2>5 DEF LateLoad, ExactInv, LoopInv
    <3> QED
      BY <1>2, <2>2, <2>3, <2>5, <3>1 DEF LateLoad, ExactInv, LoopInv, AttemptInv, Transferring
  <2> QED
    BY <1>2, <2>4, <2>5 DEF LateLoad
<1>3. CASE LateLook(i)
  <2>1. late'[i] = "creating" => ~exists
    BY <1>3 DEF LateLook, TypeOK
  <2>2. sess.pc \in SessPcs
    BY DEF TypeOK, Session
  <2>3. CreateInv'
    BY <1>1, <1>3, <2>1, <2>2 DEF LateLook, disk, ExactInv, Outcome, CreateInv, SessPcs
  <2> QED
    BY <1>3, <2>3 DEF LateLook, item, disk, ExactInv, AllClaims, Outcome, BytesAtOwnOffset, Exact,
                      Halted, LoopInv, AttemptInv, Transferring
<1>4. CASE LateCreate(i)
  <2>1. file' = file /\ exists' /\ late'[i] = "none"
    BY <1>4 DEF LateCreate, ExactInv, CreateInv, TypeOK
  <2>2. CreateInv'
    BY <1>1, <1>4, <2>1 DEF LateCreate, ExactInv, CreateInv
  <2> QED
    BY <1>4, <2>1, <2>2 DEF LateCreate, item, ExactInv, AllClaims, Outcome, BytesAtOwnOffset, Exact,
                            Halted, LoopInv, AttemptInv, Transferring
<1>5. CASE LateEnd(i)
  <2>1. late'[i] = "none" /\ saved'.parts \in {saved.parts, FreshParts}
    BY <1>5 DEF LateEnd, NoPartsFile, TypeOK
  <2>2. AllClaims'
    BY <1>5, <2>1, FreshClaims DEF LateEnd, item, disk, ExactInv, AllClaims
  <2>3. CreateInv'
    BY <1>1, <1>5, <2>1 DEF LateEnd, disk, ExactInv, CreateInv
  <2> QED
    BY <1>5, <2>2, <2>3 DEF LateEnd, item, disk, ExactInv, Outcome, BytesAtOwnOffset, Exact,
                            Halted, LoopInv, AttemptInv, Transferring
<1> QED
  BY <1>2, <1>3, <1>4, <1>5

\* The parts file, pause and cancel.
LEMMA HaltKeepsExact ==
    ASSUME Plain, TypeInv, ExactInv,
           \/ TimerTick \/ SaveLands \/ Pause \/ PauseSaves \/ PauseDone
           \/ Cancel \/ CancelRemovesParts \/ CancelDone
    PROVE  ExactInv'
<1> USE DEF TypeInv
<1>0. NoPartsFile.parts = FreshParts /\ Claims(file, FreshParts)
  BY FreshClaims DEF NoPartsFile
<1>1. CASE TimerTick
  BY <1>1 DEF TimerTick, ItemParts, item, disk, ExactInv, AllClaims, CreateInv, older, Outcome, BytesAtOwnOffset, Exact, Halted,
              LoopInv, AttemptInv, Transferring
<1>2. CASE SaveLands
  <2>1. AllClaims'
    BY <1>0, <1>2 DEF SaveLands, NoWrite, item, disk, older, ExactInv, AllClaims
  <2> QED
    BY <1>2, <2>1 DEF SaveLands, item, disk, older, ExactInv, CreateInv, Outcome, BytesAtOwnOffset, Exact, Halted,
                      LoopInv, AttemptInv, Transferring
<1>3. CASE Pause
  <2>1. sess'.pc = sess.pc /\ sess'.stopped
    BY <1>3 DEF Pause, TypeOK, Session
  <2>2. AllClaims'
    BY <1>3 DEF Pause, ItemParts, disk, older, ExactInv, AllClaims
  <2>3. Outcome'
    BY <1>3, <2>1 DEF Pause, disk, ExactInv, Outcome, BytesAtOwnOffset, Exact, Halted
  <2> QED
    BY <1>3, <2>1, <2>2, <2>3 DEF Pause, disk, older, ExactInv, CreateInv, LoopInv, AttemptInv, Transferring, Halted
<1>4. CASE PauseSaves
  <2>1. sess'.pc = sess.pc /\ sess'.stopped = sess.stopped /\ sess'.destroyed = sess.destroyed /\ Halted
    BY <1>4 DEF PauseSaves, TypeOK, Session, ExactInv, Outcome
  <2>2. halt'.pc = "closing" /\ halt'.save = halt.save /\ halt'.del = halt.del
    BY <1>4 DEF PauseSaves, TypeOK, Halt
  <2>3. AllClaims'
    BY <1>0, <1>4, <2>2 DEF PauseSaves, item, disk, older, ExactInv, AllClaims
  <2>4. Outcome'
    BY <1>4, <2>1, <2>2 DEF PauseSaves, item, disk, ExactInv, Outcome, BytesAtOwnOffset, Exact, Halted
  <2> QED
    BY <1>4, <2>1, <2>2, <2>3, <2>4 DEF PauseSaves, item, disk, older, ExactInv, CreateInv, LoopInv, AttemptInv, Transferring, Halted
<1>5. CASE PauseDone \/ CancelDone
  <2>1. writers = {} /\ writers' = {}
    BY <1>5 DEF PauseDone, CancelDone, HandleClosed, WritesLanded, ExactInv, LoopInv
  <2>2. sess'.pc # "running" /\ sess'.stopped = sess.stopped /\ sess'.destroyed = sess.destroyed
    BY <1>5 DEF PauseDone, CancelDone, Released, TypeOK, Session
  <2>3. AllClaims' /\ file' = file /\ exists' = exists
    <3>1. ~halt.del /\ AllClaims
      BY DEF ExactInv, Outcome
    <3>2. CASE PauseDone
      BY <1>0, <3>1, <3>2 DEF PauseDone, NoHalt, item, disk, older, AllClaims
    <3>3. CASE CancelDone
      <4>1. file' = file /\ exists' = exists
        BY <3>1, <3>3 DEF CancelDone, TypeOK
      <4> QED
        BY <1>0, <3>1, <3>3, <4>1 DEF CancelDone, NoHalt, older, AllClaims
    <3> QED
      BY <1>5, <3>2, <3>3
  <2>4. status' = "completed" => status = "completed"
    BY <1>5 DEF PauseDone, CancelDone, item
  <2>5. Outcome'
    <3>1. halt'.pc = "no" /\ ~halt'.del /\ kept' = kept /\ (sess'.pc = sess.pc \/ sess'.pc = "none")
      BY <1>5 DEF PauseDone, CancelDone, NoHalt, item, Released, TypeOK, Session
    <3> QED
      BY <2>3, <2>4, <3>1 DEF ExactInv, Outcome, BytesAtOwnOffset, Exact
  <2>6. CreateInv'
    BY <1>5, <2>3 DEF PauseDone, CancelDone, Released, TypeOK, Session, older, ExactInv, CreateInv
  <2> QED
    BY <2>1, <2>2, <2>3, <2>5, <2>6 DEF ExactInv, LoopInv, AttemptInv, Transferring
<1>6. CASE Cancel
  <2>1. sess'.pc = sess.pc /\ sess'.destroyed
    BY <1>6 DEF Cancel, TypeOK, Session
  <2>2. halt'.pc = "cancelClosing" /\ halt'.save = NoPartsFile /\ ~halt'.del
    BY <1>6 DEF Cancel, Plain
  <2>3. AllClaims'
    BY <1>0, <1>6, <2>2 DEF Cancel, item, disk, older, ExactInv, AllClaims
  <2>4. Outcome'
    BY <1>6, <2>1, <2>2 DEF Cancel, item, disk, ExactInv, Outcome, BytesAtOwnOffset, Exact, Halted
  <2> QED
    BY <1>6, <2>1, <2>2, <2>3, <2>4 DEF Cancel, item, disk, older, ExactInv, CreateInv, LoopInv, AttemptInv, Transferring, Halted
<1>7. CASE CancelRemovesParts
  <2>1. writers = {} /\ writers' = {}
    BY <1>7 DEF CancelRemovesParts, HandleClosed, WritesLanded, ExactInv, LoopInv
  <2>2. halt'.pc = "cancelRemoving" /\ halt'.save = halt.save /\ halt'.del = halt.del /\ Halted
    BY <1>7 DEF CancelRemovesParts, TypeOK, Halt, ExactInv, Outcome
  <2>3. AllClaims'
    BY <1>0, <1>7, <2>2 DEF CancelRemovesParts, item, disk, older, ExactInv, AllClaims
  <2>4. Outcome'
    BY <1>7, <2>2 DEF CancelRemovesParts, item, disk, ExactInv, Outcome, BytesAtOwnOffset, Exact, Halted
  <2> QED
    BY <1>7, <2>1, <2>2, <2>3, <2>4 DEF CancelRemovesParts, item, disk, older, ExactInv, CreateInv, LoopInv, AttemptInv, Transferring, Halted
<1> QED
  BY <1>1, <1>2, <1>3, <1>4, <1>5, <1>6, <1>7

\* What the manager and the system do around a transfer.
LEMMA OutsideKeepsExact ==
    ASSUME Plain, TypeInv, ExactInv, Retry \/ RemoveIdle \/ AddAgain \/ SaveState \/ Crash
    PROVE  ExactInv'
<1> USE DEF TypeInv
<1>1. CASE Retry \/ AddAgain
  <2>1. sess.pc # "running" /\ writers' = {} /\ status' = "queued"
        /\ parts' = FreshParts /\ listed'.parts = FreshParts
        /\ UNCHANGED <<disk, saved, saving, kept, sess, halt, xfer, late>>
    BY <1>1 DEF Retry, AddAgain, NoTask, Together
  <2> QED
    BY <2>1, FreshClaims DEF disk, ExactInv, AllClaims, CreateInv, older, Outcome, BytesAtOwnOffset, Exact, Halted,
                             LoopInv, AttemptInv, Transferring
<1>2. CASE RemoveIdle
  BY <1>2 DEF RemoveIdle, Plain
<1>3. CASE SaveState
  BY <1>3 DEF SaveState, ItemParts, item, disk, ExactInv, AllClaims, CreateInv, older, Outcome, BytesAtOwnOffset, Exact, Halted,
              LoopInv, AttemptInv, Transferring
<1>4. CASE Crash
  <2>1. saved'.parts \in {saved.parts, FreshParts, saving.parts, halt.save.parts}
    BY <1>4 DEF Crash, NoPartsFile
  <2>2. /\ parts' = kept.parts /\ saving'.parts = FreshParts /\ kept' = kept /\ file' = file
        /\ exists' = exists /\ halt'.save.parts = FreshParts /\ halt'.pc = "no" /\ ~halt'.del
        /\ sess'.pc = "none" /\ writers' = {} /\ listed'.parts = FreshParts
        /\ late' = [j \in 0..MaxStarts |-> "none"]
        /\ (status' = "completed" => kept.status = "completed")
    BY <1>4 DEF Crash, NoWrite, NoHalt, NoPartsFile, NoSession, Together, NoneLate, disk
  <2>3. AllClaims'
    BY <2>1, <2>2, FreshClaims DEF ExactInv, AllClaims
  <2>4. Outcome'
    BY <2>2 DEF ExactInv, Outcome, BytesAtOwnOffset, Exact
  <2>5. CreateInv'
    BY <2>2 DEF CreateInv
  <2> QED
    BY <2>2, <2>3, <2>4, <2>5 DEF ExactInv, LoopInv, AttemptInv, Transferring
<1> QED
  BY <1>1, <1>2, <1>3, <1>4

LEMMA ExactStep ==
    ASSUME Plain, TypeInv, ExactInv, [Next]_vars
    PROVE  ExactInv'
<1>1. CASE UNCHANGED vars
  BY <1>1 DEF vars, ExactInv, AllClaims, CreateInv, older, Outcome, BytesAtOwnOffset, Exact, Halted, LoopInv, AttemptInv, Transferring
<1>2. CASE Next
  BY <1>2, StartKeepsExact, HaltKeepsExact, OutsideKeepsExact, PartKeepsExact, LandKeepsExact, LateKeepsExact
  DEF Next, TaskStep
<1> QED
  BY <1>1, <1>2

LEMMA InitExact == Init => ExactInv
<1> SUFFICES ASSUME Init PROVE ExactInv
  OBVIOUS
<1>1. AllClaims
  BY FreshClaims DEF Init, AllClaims, NoPartsFile, NoWrite, NoHalt, Together
<1>2. Outcome
  BY DEF Init, Outcome, BytesAtOwnOffset, EmptyFile, NoHalt, NoPartsFile, NoSession
<1>3. CreateInv
  BY DEF Init, CreateInv, NoneLate, NoSession
<1> QED
  BY <1>1, <1>2, <1>3 DEF Init, ExactInv, LoopInv, AttemptInv, Transferring, NoSession

\* The strengthening of the two properties below.
LEMMA PlainInvariant == ASSUME Plain PROVE Spec => [](TypeInv /\ ExactInv)
<1>1. Init => TypeInv /\ ExactInv
  BY InitExact, TypeInit
<1>2. TypeInv /\ ExactInv /\ [Next]_vars => (TypeInv /\ ExactInv)'
  BY Plain, TypeStep, ExactStep
<1> QED
  BY <1>1, <1>2, PTL DEF Spec

\* A plain download reported as completed is the source, byte for byte,
\* however it was split, retried, paused, cancelled, resumed or restarted
\* (DownloadTask.ts, start to cancel).
THEOREM PlainIsExact == ASSUME Plain PROVE Spec => []CompletedFileIsExact
<1>1. ExactInv => CompletedFileIsExact
  BY DEF ExactInv, Outcome, Exact, CompletedFileIsExact
<1> QED
  BY <1>1, PlainInvariant, PTL

\* The parts file of a plain transfer claims only bytes on disk, whichever of
\* the timer's and the pause's writes landed last (persistParts).
THEOREM PlainProgress == ASSUME Plain PROVE Spec => []SavedProgressIsWritten
<1>1. TypeInv /\ ExactInv => SavedProgressIsWritten
  <2>1. \A p \in Parts : From(p) \in Nat
    BY Layout
  <2>2. \A o \in Offsets : o \in Int
    BY SizeAssumption DEF Offsets
  <2>3. TypeInv => \A p \in Parts : saved.parts[p].cur \in Nat
    BY DEF TypeInv, TypeOK, PartsArray, PartState
  <2> QED
    BY <2>1, <2>2, <2>3 DEF ExactInv, AllClaims, Claims, SavedProgressIsWritten
<1> QED
  BY <1>1, PlainInvariant, PTL

-----------------------------------------------------------------------------
(* Nothing is written at rest *)

Pending(w) == w.pc = "write" /\ w.hit

\* The handle is open only while the parts are transferred, a stop that is on its
\* way has been seen, and whoever ends the task has awaited the close of its
\* handle, and with it the writes pending on it.
RestInv ==
    /\ sess.handle => sess.pc = "running"
    /\ halt.pc # "no" => Halted
    /\ halt.pc \in {"closing", "cancelClosing", "cancelRemoving"} => ~sess.handle
    /\ \A w \in writers : Pending(w) =>
          sess.pc \in {"closing", "failing"} \/ (sess.pc = "running" /\ halt.pc # "cancelRemoving")

\* The chunk loops: a write is pending only on an open handle,
LEMMA LoopsRest ==
    ASSUME TypeOK, RestInv, NEW w \in writers, Grant(w) \/ Land(w) \/ WriteFails(w)
    PROVE  RestInv'
<1>1. UNCHANGED <<sess, halt>>
  BY DEF Grant, Land, WriteFails
<1>2. \A v \in writers' : Pending(v) => v \in writers \/ sess.handle
  <2>1. CASE Grant(w)
    <3>1. PICK k \in 1..w.left : writers' = (writers \ {w}) \cup {Writing(w, k)}
      BY <2>1 DEF Grant
    <3>2. w \in Writer
      BY DEF TypeOK
    <3>3. Writing(w, k).hit => sess.handle
      BY <3>2 DEF Writing, Writer
    <3> QED
      BY <3>1, <3>3 DEF Pending
  <2>2. CASE Land(w)
    <3>1. ~Pending(NextSlice(w))
      BY DEF Pending, NextSlice, Loop
    <3> QED
      BY <2>2, <3>1 DEF Land
  <2>3. CASE WriteFails(w)
    BY <2>3 DEF WriteFails
  <2> QED
    BY <2>1, <2>2, <2>3
<1> QED
  BY <1>1, <1>2 DEF RestInv, Halted

\* and that is only while nobody has begun to end the task.
LEMMA PartsRest ==
    ASSUME TypeOK, RestInv, NEW p \in Parts, PartStep(p)
    PROVE  RestInv'
<1>1. /\ Transferring /\ halt' = halt /\ (Halted' <=> Halted)
      /\ sess'.handle = sess.handle /\ sess'.pc = sess.pc
  BY DEF PartStep, Attempt_, Respond, RequestFails, Redirect, Data, End, ResponseFails,
         RequestErrors, RetryOrFail, Fail, TypeOK, Session, Halted
<1>2. \A v \in writers' : v \in writers \/ (sess.pc = "running" /\ halt.pc = "no")
  BY <1>1 DEF RestInv, Transferring, PartStep, Attempt_, Respond, RequestFails, Redirect, End,
              ResponseFails, RequestErrors
<1> QED
  BY <1>1, <1>2 DEF RestInv

\* start() and the ends of a task:
LEMMA SessionRests ==
    ASSUME TypeOK, RestInv,
           \/ Start \/ LoadParts \/ LookForFile \/ OpenFile \/ Join \/ CloseFile \/ RemovePartsFile
           \/ Pause \/ PauseSaves \/ PauseDone \/ Cancel \/ CancelRemovesParts \/ CancelDone
    PROVE  RestInv'
<1> USE DEF TypeOK, older, RestInv, Pending, Session, Halt
<1>1. CASE Start
  <2>1. \A w \in writers : ~Pending(w)
    BY <1>1 DEF Start, NoTask, WritesLanded
  <2>2. \A w \in writers' : ~Pending(w)
    <3>1. \A w \in writers, t \in {"current", "stopped", "ended"} : ~Pending([w EXCEPT !.task = t])
      BY <2>1 DEF Writer
    <3>2. \A w \in writers : w.task \in {"current", "stopped", "ended"}
      BY DEF Writer
    <3>3. \A v \in writers' : \E w \in writers, t \in {"current", "stopped", "ended"} : v = [w EXCEPT !.task = t]
      BY <1>1, <3>2 DEF Start
    <3>4. ASSUME NEW v \in writers' PROVE ~Pending(v)
      <4>1. PICK w \in writers, t \in {"current", "stopped", "ended"} : v = [w EXCEPT !.task = t]
        BY <3>3
      <4> QED
        BY <3>1, <4>1
    <3> QED
      BY <3>4
  <2> QED
    BY <1>1, <2>2 DEF Start, NoTask, NoSession, Halted
<1>2. CASE LoadParts \/ LookForFile
  BY <1>2 DEF LoadParts, LookForFile, Halted
<1>3. CASE OpenFile
  BY <1>3 DEF OpenFile, BeginFinish, Halted
<1>4. CASE Join
  BY <1>4 DEF Join, BeginFinish, Halted, Transferring
<1>5. CASE CloseFile \/ RemovePartsFile
  BY <1>5 DEF CloseFile, RemovePartsFile, WritesLanded, Halted
<1>6. CASE Pause
  BY <1>6 DEF Pause, Halted
<1>10. CASE PauseSaves
  BY <1>10 DEF PauseSaves, Halted
<1>7. CASE PauseDone \/ CancelDone
  BY <1>7 DEF PauseDone, CancelDone, Released, NoHalt, HandleClosed, WritesLanded, Halted
<1>8. CASE Cancel
  BY <1>8 DEF Cancel, Halted
<1>9. CASE CancelRemovesParts
  BY <1>9 DEF CancelRemovesParts, HandleClosed, WritesLanded, Halted
<1> QED
  BY <1>1, <1>2, <1>3, <1>4, <1>5, <1>6, <1>7, <1>8, <1>9, <1>10

\* Together:
LEMMA RestStep ==
    ASSUME TypeOK, RestInv, [Next]_vars
    PROVE  RestInv'
<1>1. CASE \E p \in Parts : PartStep(p)
  BY <1>1, PartsRest
<1>2. CASE \E w \in writers : Grant(w) \/ Land(w) \/ WriteFails(w)
  BY <1>2, LoopsRest
<1>3. CASE UNCHANGED <<sess, halt>> /\ writers' \subseteq writers
  BY <1>3 DEF RestInv, Halted
<1>4. CASE TimerTick \/ SaveLands \/ RemoveIdle \/ SaveState \/ UNCHANGED vars
  BY <1>3, <1>4 DEF TimerTick, SaveLands, RemoveIdle, SaveState, vars
<1>5. CASE Retry \/ AddAgain
  BY <1>3, <1>5 DEF Retry, AddAgain
<1>6. CASE Crash
  BY <1>6 DEF Crash, RestInv, NoSession, NoHalt
<1>7. CASE \E i \in DOMAIN late : LateLoad(i) \/ LateLook(i) \/ LateCreate(i) \/ LateEnd(i)
  BY <1>3, <1>7 DEF LateLoad, LateLook, LateCreate, LateEnd
<1> QED
  BY <1>1, <1>2, <1>4, <1>5, <1>6, <1>7, SessionRests DEF Next, TaskStep

\* QuietAtRest, for every size, layout, fault and operation: once a pause, a
\* cancellation, an error or completion is reported, no chunk loop that is still
\* alive writes to the download (closeFileHandle awaits what is pending).
THEOREM RestIsQuiet == Spec => QuietAtRest
<1>1. Init => RestInv
  BY DEF Init, RestInv, NoSession, NoHalt
<1>2. TypeInv /\ RestInv /\ [Next]_vars => TypeInv' /\ RestInv'
  BY TypeStep, RestStep DEF TypeInv
<1>3. TypeInv /\ RestInv /\ [Next]_vars => [file' # file => ~Rest \/ ~exists']_vars
  <2> SUFFICES ASSUME TypeOK, RestInv, Next, Rest, file' # file PROVE ~exists'
    BY DEF TypeInv
  <2>1. CASE RemoveIdle
    BY <2>1 DEF RemoveIdle
  <2>2. ASSUME NEW w \in writers, Grant(w) \/ Land(w) \/ WriteFails(w) PROVE FALSE
    <3>1. ~Pending(w)
      BY DEF RestInv, Rest
    <3>2. CASE Land(w)
      <4>1. ~w.hit
        BY <3>1, <3>2 DEF Land, Pending
      <4>2. file' = [o \in Offsets |-> file[o]]
        BY <3>2, <4>1 DEF Land
      <4> QED
        BY <4>2 DEF TypeOK
    <3> QED
      BY <2>2, <3>2 DEF Grant, WriteFails, disk
  <2>3. ASSUME NEW p \in Parts, PartStep(p) PROVE FALSE
    BY <2>3 DEF PartStep, Attempt_, Respond, RequestFails, Redirect, Data, End, ResponseFails,
                RequestErrors, Transferring, Rest
  <2>4. CASE \/ LoadParts \/ LookForFile \/ OpenFile \/ Join \/ CloseFile \/ RemovePartsFile
             \/ PauseSaves \/ PauseDone \/ CancelRemovesParts \/ CancelDone
    BY <2>4 DEF LoadParts, LookForFile, OpenFile, Join, CloseFile, RemovePartsFile, PauseSaves, PauseDone,
                CancelRemovesParts, CancelDone, Rest, Transferring
  <2>5. CASE \/ Start \/ TimerTick \/ SaveLands \/ Pause \/ Cancel \/ Retry \/ AddAgain
             \/ SaveState \/ Crash
    BY <2>5 DEF Start, TimerTick, SaveLands, Pause, Cancel, Retry, AddAgain, SaveState, Crash, disk
  <2>6. ASSUME NEW i \in DOMAIN late, LateLoad(i) \/ LateLook(i) \/ LateCreate(i) \/ LateEnd(i) PROVE FALSE
    BY <2>6 DEF LateLoad, LateLook, LateCreate, LateEnd, Rest, NoneLate
  <2> QED
    BY <2>1, <2>2, <2>3, <2>4, <2>5, <2>6 DEF Next, TaskStep
<1>4. Spec => [](TypeInv /\ RestInv)
  BY <1>1, <1>2, TypeInit, PTL DEF Spec
<1> QED
  BY <1>3, <1>4, PTL DEF Spec, QuietAtRest

-----------------------------------------------------------------------------
(* Bytes at their own offset *)

\* The transfers the theorem is about: every fault but a request's own error and a
\* failing write; behind a speed limit, parts files that are not lost, and neither
\* removed by an earlier start() nor by a cancellation.
Ranged ==
    /\ ResumeSupport /\ "reset" \notin Faults /\ "writeError" \notin Faults
    /\ Limited => /\ "noPartsFile" \notin Faults /\ "lateEnd" \notin Faults
                  /\ "cancel" \notin UserOps

\* A chunk loop of the session that runs.
Current(w) == w.task = "current"

\* The only loop of a part that can still write takes its bytes from the offset
\* the part has reached, and was told to write them there.
Aligned ==
    /\ \A w \in writers : Current(w) =>
          w.src = parts[w.part].cur /\ (w.pc = "write" => w.pos = w.src)
    /\ \A w \in writers : Pending(w) => Current(w)
    /\ \A v, w \in writers : (Current(v) <=> Current(w)) /\ (Current(v) /\ v.part = w.part => v = w)

\* The response of a part is ahead of that offset by what its loop has left, and
\* level with it when no loop is alive.
Streams ==
    Transferring =>
        /\ \A w \in writers : /\ Current(w) /\ xfer[w.part].pc = "body"
                              /\ w.retries = xfer[w.part].retries
                              /\ xfer[w.part].src = w.src + w.left
        /\ \A p \in Parts : xfer[p].pc = "body" /\ (\A w \in writers : w.part # p) =>
              xfer[p].src = parts[p].cur

\* What a loop of an earlier session still adds to a part is forgotten: the next
\* session reads the parts file, or there is none.
Superseded ==
    \/ halt.pc = "saving" /\ halt.save.ok
    \/ halt.pc = "closing" /\ saved.ok
    \/ halt.pc \in {"cancelClosing", "cancelRemoving"} /\ halt.op = "remove"
    \/ halt.pc = "no" /\ saved.ok
    \/ halt.pc = "no" /\ status = "removed" /\ (Halted \/ sess.pc = "none")

\* Such loops are left only by a stop, never by an end, and without a limit
\* only with their last write pending.
Left ==
    /\ sess.pc = "running" /\ ~Halted => sess.handle
    /\ sess.pc \in {"opening", "creating", "running"} /\ ~Halted => laid
    /\ writers # {} => laid /\ sess.pc \in {"none", "loading", "running"}
    /\ writers # {} /\ ~Transferring /\ Limited => Superseded
    /\ ~Limited => \A w \in writers : Pending(w) /\ w.len = w.left

\* The inductive invariant.
OffsetInv == BytesAtOwnOffset /\ Aligned /\ Streams /\ Left

\* Loops stay aligned while neither they nor their parts advance.
LEMMA SameLoops ==
    ASSUME TypeInv, Aligned, UNCHANGED writers,
           \A w \in writers : parts'[w.part].cur = parts[w.part].cur
    PROVE  Aligned'
BY DEF Aligned, Current, Pending

\* A step of a part without a loop, which gets a body only at its own offset.
LEMMA PartWithoutLoop ==
    ASSUME TypeInv, RestInv, OffsetInv, Transferring, NEW p \in Parts,
           UNCHANGED <<laid, halt, saved, status, file, writers>>,
           sess'.pc = sess.pc, sess'.handle = sess.handle, Halted' <=> Halted,
           \A w \in writers : w.part # p,
           \A q \in Parts : parts'[q].cur = parts[q].cur /\ (q # p => xfer'[q] = xfer[q]),
           xfer'[p].pc = "body" => xfer'[p].src = parts[p].cur
    PROVE  OffsetInv'
<1>1. Aligned'
  <2>1. \A w \in writers : w.part \in Parts
    BY DEF TypeInv, TypeOK, Writer
  <2> QED
    BY <2>1, SameLoops DEF OffsetInv
<1>2. Streams'
  <2>1. \A w \in writers : w.part \in Parts /\ w.part # p
    BY DEF TypeInv, TypeOK, Writer
  <2> QED
    BY <2>1 DEF OffsetInv, Streams, Transferring, Current
<1>3. Left' /\ BytesAtOwnOffset'
  BY DEF OffsetInv, Left, Superseded, Transferring, BytesAtOwnOffset, Pending
<1> QED
  BY <1>1, <1>2, <1>3 DEF OffsetInv

\* A part without a body, or whose body waits for no loop, has none.
LEMMA IdlePart ==
    ASSUME TypeInv, OffsetInv, Transferring, NEW p \in Parts, xfer[p].pc # "body" \/ Busy(p) = {}
    PROVE  \A w \in writers : w.part # p
BY DEF OffsetInv, Streams, Busy, Current

\* Each 'data' event gives its part a loop that starts where the part is.
LEMMA DataOffsets ==
    ASSUME TypeInv, RestInv, OffsetInv, Ranged, NEW p \in Parts, Data(p)
    PROVE  OffsetInv'
<1>1. PICK n \in 1..Lesser(ChunkMax, xfer[p].left) :
        /\ xfer' = [xfer EXCEPT ![p] = Taken(@, n)]
        /\ writers' = writers \cup
             {LET loop == Loop(p, xfer[p].retries, "current", xfer[p].src, n)
              IN  IF Limited THEN loop ELSE Writing(loop, n)}
  BY DEF Data
<1> DEFINE loop == Loop(p, xfer[p].retries, "current", xfer[p].src, n)
           new == IF Limited THEN loop ELSE Writing(loop, n)
<1>2. xfer[p] \in Attempt /\ n \in Nat
  BY DEF TypeInv, TypeOK
<1>3. /\ Transferring /\ xfer[p].pc = "body" /\ sess.handle
      /\ UNCHANGED <<status, laid, parts, file, saved, sess, halt>>
  BY DEF Data, OffsetInv, Left, Transferring, item, disk
<1>4. \A w \in writers : w.part # p
  BY <1>3, IdlePart DEF Data
<1>5. xfer[p].src = parts[p].cur
  BY <1>3, <1>4 DEF OffsetInv, Streams
<1>6. /\ new.part = p /\ new.retries = xfer[p].retries /\ new.task = "current"
      /\ new.src = xfer[p].src /\ new.left = n
      /\ new.pc = "write" => new.pos = parts[p].cur
      /\ ~Limited => new.pc = "write" /\ new.hit /\ new.len = n
  BY <1>3 DEF Loop, Writing
<1>7. writers' = writers \cup {new}
  BY <1>1
<1>8. /\ xfer'[p].pc = "body" /\ xfer'[p].retries = xfer[p].retries
      /\ xfer'[p].src = xfer[p].src + n
      /\ \A q \in Parts : q # p => xfer'[q] = xfer[q]
  BY <1>1, <1>2, <1>3 DEF Taken, TypeInv, TypeOK, Attempt
<1> HIDE DEF new, loop
<1>9. Aligned'
  BY <1>3, <1>4, <1>5, <1>6, <1>7 DEF OffsetInv, Aligned, Streams, Current, Pending
<1>10. Streams'
  <2>1. \A w \in writers : w.part \in Parts
    BY DEF TypeInv, TypeOK, Writer
  <2>2. ASSUME NEW w \in writers' 
        PROVE  /\ Current(w) /\ xfer'[w.part].pc = "body" /\ w.retries = xfer'[w.part].retries
               /\ xfer'[w.part].src = w.src + w.left
    <3>1. CASE w = new
      BY <1>6, <1>8, <1>3, <3>1 DEF Current
    <3>2. CASE w \in writers
      BY <1>3, <1>4, <1>8, <2>1, <3>2 DEF OffsetInv, Streams, Current
    <3> QED
      BY <1>7, <3>1, <3>2
  <2>3. ASSUME NEW q \in Parts, xfer'[q].pc = "body", \A w \in writers' : w.part # q
        PROVE  xfer'[q].src = parts[q].cur
    <3>1. q # p
      BY <1>6, <1>7, <2>3
    <3> QED
      BY <1>3, <1>7, <1>8, <2>3, <3>1 DEF OffsetInv, Streams
  <2> QED
    BY <1>3, <2>2, <2>3 DEF Streams
<1>11. Left'
  <2>1. laid /\ sess.pc = "running" /\ ~Halted /\ Transferring'
    BY <1>3 DEF OffsetInv, Left, Transferring, Halted
  <2> QED
    BY <1>3, <1>6, <1>7, <2>1 DEF OffsetInv, Left, Pending, Halted
<1> QED
  BY <1>3, <1>9, <1>10, <1>11 DEF OffsetInv, BytesAtOwnOffset

\* A part that fails, or is to be tried again, has no body, and its progress is kept.
LEMMA FailParts ==
    ASSUME TypeInv, NEW p \in Parts, Fail(p) \/ RetryOrFail(p)
    PROVE  /\ sess'.pc = sess.pc /\ sess'.handle = sess.handle /\ (Halted' <=> Halted)
           /\ \A q \in Parts : parts'[q].cur = parts[q].cur /\ (q # p => xfer'[q] = xfer[q])
           /\ xfer'[p].pc # "body"
<1>1. /\ sess \in Session /\ parts \in [Parts -> PartState] /\ xfer \in [Parts -> Attempt]
      /\ parts[p] \in PartState /\ xfer[p] \in Attempt
  BY DEF TypeInv, TypeOK, PartsArray
<1>2. CASE Fail(p)
  <2>1. sess'.pc = sess.pc /\ sess'.handle = sess.handle /\ (Halted' <=> Halted)
    BY <1>1, <1>2 DEF Fail, Halted, Session
  <2>2. \A q \in Parts : parts'[q].cur = parts[q].cur
    BY <1>1, <1>2 DEF Fail, PartState
  <2>3. xfer'[p].pc # "body" /\ \A q \in Parts : q # p => xfer'[q] = xfer[q]
    BY <1>1, <1>2 DEF Fail, NoAttempt
  <2> QED
    BY <2>1, <2>2, <2>3
<1>3. CASE xfer' = [xfer EXCEPT ![p] = Retried(@)] /\ UNCHANGED <<sess, parts>>
  <2>1. Retried(xfer[p]).pc = "backoff"
    BY <1>1 DEF Retried, Attempt
  <2> QED
    BY <1>1, <1>3, <2>1 DEF Halted
<1> QED
  BY <1>2, <1>3 DEF RetryOrFail

\* The requests and responses of the parts:
LEMMA PartOffsets ==
    ASSUME TypeInv, RestInv, OffsetInv, Ranged, NEW p \in Parts, PartStep(p)
    PROVE  OffsetInv'
<1>0. /\ \A q \in Parts : parts[q] \in PartState /\ xfer[q] \in Attempt
      /\ parts \in [Parts -> PartState] /\ xfer \in [Parts -> Attempt] /\ sess \in Session
  BY DEF TypeInv, TypeOK, PartsArray
<1>1. CASE Data(p)
  BY <1>1, DataOffsets
<1>2. ASSUME Transferring, \A w \in writers : w.part # p,
             UNCHANGED <<laid, halt, saved, status, file, writers>>, RetryOrFail(p)
      PROVE  OffsetInv'
  BY <1>2, FailParts, PartWithoutLoop
<1>3. CASE Attempt_(p) \/ Respond(p)
  <2>1. /\ Transferring /\ xfer[p].pc # "body"
        /\ UNCHANGED <<laid, halt, saved, status, file, writers, parts, sess>>
    BY <1>3 DEF Attempt_, Respond, item, disk
  <2>2. /\ \A q \in Parts : q # p => xfer'[q] = xfer[q]
        /\ xfer'[p].pc = "body" => xfer'[p].src = parts[p].cur
    <3>1. CASE Attempt_(p)
      <4>1. Request(p, xfer[p].retries, xfer[p].redirects).pc # "body"
        BY DEF Request
      <4> QED
        BY <1>0, <3>1, <4>1 DEF Attempt_
    <3>2. CASE Respond(p)
      <4>1. PICK n \in BodyLengths(p) : xfer' = [xfer EXCEPT ![p] = Answered(@, parts[p].cur, n)]
        BY <3>2 DEF Respond, Ranged
      <4>2. Answered(xfer[p], parts[p].cur, n).src = parts[p].cur
        BY <1>0 DEF Answered, Attempt
      <4> QED
        BY <1>0, <4>1, <4>2
    <3> QED
      BY <1>3, <3>1, <3>2
  <2> QED
    BY <2>1, <2>2, IdlePart, PartWithoutLoop DEF Halted
<1>4. CASE RequestFails(p)
  BY <1>2, <1>4, IdlePart DEF RequestFails, disk
<1>5. CASE Redirect(p)
  <2>1. /\ Transferring /\ xfer[p].pc # "body"
        /\ UNCHANGED <<laid, halt, saved, status, file, writers>>
    BY <1>5 DEF Redirect, disk
  <2>2. CASE xfer' = [xfer EXCEPT ![p] = Redirected(@, parts[p].cur)] /\ UNCHANGED <<sess, parts>>
    <3>1. Redirected(xfer[p], parts[p].cur).pc = xfer[p].pc
      BY <1>0 DEF Redirected, Attempt
    <3>2. xfer'[p].pc # "body" /\ \A q \in Parts : q # p => xfer'[q] = xfer[q]
      BY <1>0, <2>1, <2>2, <3>1
    <3> QED
      BY <2>1, <2>2, <3>2, IdlePart, PartWithoutLoop DEF Halted
  <2> QED
    BY <1>5, <2>1, <2>2, FailParts, IdlePart, PartWithoutLoop DEF Redirect
<1>6. CASE End(p)
  <2>1. /\ Transferring /\ Busy(p) = {}
        /\ UNCHANGED <<laid, halt, saved, status, file, writers>>
    BY <1>6 DEF End, disk
  <2>2. CASE RetryOrFail(p)
    BY <1>2, <2>1, <2>2, IdlePart
  <2>3. CASE /\ parts' = [parts EXCEPT ![p].done = TRUE]
             /\ xfer' = [xfer EXCEPT ![p] = NoAttempt]
             /\ UNCHANGED sess
    <3>1. /\ \A q \in Parts : parts'[q].cur = parts[q].cur /\ (q # p => xfer'[q] = xfer[q])
          /\ xfer'[p].pc # "body"
      BY <1>0, <2>3 DEF PartState, NoAttempt
    <3> QED
      BY <2>1, <2>3, <3>1, IdlePart, PartWithoutLoop DEF Halted
  <2> QED
    BY <1>6, <2>2, <2>3 DEF End
<1>7. CASE ResponseFails(p)
  BY <1>2, <1>7, IdlePart DEF ResponseFails, disk
<1>8. CASE RequestErrors(p)
  BY <1>8 DEF RequestErrors, Ranged
<1> QED
  BY <1>1, <1>3, <1>4, <1>5, <1>6, <1>7, <1>8 DEF PartStep

\* A slice that lands advances its loop and its part together,
LEMMA LandOffsets ==
    ASSUME TypeInv, RestInv, OffsetInv, Ranged, NEW w \in writers, Land(w)
    PROVE  OffsetInv'
<1> DEFINE goes == ~(w.left = w.len \/ StoppedFor(w))
           next == NextSlice(w)
<1>1. /\ w \in Writer /\ w.part \in Parts /\ w.len \in Nat /\ w.src \in Nat /\ w.pos \in Nat
      /\ w.left \in Nat /\ w.len <= w.left
      /\ \A v \in writers : v.part \in Parts
  BY DEF TypeInv, TypeOK, SliceInChunk, Writer
<1>2. /\ w.pc = "write" /\ UNCHANGED <<status, laid, saved, sess, halt, xfer>>
      /\ writers' = (writers \ {w}) \cup (IF goes THEN {next} ELSE {})
  BY DEF Land
<1>3. /\ \A q \in Parts : q # w.part => parts'[q] = parts[q]
      /\ parts'[w.part].cur = parts[w.part].cur + w.len
  BY <1>1 DEF Land, TypeInv, TypeOK, PartsArray, PartState
<1>4. /\ next.part = w.part /\ next.retries = w.retries /\ next.task = w.task
      /\ next.src = w.src + w.len /\ next.left = w.left - w.len /\ next.pc = "acquire"
  BY DEF NextSlice, Loop
<1>5. BytesAtOwnOffset'
  <2>1. w.hit => w.pos = w.src
    BY <1>2 DEF OffsetInv, Aligned, Pending
  <2>2. ASSUME NEW o \in Offsets PROVE file'[o] \in {o, Hole}
    <3>1. o \in Int /\ file[o] \in {o, Hole}
      BY SizeAssumption DEF Offsets, OffsetInv, BytesAtOwnOffset
    <3>2. file'[o] = IF w.hit /\ o \in w.pos..(w.pos + w.len - 1) THEN w.src + (o - w.pos) ELSE file[o]
      BY DEF Land
    <3> QED
      BY <1>1, <2>1, <3>1, <3>2
  <2> QED
    BY <2>2 DEF BytesAtOwnOffset
<1> HIDE DEF next, goes
<1>6. Aligned'
  <2>1. ASSUME NEW v \in writers', Current(v)
        PROVE  /\ v.src = parts'[v.part].cur
               /\ v.pc = "write" => v.pos = v.src
    <3>1. CASE v \in writers /\ v # w
      <4>1. v.part # w.part
        BY <2>1, <3>1 DEF OffsetInv, Aligned
      <4> QED
        BY <1>1, <1>3, <2>1, <3>1, <4>1 DEF OffsetInv, Aligned
    <3>2. CASE v = next
      <4>1. Current(w)
        BY <1>4, <2>1, <3>2 DEF Current
      <4>2. w.src = parts[w.part].cur
        BY <4>1 DEF OffsetInv, Aligned
      <4> QED
        BY <1>3, <1>4, <3>2, <4>2
    <3> QED
      BY <1>2, <3>1, <3>2
  <2>2. \A v \in writers' : (v \in writers /\ v # w) \/ v = next
    BY <1>2
  <2>3. ~Pending(next) /\ (Current(next) <=> Current(w))
    BY <1>4 DEF Pending, Current
  <2>4. \A v \in writers' : Pending(v) => Current(v)
    BY <2>2, <2>3 DEF OffsetInv, Aligned
  <2>5. ASSUME NEW u \in writers', NEW v \in writers'
        PROVE  (Current(u) <=> Current(v)) /\ (Current(u) /\ u.part = v.part => u = v)
    <3>1. \A x \in writers : /\ (Current(x) <=> Current(w))
                             /\ x # w /\ Current(x) => x.part # w.part
      BY DEF OffsetInv, Aligned
    <3>2. CASE u = next \/ v = next
      BY <1>4, <2>2, <2>3, <3>1, <3>2
    <3>3. CASE u \in writers /\ v \in writers
      BY <3>3 DEF OffsetInv, Aligned
    <3> QED
      BY <2>2, <3>2, <3>3
  <2> QED
    BY <2>1, <2>4, <2>5 DEF Aligned
<1>7. Streams'
  <2> SUFFICES ASSUME Transferring PROVE Streams'
    BY <1>2 DEF Streams, Transferring, Halted
  <2>1. \A v \in writers : /\ Current(v) /\ xfer[v.part].pc = "body"
                           /\ v.retries = xfer[v.part].retries
                           /\ xfer[v.part].src = v.src + v.left
    BY DEF OffsetInv, Streams
  <2>2. \A v \in writers' : /\ Current(v) /\ xfer[v.part].pc = "body"
                            /\ v.retries = xfer[v.part].retries
                            /\ xfer[v.part].src = v.src + v.left
    <3>1. Current(next) /\ xfer[next.part].src = next.src + next.left
      BY <1>1, <1>4, <2>1 DEF Current
    <3> QED
      BY <1>2, <1>4, <2>1, <3>1
  <2>3. ASSUME NEW p \in Parts, xfer[p].pc = "body", \A v \in writers' : v.part # p
        PROVE  xfer[p].src = parts'[p].cur
    <3>1. CASE p # w.part
      <4>1. \A v \in writers : v.part # p
        BY <1>2, <2>3, <3>1
      <4> QED
        BY <1>3, <2>3, <3>1, <4>1 DEF OffsetInv, Streams
    <3>2. CASE p = w.part
      <4>1. ~goes
        BY <1>2, <1>4, <2>3, <3>2
      <4>2. w.left = w.len
        BY <2>1, <4>1 DEF goes, StoppedFor, Current, Transferring
      <4>3. w.src = parts[w.part].cur
        BY <2>1 DEF OffsetInv, Aligned
      <4> QED
        BY <1>3, <2>1, <3>2, <4>2, <4>3
    <3> QED
      BY <3>1, <3>2
  <2> QED
    BY <1>2, <2>2, <2>3 DEF Streams, Current
<1>8. Left'
  <2>1. writers # {} /\ (~Limited => writers' \subseteq writers)
    BY <1>2 DEF OffsetInv, Left, goes
  <2> QED
    BY <1>2, <2>1 DEF OffsetInv, Left, Superseded, Transferring, Halted, Pending
<1> QED
  BY <1>5, <1>6, <1>7, <1>8 DEF OffsetInv

\* and a slice that is granted is to be written where its part is.
LEMMA GrantOffsets ==
    ASSUME TypeInv, RestInv, OffsetInv, NEW w \in writers, Grant(w)
    PROVE  OffsetInv'
<1>1. PICK k \in 1..w.left : writers' = (writers \ {w}) \cup {Writing(w, k)}
  BY DEF Grant
<1> DEFINE new == Writing(w, k)
<1>2. w \in Writer /\ \A v \in writers : v.part \in Parts
  BY DEF TypeInv, TypeOK, Writer
<1>3. /\ new.part = w.part /\ new.retries = w.retries /\ new.task = w.task
      /\ new.src = w.src /\ new.left = w.left /\ new.pc = "write"
      /\ new.pos = parts[w.part].cur /\ (new.hit => w.task = "current")
  BY <1>2 DEF Writing, Writer
<1>4. /\ w.pc = "acquire" /\ writers' = (writers \ {w}) \cup {new}
      /\ UNCHANGED <<status, laid, parts, file, saved, sess, halt, xfer>>
  BY <1>1 DEF Grant, item, disk
<1> HIDE DEF new
<1>5. (Current(new) <=> Current(w)) /\ (Pending(new) => Current(new))
  BY <1>3 DEF Current, Pending
<1>6. Aligned'
  <2>1. ASSUME NEW v \in writers'
        PROVE  /\ Current(v) => v.src = parts'[v.part].cur /\ (v.pc = "write" => v.pos = v.src)
               /\ Pending(v) => Current(v)
    BY <1>3, <1>4, <1>5 DEF OffsetInv, Aligned
  <2>2. ASSUME NEW u \in writers', NEW v \in writers'
        PROVE  (Current(u) <=> Current(v)) /\ (Current(u) /\ u.part = v.part => u = v)
    <3>1. \A x \in writers : /\ (Current(x) <=> Current(w))
                             /\ x # w /\ Current(x) => x.part # w.part
      BY DEF OffsetInv, Aligned
    <3>2. CASE u = new \/ v = new
      BY <1>3, <1>4, <1>5, <3>1, <3>2
    <3>3. CASE u \in writers /\ v \in writers
      BY <3>3 DEF OffsetInv, Aligned
    <3> QED
      BY <1>4, <3>2, <3>3
  <2> QED
    BY <2>1, <2>2 DEF Aligned
<1>7. Streams'
  <2> SUFFICES ASSUME Transferring PROVE Streams'
    BY <1>4 DEF Streams, Transferring, Halted
  <2>1. \A v \in writers' : /\ Current(v) /\ xfer[v.part].pc = "body"
                            /\ v.retries = xfer[v.part].retries
                            /\ xfer[v.part].src = v.src + v.left
    BY <1>3, <1>4, <1>5 DEF OffsetInv, Streams
  <2>2. ASSUME NEW p \in Parts, \A v \in writers' : v.part # p PROVE \A v \in writers : v.part # p
    BY <1>3, <1>4, <2>2
  <2> QED
    BY <1>4, <2>1, <2>2 DEF OffsetInv, Streams, Current
<1>8. Left'
  <2>1. Limited
    BY <1>4 DEF OffsetInv, Left, Pending
  <2> QED
    BY <1>4, <2>1 DEF OffsetInv, Left, Superseded, Transferring, Halted
<1> QED
  BY <1>4, <1>6, <1>7, <1>8 DEF OffsetInv, BytesAtOwnOffset

\* Without a chunk loop there is little to keep.
LEMMA NoLoopOffsets ==
    ASSUME OffsetInv, writers' = {}, BytesAtOwnOffset',
           /\ sess'.pc = "running" /\ ~Halted' => sess'.handle
           /\ sess'.pc \in {"opening", "creating", "running"} /\ ~Halted' => laid'
           /\ Transferring' => \A p \in Parts : xfer'[p].pc # "body"
    PROVE  OffsetInv'
BY DEF OffsetInv, Aligned, Streams, Left

\* Nor where no transfer is left to mislead.
LEMMA SettledOffsets ==
    ASSUME TypeInv, OffsetInv, UNCHANGED <<writers, parts>>, BytesAtOwnOffset', ~Transferring', Left'
    PROVE  OffsetInv'
BY SameLoops DEF OffsetInv, Streams

\* A file that is kept or emptied.
LEMMA FileOffsets ==
    ASSUME BytesAtOwnOffset, file' \in {file, EmptyFile}
    PROVE  BytesAtOwnOffset'
BY DEF BytesAtOwnOffset, EmptyFile

\* start():
LEMMA StartOffsets ==
    ASSUME TypeInv, RestInv, OffsetInv, Start
    PROVE  OffsetInv'
<1>1. /\ NoTask /\ sess'.pc = "loading" /\ UNCHANGED <<laid, parts, file, saved, halt>>
      /\ status \notin {"removed"} /\ ~Transferring' /\ sess'.handle = FALSE
  BY DEF Start, NoSession, disk, Transferring
<1>2. \A w \in writers : ~Pending(w)
  BY <1>1 DEF RestInv, NoTask, WritesLanded, Pending
<1>3. \A w \in writers' : ~Pending(w) /\ ~Current(w)
  <2>1. ASSUME NEW w \in writers,
               NEW v, v = [w EXCEPT !.task = IF @ # "current" THEN @
                                             ELSE IF Halted THEN "stopped" ELSE "ended"]
        PROVE  ~Pending(v) /\ ~Current(v)
    <3>1. w \in Writer
      BY DEF TypeInv, TypeOK
    <3>2. v.pc = w.pc /\ v.hit = w.hit /\ v.task # "current"
      BY <2>1, <3>1 DEF Writer
    <3> QED
      BY <1>2, <3>2 DEF Pending, Current
  <2> QED
    BY <2>1 DEF Start
<1>4. Aligned'
  BY <1>3 DEF Aligned
<1>5. writers' # {} => writers # {}
  BY DEF Start
<1>6. Left'
  <2>1. ~Limited => writers = {}
    BY <1>2 DEF OffsetInv, Left
  <2>2. writers # {} /\ Limited => saved.ok
    BY <1>1 DEF OffsetInv, Left, Superseded, NoTask, Transferring
  <2> QED
    BY <1>1, <1>5, <2>1, <2>2 DEF OffsetInv, Left, Superseded, NoTask
<1> QED
  BY <1>1, <1>4, <1>6 DEF OffsetInv, Streams, BytesAtOwnOffset

\* A loop of an earlier task that could still advance the parts is left only
\* where the parts file replaces them, or where the task was stopped.
LEMMA LoadOffsets ==
    ASSUME TypeInv, RestInv, OffsetInv, LoadParts
    PROVE  OffsetInv'
<1>1. /\ sess.pc = "loading" /\ UNCHANGED <<status, file, saved, halt>> /\ (Halted' <=> Halted)
      /\ sess'.pc = (IF Halted THEN "none" ELSE "opening") /\ ~Transferring'
      /\ sess'.handle = sess.handle /\ laid' = (laid \/ saved.ok \/ ~Halted)
  BY DEF LoadParts, disk, Transferring, Halted, TypeInv, TypeOK, Session
<1>2. BytesAtOwnOffset'
  BY <1>1 DEF OffsetInv, BytesAtOwnOffset
<1>3. CASE writers' = {}
  BY <1>1, <1>2, <1>3, NoLoopOffsets
<1>4. CASE UNCHANGED <<parts, writers>>
  <2>1. CASE Halted
    <3>1. Left'
      BY <1>1, <1>4, <2>1 DEF OffsetInv, Left, Superseded, Transferring, Pending
    <3> QED
      BY <1>1, <1>2, <1>4, <3>1, SettledOffsets
  <2>2. CASE ~Halted
    <3>1. CASE writers = {}
      BY <1>3, <1>4, <3>1
    <3>2. CASE writers # {}
      <4>1. Limited
        BY <1>1, <3>2 DEF OffsetInv, Left, RestInv
      <4>2. saved.ok
        BY <1>1, <2>2, <3>2, <4>1 DEF OffsetInv, Left, Superseded, RestInv, Transferring
      <4> QED
        BY <1>3, <4>2 DEF LoadParts
    <3> QED
      BY <3>1, <3>2
  <2> QED
    BY <2>1, <2>2
<1> QED
  BY <1>3, <1>4 DEF LoadParts, ItemParts

\* open() and the first requests of a session that no earlier loop can reach,
LEMMA OpenOffsets ==
    ASSUME TypeInv, RestInv, OffsetInv, LookForFile \/ OpenFile
    PROVE  OffsetInv'
<1>1. /\ sess.pc \in {"opening", "creating"} /\ (~Halted => laid) /\ UNCHANGED <<laid, writers>>
      /\ file' \in {file, EmptyFile}
  BY DEF LookForFile, OpenFile, OffsetInv, Left, Opened, item, disk
<1>2. writers' = {}
  BY <1>1 DEF OffsetInv, Left
<1>3. BytesAtOwnOffset'
  BY <1>1, FileOffsets DEF OffsetInv
<1>4. sess \in Session
  BY DEF TypeInv, TypeOK
<1>5. CASE Halted /\ sess' = [sess EXCEPT !.pc = "none"]
  BY <1>1, <1>2, <1>3, <1>4, <1>5, NoLoopOffsets DEF Session, Transferring
<1>6. CASE /\ sess' = [sess EXCEPT !.pc = "running", !.handle = TRUE]
           /\ xfer' = [p \in Parts |-> IF parts[p].done THEN NoAttempt ELSE FirstAttempt(p)]
  <2>1. \A p \in Parts : xfer'[p].pc # "body"
    BY <1>6 DEF NoAttempt, FirstAttempt, Request
  <2> QED
    BY <1>1, <1>2, <1>3, <1>4, <1>6, <2>1, NoLoopOffsets DEF Session, Halted
<1>7. CASE BeginFinish(sess)
  BY <1>1, <1>2, <1>3, <1>4, <1>7, NoLoopOffsets DEF BeginFinish, Session, Transferring
<1>8. CASE LookForFile
  BY <1>1, <1>2, <1>3, <1>4, <1>8, NoLoopOffsets DEF LookForFile, item, Session, Transferring, Halted
<1> QED
  BY <1>5, <1>6, <1>7, <1>8 DEF OpenFile

\* an earlier start() that gives the item other parts leaves those of a running
\* transfer alone,
LEMMA LateOffsets ==
    ASSUME TypeInv, RestInv, OffsetInv, Ranged, NEW i \in DOMAIN late,
           LateLoad(i) \/ LateLook(i) \/ LateCreate(i) \/ LateEnd(i)
    PROVE  OffsetInv'
<1>1. UNCHANGED <<status, sess, halt, xfer>> /\ file' \in {file, EmptyFile}
  BY DEF LateLoad, LateLook, LateCreate, LateEnd, item, disk
<1>2. BytesAtOwnOffset'
  BY <1>1, FileOffsets DEF OffsetInv
<1>5. Limited => ~LateEnd(i)
  <2>1. late[i] \in LatePcs
    BY DEF TypeInv, TypeOK
  <2> QED
    BY <2>1 DEF LatePcs, LateEnd, Ranged
<1>6. Limited => UNCHANGED saved
  BY <1>5 DEF LateLoad, LateLook, LateCreate
<1>3. CASE UNCHANGED <<laid, parts, writers>>
  BY <1>1, <1>2, <1>3, <1>6 DEF OffsetInv, Aligned, Streams, Left, Superseded, Transferring, Halted, Current, Pending
<1>4. CASE writers' = {} /\ laid' /\ sess.pc # "running"
  BY <1>1, <1>2, <1>4, NoLoopOffsets DEF Transferring
<1> QED
  BY <1>3, <1>4 DEF LateLoad, LateLook, LateCreate, LateEnd, item

\* the ends of a transfer,
LEMMA EndOffsets ==
    ASSUME TypeInv, RestInv, OffsetInv, Join \/ CloseFile \/ RemovePartsFile
    PROVE  OffsetInv'
<1>1. UNCHANGED <<writers, file>> /\ sess'.pc \in {"failing", "closing", "removing", "none"}
  BY DEF Join, CloseFile, RemovePartsFile, BeginFinish, disk, TypeInv, TypeOK, Session
<1>2. writers = {}
  <2>1. CASE Join
    <3>1. \A w \in writers : w.part \in Parts
      BY DEF TypeInv, TypeOK, Writer
    <3> QED
      BY <2>1, <3>1 DEF Join, OffsetInv, Streams
  <2>2. CASE CloseFile \/ RemovePartsFile
    BY <2>2 DEF CloseFile, RemovePartsFile, OffsetInv, Left
  <2> QED
    BY <2>1, <2>2
<1> QED
  BY <1>1, <1>2, NoLoopOffsets DEF OffsetInv, BytesAtOwnOffset, Transferring

\* pauses,
LEMMA PauseOffsets ==
    ASSUME TypeInv, RestInv, OffsetInv, Ranged, Pause \/ PauseSaves \/ PauseDone
    PROVE  OffsetInv'
<1>1. /\ UNCHANGED <<writers, parts, laid, file>> /\ Halted' /\ sess \in Session /\ halt \in Halt
      /\ BytesAtOwnOffset'
  BY DEF Pause, PauseSaves, PauseDone, Released, disk, item, RestInv, Halted, TypeInv, TypeOK, Session,
         OffsetInv, BytesAtOwnOffset
<1>2. ~Transferring'
  BY <1>1 DEF Transferring
<1>3. sess'.pc = sess.pc \/ sess'.pc = "none"
  BY <1>1 DEF Pause, PauseSaves, PauseDone, Released, Session
<1>4. writers # {} /\ Limited => Superseded'
  <2> SUFFICES ASSUME writers # {}, Limited PROVE Superseded'
    OBVIOUS
  <2>1. CASE Pause
    BY <1>1, <2>1 DEF Pause, OffsetInv, Left, Superseded
  <2>2. CASE PauseSaves
    <3>1. halt.pc = "saving" /\ ~Transferring
      BY <2>2 DEF PauseSaves, RestInv, Transferring
    <3>2. halt.save.ok
      BY <3>1 DEF OffsetInv, Left, Superseded
    <3>3. saved' = halt.save /\ halt'.pc = "closing"
      BY <1>1, <2>2 DEF PauseSaves, Ranged, Halt
    <3> QED
      BY <3>2, <3>3 DEF Superseded
  <2>3. CASE PauseDone
    <3>1. halt.pc = "closing" /\ ~Transferring /\ UNCHANGED saved /\ halt'.pc = "no"
      BY <2>3 DEF PauseDone, RestInv, Transferring, NoHalt
    <3> QED
      BY <3>1 DEF OffsetInv, Left, Superseded
  <2> QED
    BY <2>1, <2>2, <2>3
<1>5. Left'
  BY <1>1, <1>3, <1>4 DEF OffsetInv, Left, Pending
<1> QED
  BY <1>1, <1>2, <1>5, SettledOffsets

\* cancellations and removals,
LEMMA CancelOffsets ==
    ASSUME TypeInv, RestInv, OffsetInv, Ranged, Cancel \/ CancelRemovesParts \/ CancelDone
    PROVE  OffsetInv'
<1>1. /\ UNCHANGED <<writers, parts, laid>> /\ Halted' /\ sess \in Session /\ halt \in Halt
      /\ file' \in {file, EmptyFile}
  BY DEF Cancel, CancelRemovesParts, CancelDone, Released, disk, item, RestInv, Halted, TypeInv, TypeOK,
         Session
<1>2. ~Transferring' /\ BytesAtOwnOffset'
  BY <1>1, FileOffsets DEF Transferring, OffsetInv
<1>3. sess'.pc = sess.pc \/ sess'.pc = "none"
  BY <1>1 DEF Cancel, CancelRemovesParts, CancelDone, Released, Session
<1>4. writers # {} /\ Limited => Superseded'
  <2> SUFFICES ASSUME writers # {}, Limited PROVE Superseded'
    OBVIOUS
  <2>1. CASE Cancel
    BY <2>1 DEF Cancel, Ranged, Superseded
  <2>2. CASE CancelRemovesParts
    <3>1. halt.pc = "cancelClosing" /\ ~Transferring /\ halt'.pc = "cancelRemoving" /\ halt'.op = halt.op
      BY <1>1, <2>2 DEF CancelRemovesParts, RestInv, Transferring, Halt
    <3> QED
      BY <3>1 DEF OffsetInv, Left, Superseded
  <2>3. CASE CancelDone
    <3>1. halt.pc = "cancelRemoving" /\ ~Transferring /\ halt'.pc = "no"
      BY <2>3 DEF CancelDone, RestInv, Transferring, NoHalt
    <3>2. halt.op = "remove"
      BY <3>1 DEF OffsetInv, Left, Superseded
    <3> QED
      BY <1>1, <2>3, <3>1, <3>2 DEF CancelDone, Superseded
  <2> QED
    BY <2>1, <2>2, <2>3
<1>5. Left'
  BY <1>1, <1>3, <1>4 DEF OffsetInv, Left, Pending
<1> QED
  BY <1>1, <1>2, <1>5, SettledOffsets

\* and what happens around a transfer.
LEMMA OutsideOffsets ==
    ASSUME TypeInv, RestInv, OffsetInv, Ranged,
           \/ TimerTick \/ SaveLands \/ Retry \/ RemoveIdle \/ AddAgain \/ SaveState \/ Crash
           \/ UNCHANGED vars
    PROVE  OffsetInv'
<1>1. CASE TimerTick \/ SaveState \/ UNCHANGED vars
  <2>1. UNCHANGED <<status, laid, parts, file, saved, sess, halt, xfer, writers>>
    BY <1>1 DEF TimerTick, SaveState, vars, item, disk
  <2> QED
    BY <2>1 DEF OffsetInv, BytesAtOwnOffset, Aligned, Streams, Left, Superseded, Transferring, Halted,
                Current, Pending
<1>2. CASE SaveLands
  <2>1. /\ UNCHANGED <<status, laid, parts, file, sess, halt, xfer, writers>>
        /\ Limited => saved'.ok
    BY <1>2 DEF SaveLands, item, disk, Ranged
  <2> QED
    BY <2>1 DEF OffsetInv, BytesAtOwnOffset, Aligned, Streams, Left, Superseded, Transferring, Halted,
                Current, Pending
<1>3. CASE Retry \/ AddAgain
  <2>1. writers' = {} /\ UNCHANGED <<file, sess>> /\ sess.pc # "running" /\ (Halted \/ sess.pc = "none")
    BY <1>3 DEF Retry, AddAgain, disk, NoTask
  <2> QED
    BY <2>1, NoLoopOffsets DEF OffsetInv, BytesAtOwnOffset, Transferring, Halted
<1>4. CASE RemoveIdle
  <2>1. /\ UNCHANGED <<laid, parts, saved, sess, halt, xfer, writers>> /\ NoTask /\ status' = "removed"
        /\ file' \in {file, EmptyFile}
    BY <1>4 DEF RemoveIdle
  <2>2. BytesAtOwnOffset' /\ ~Transferring'
    BY <2>1, FileOffsets DEF OffsetInv, NoTask, Transferring
  <2>3. Left'
    BY <2>1 DEF OffsetInv, Left, Superseded, Transferring, Halted, Pending, NoTask
  <2> QED
    BY <2>1, <2>2, <2>3, SettledOffsets
<1>5. CASE Crash
  <2>1. writers' = {} /\ UNCHANGED file /\ sess'.pc = "none"
    BY <1>5 DEF Crash, disk, NoSession
  <2> QED
    BY <2>1, NoLoopOffsets DEF OffsetInv, BytesAtOwnOffset, Transferring
<1> QED
  BY <1>1, <1>2, <1>3, <1>4, <1>5

\* Together:
LEMMA OffsetStep ==
    ASSUME TypeInv, RestInv, OffsetInv, Ranged, [Next]_vars
    PROVE  OffsetInv'
<1>1. CASE \E p \in Parts : PartStep(p)
  BY <1>1, PartOffsets
<1>2. CASE \E w \in writers : Grant(w) \/ Land(w) \/ WriteFails(w)
  BY <1>2, GrantOffsets, LandOffsets DEF WriteFails, Ranged
<1> QED
  BY <1>1, <1>2, StartOffsets, LoadOffsets, OpenOffsets, LateOffsets, EndOffsets, PauseOffsets, CancelOffsets,
     OutsideOffsets DEF Next, TaskStep

\* A ranged download never has a byte at another byte's offset, behind a speed
\* limit or not, with responses refused, redirected, broken off or cut short, and
\* however it is paused, retried, removed, added again and crashed
\* (handlePartResponse writes each slice at part.current).
THEOREM RangedOffsets == ASSUME Ranged PROVE Spec => []BytesAtOwnOffset
<1>1. Init => TypeInv /\ RestInv /\ OffsetInv
  <2>1. Init => RestInv /\ OffsetInv
    BY DEF Init, NoSession, NoHalt, RestInv, OffsetInv, BytesAtOwnOffset, EmptyFile, Aligned, Streams,
           Left, Transferring
  <2> QED
    BY <2>1, TypeInit
<1>2. TypeInv /\ RestInv /\ OffsetInv /\ [Next]_vars => TypeInv' /\ RestInv' /\ OffsetInv'
  BY TypeStep, RestStep, OffsetStep DEF TypeInv
<1>3. OffsetInv => BytesAtOwnOffset
  BY DEF OffsetInv
<1> QED
  BY <1>1, <1>2, <1>3, PTL DEF Spec

=============================================================================
