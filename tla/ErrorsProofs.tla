---------------------------- MODULE ErrorsProofs ----------------------------
(* Machine-checked proofs about Errors: errors that nobody has caught are    *)
(* passed on and only those, exceptions interrupt the code that they leave,  *)
(* and the records are well-formed with complete messages, for any blocks,   *)
(* error values, depth of nesting, number of errors and set of modes.        *)
EXTENDS Errors, SequenceTheorems, TLAPS

USE ErrorsAssumption

-----------------------------------------------------------------------------
(* Blocks and messages.                                                      *)

Blocks == Layouts \cup {<<Try>>}

\* A block starts with its try clause.  No handler comes after an else or a
\* finally clause.
LEMMA BlockOrder ==
  ASSUME NEW b \in Blocks
  PROVE  /\ Len(b) \in Nat /\ 1 <= Len(b)
         /\ \A i \in 1..Len(b) : i + 1 <= Len(b)
              /\ b[i].kind \in {"else", "finally"}
              => b[i + 1].kind \notin {"catch", "other"}
<1>1. CASE b \in Layouts
  <2>1. b \in Seq({Try, Other, Else, Finally} \cup {Catch(e) : e \in Evals}) /\ b # <<>>
        /\ \A i, j \in 1..Len(b) : i <= j => Order[b[i].kind] <= Order[b[j].kind]
    BY <1>1, LayoutsAssumption
  <2>2. Len(b) \in Nat /\ 1 <= Len(b)
    BY <2>1, EmptySeq
  <2>3. ASSUME NEW i \in 1..Len(b), i + 1 <= Len(b), b[i].kind \in {"else", "finally"}
        PROVE  b[i + 1].kind \notin {"catch", "other"}
    <3>1. Order[b[i].kind] <= Order[b[i + 1].kind]
      BY <2>1, <2>2, <2>3
    <3> QED BY <2>3, <3>1 DEF Order
  <2> QED BY <2>2, <2>3
<1>2. CASE b = <<Try>>
  BY <1>2
<1> QED BY <1>1, <1>2 DEF Blocks

\* What a message made of two mentions.
LEMMA RangeConcat ==
  ASSUME NEW S, NEW s \in Seq(S), NEW t \in Seq(S)
  PROVE  s \o t \in Seq(S) /\ Range(s \o t) = Range(s) \cup Range(t)
<1>1. /\ s \o t \in Seq(S) /\ Len(s \o t) = Len(s) + Len(t)
      /\ \A i \in 1..(Len(s) + Len(t)) :
           (s \o t)[i] = IF i <= Len(s) THEN s[i] ELSE t[i - Len(s)]
  OBVIOUS
<1>2. Range(s \o t) \subseteq Range(s) \cup Range(t)
  BY <1>1 DEF Range
<1>3. ASSUME NEW x \in Range(s) PROVE x \in Range(s \o t)
  <2>1. PICK i \in 1..Len(s) : x = s[i]
    BY DEF Range
  <2> QED BY <1>1, <2>1 DEF Range
<1>4. ASSUME NEW x \in Range(t) PROVE x \in Range(s \o t)
  <2>1. PICK i \in 1..Len(t) : x = t[i]
    BY DEF Range
  <2>2. i + Len(s) \in 1..(Len(s) + Len(t)) /\ (s \o t)[i + Len(s)] = x
    BY <1>1, <2>1
  <2> QED BY <1>1, <2>2 DEF Range
<1> QED BY <1>1, <1>2, <1>3, <1>4

\* The mode that appends keeps what a message mentions, and adds the new one.
\* The error value 0 is that of a record without errors.
LEMMA MessageKeeps ==
  ASSUME NEW r \in Frame, NEW new \in Seq(0..MaxErrors)
  PROVE  /\ Message(r, new) \in Seq(0..MaxErrors)
         /\ mode.override = "append" =>
              /\ Range(new) \subseteq Range(Message(r, new))
              /\ r.eval # 0 => Range(r.msg) \subseteq Range(Message(r, new))
<1>1. r.msg \in Seq(0..MaxErrors)
  BY DEF Frame
<1>2. /\ r.msg \o new \in Seq(0..MaxErrors)
      /\ Range(r.msg \o new) = Range(r.msg) \cup Range(new)
  BY <1>1, RangeConcat
<1> QED BY <1>1, <1>2 DEF Message

-----------------------------------------------------------------------------
(* What happens to one record.                                               *)

\* A record just linked is exact.
LEMMA LinkedExact ==
  ASSUME NEW b \in Blocks
  PROVE  /\ Linked(b) \in Frame /\ Clean \in Histories
         /\ RecordExact(Linked(b), Clean)
         /\ ~Linked(b).ft /\ ~Clean.raised
<1>1. Linked(b) \in Frame /\ Clean \in Histories
  BY DEF Linked, Frame, Clean, Histories, Levels, States, Blocks
<1>2. Len(b) \in Nat /\ 1 <= Len(b)
  BY BlockOrder
<1> QED
  BY <1>1, <1>2
  DEF Linked, Clean, RecordExact, ValueExact, HandledExact, ReraiseExact,
      LevelExact, MessageExact, PlaceExact, Known

\* err_clear() makes a record exact again.
LEMMA ClearExact ==
  ASSUME NEW r \in Frame, NEW h \in Histories, RecordExact(r, h)
  PROVE  /\ Clear(r) \in Frame /\ Clean \in Histories
         /\ RecordExact(Clear(r), Clean)
         /\ Clear(r).ft = r.ft /\ Clear(r).in = r.in
<1>1. Clear(r) \in Frame /\ Clean \in Histories
  <2>1. "none" \in Levels /\ "try" \in States /\ <<>> \in Seq(0..MaxErrors)
    BY DEF Levels, States
  <2>2. Clear(r) \in Frame
    BY <2>1 DEF Clear, Frame
  <2> QED BY <2>2 DEF Clean, Histories
<1>2. /\ Clear(r).eval = 0 /\ Clear(r).level = "none" /\ ~Clear(r).handled
      /\ Clear(r).reraise = 0 /\ Clear(r).at = r.at /\ Clear(r).block = r.block
      /\ Clear(r).ft = r.ft /\ Clear(r).in = r.in /\ Clear(r).state = "try"
  BY DEF Clear, Frame
<1>3. /\ Clean.open = {} /\ Clean.late = {} /\ Clean.caught = {}
      /\ ~Clean.masked /\ ~Clean.raised /\ Known(Clean) = {}
  BY DEF Clean, Known
<1> QED
  BY <1>1, <1>2, <1>3 DEF RecordExact, ValueExact, HandledExact, ReraiseExact,
                          LevelExact, MessageExact,
      PlaceExact

\* The record and its history after an error or an exception of the body.
LEMMA FormattedExact ==
  ASSUME NEW r \in Frame, NEW h \in Histories, RecordExact(r, h),
         n \in 0..MaxErrors, NEW level \in {"error", "exception"},
         NEW e \in Evals
  PROVE  /\ Formatted(r, level, e) \in Frame
         /\ WithError(h, r, level = "exception") \in Histories
         /\ RecordExact(Formatted(r, level, e), WithError(h, r, level = "exception"))
         /\ WithError(h, r, level = "exception").late # {} =>
              Formatted(r, level, e).reraise # 0 \/ h.masked
<1> DEFINE f == Formatted(r, level, e)
           g == WithError(h, r, level = "exception")
<1>1. e # 0 /\ e \in Evals \cup {0}
  OBVIOUS
<1>2. <<n>> \in Seq(0..MaxErrors) /\ Range(<<n>>) = {n}
  BY DEF Range
<1>3. /\ Message(r, <<n>>) \in Seq(0..MaxErrors)
      /\ mode.override = "append" =>
           /\ n \in Range(Message(r, <<n>>))
           /\ r.eval # 0 => Range(r.msg) \subseteq Range(Message(r, <<n>>))
  BY <1>2, MessageKeeps
<1>4. f \in Frame /\ g \in Histories
  <2>1. f \in Frame
    <3>1. level \in Levels
      BY DEF Levels
    <3>2. (IF level \in {"error", "exception"} /\ r.state # "try"
             THEN e ELSE r.reraise) \in Evals \cup {0}
      BY <1>1 DEF Frame
    <3> QED BY <1>1, <1>3, <3>1, <3>2 DEF Formatted, Frame
  <2>2. (level = "exception") \in BOOLEAN
    OBVIOUS
  <2>3. g \in Histories
    BY <2>2 DEF WithError, Histories
  <2> QED BY <2>1, <2>3
<1>5. /\ f.level = level /\ f.eval = e /\ f.msg = Message(r, <<n>>)
      /\ f.reraise = (IF r.state # "try" THEN e ELSE r.reraise)
      /\ f.handled = r.handled /\ f.state = r.state /\ f.at = r.at /\ f.in = r.in
      /\ f.block = r.block
  BY DEF Formatted, Frame
<1>6. /\ g.raised = (level = "exception") /\ g.masked = h.masked
      /\ g.caught = h.caught
      /\ g.open = (IF r.state = "try" THEN h.open \cup {n} ELSE h.open)
      /\ g.late = (IF r.state = "try" THEN h.late ELSE h.late \cup {n})
      /\ Known(g) = Known(h) \cup {n}
  BY DEF WithError, Histories, Known
<1> HIDE DEF f, g
<1>7. ValueExact(f, g)
  BY <1>1, <1>5, <1>6 DEF ValueExact
<1>8. HandledExact(f, g)
  BY <1>5, <1>6 DEF RecordExact, HandledExact
<1>9. ReraiseExact(f, g)
  BY <1>1, <1>5, <1>6 DEF RecordExact, ReraiseExact
<1>10. LevelExact(f, g)
  BY <1>5, <1>6 DEF LevelExact
<1>11. MessageExact(f, g)
  BY <1>3, <1>5, <1>6 DEF RecordExact, MessageExact, ValueExact
<1>12. PlaceExact(f)
  BY <1>5 DEF RecordExact, PlaceExact
<1>13. RecordExact(f, g)
  BY <1>7, <1>8, <1>9, <1>10, <1>11, <1>12 DEF RecordExact
<1>14. g.late # {} => f.reraise # 0 \/ h.masked
  BY <1>1, <1>5, <1>6 DEF RecordExact, ReraiseExact
<1> QED BY <1>4, <1>13, <1>14 DEF f, g

\* The record and its history after a warning.
LEMMA WarnExact ==
  ASSUME NEW r \in Frame, NEW h \in Histories, RecordExact(r, h),
         n \in 0..MaxErrors, NEW level \in {"warn", "error"},
         NEW masked \in BOOLEAN, masked <=> h.masked \/ Known(h) # {}
  PROVE  /\ Formatted(r, level, 0) \in Frame
         /\ [h EXCEPT !.raised = FALSE, !.masked = masked] \in Histories
         /\ RecordExact(Formatted(r, level, 0),
                        [h EXCEPT !.raised = FALSE, !.masked = masked])
<1> DEFINE f == Formatted(r, level, 0)
           g == [h EXCEPT !.raised = FALSE, !.masked = masked]
           rr == IF level \in {"error", "exception"} /\ r.state # "try"
                   THEN 0 ELSE r.reraise
<1>1. <<n>> \in Seq(0..MaxErrors)
  OBVIOUS
<1>2. Message(r, <<n>>) \in Seq(0..MaxErrors)
  BY <1>1, MessageKeeps
<1>3. f \in Frame /\ g \in Histories
  <2>1. level \in Levels
    BY DEF Levels
  <2>2. rr \in Evals \cup {0} /\ 0 \in Evals \cup {0}
    BY DEF Frame
  <2>3. f \in Frame
    BY <1>2, <2>1, <2>2 DEF Formatted, Frame
  <2> QED BY <2>3 DEF Histories
<1>4. /\ f.eval = 0 /\ f.reraise = rr
      /\ f.handled = r.handled /\ f.state = r.state /\ f.at = r.at /\ f.in = r.in
      /\ f.block = r.block
  BY DEF Formatted, Frame
<1>5. /\ g.raised = FALSE /\ g.masked = masked /\ g.caught = h.caught
      /\ g.open = h.open /\ g.late = h.late /\ Known(g) = Known(h)
  BY DEF Histories, Known
<1>6. rr # 0 => rr = r.reraise
  OBVIOUS
<1>7. g.open # {} \/ g.late # {} => g.masked
  BY <1>5 DEF Known
<1> HIDE DEF f, g, rr
<1>8. RecordExact(f, g)
  BY <1>4, <1>5, <1>6, <1>7
  DEF RecordExact, ValueExact, HandledExact, ReraiseExact, LevelExact, MessageExact,
      PlaceExact
<1> QED BY <1>3, <1>8 DEF f, g

\* The record and its history after err_reraise().
LEMMA ReraisedExact ==
  ASSUME NEW r \in Frame, NEW h \in Histories, RecordExact(r, h)
  PROVE  /\ [r EXCEPT !.reraise = r.eval] \in Frame
         /\ [h EXCEPT !.late = @ \cup h.caught \cup h.open,
                      !.caught = {}, !.open = {}] \in Histories
         /\ RecordExact([r EXCEPT !.reraise = r.eval],
                        [h EXCEPT !.late = @ \cup h.caught \cup h.open,
                                  !.caught = {}, !.open = {}])
<1> DEFINE f == [r EXCEPT !.reraise = r.eval]
           g == [h EXCEPT !.late = @ \cup h.caught \cup h.open,
                          !.caught = {}, !.open = {}]
<1>1. f \in Frame /\ g \in Histories
  <2>1. f \in Frame
    BY DEF Frame
  <2>2. h.late \cup h.caught \cup h.open \in SUBSET (0..MaxErrors)
    BY DEF Histories
  <2> QED BY <2>1, <2>2 DEF Histories
<1>2. /\ f.eval = r.eval /\ f.reraise = r.eval /\ f.level = r.level
      /\ f.handled = r.handled /\ f.state = r.state /\ f.at = r.at /\ f.in = r.in
      /\ f.block = r.block /\ f.msg = r.msg
  BY DEF Frame
<1>3. /\ g.raised = h.raised /\ g.masked = h.masked /\ g.caught = {}
      /\ g.open = {} /\ g.late = Known(h) /\ Known(g) = Known(h)
  BY DEF Histories, Known
<1> HIDE DEF f, g
<1>4. RecordExact(f, g)
  BY <1>2, <1>3
  DEF RecordExact, ValueExact, HandledExact, ReraiseExact, LevelExact, MessageExact,
      PlaceExact
<1> QED BY <1>1, <1>4 DEF f, g

\* err_update_eval() replaces one error value by another.
LEMMA UpdatedExact ==
  ASSUME NEW r \in Frame, NEW h \in Histories, RecordExact(r, h), r.eval # 0,
         NEW e \in Evals
  PROVE  [r EXCEPT !.eval = e] \in Frame /\ RecordExact([r EXCEPT !.eval = e], h)
<1> DEFINE f == [r EXCEPT !.eval = e]
<1>1. f \in Frame
  BY DEF Frame
<1>2. /\ f.eval = e /\ e # 0 /\ f.reraise = r.reraise /\ f.level = r.level
      /\ f.handled = r.handled /\ f.state = r.state /\ f.at = r.at /\ f.in = r.in
      /\ f.block = r.block /\ f.msg = r.msg
  BY DEF Frame
<1> HIDE DEF f
<1>3. RecordExact(f, h)
  BY <1>2
  DEF RecordExact, ValueExact, HandledExact, ReraiseExact, LevelExact, MessageExact,
      PlaceExact
<1> QED BY <1>1, <1>3 DEF f

\* The record r in another place of its block, where it has another state and
\* may be running or not: between clauses there is no handler to come after an
\* else or a finally clause.
LEMMA MovedExact ==
  ASSUME NEW r \in Frame, NEW h \in Histories, RecordExact(r, h),
         NEW f \in Frame,
         /\ f.eval = r.eval /\ f.reraise = r.reraise /\ f.level = r.level
         /\ f.handled = r.handled /\ f.block = r.block /\ f.msg = r.msg,
         f.at <= Len(r.block),
         f.in /\ f.state # "try" => f.block[f.at].kind \in {"else", "finally"},
         f.state = "try" => r.state = "try",
         r.block[r.at].kind \in {"else", "finally"}
           => r.block[f.at].kind \in {"else", "finally"}
  PROVE  RecordExact(f, h)
  BY DEF RecordExact, ValueExact, HandledExact, ReraiseExact, LevelExact, MessageExact,
      PlaceExact

\* The block is tried again.
LEMMA JumpedExact ==
  ASSUME NEW r \in Frame, NEW h \in Histories, RecordExact(r, h),
         h.late # {} => r.reraise # 0 \/ h.masked
  PROVE  /\ Jumped(r) \in Frame /\ RecordExact(Jumped(r), h)
         /\ ~Jumped(r).in /\ Jumped(r).ft = r.ft
<1> DEFINE f == Jumped(r)
<1>1. f \in Frame
  <2>1. 1 \in Nat \ {0}
    OBVIOUS
  <2>2. [r EXCEPT !.at = 1] \in Frame
    BY <2>1 DEF Frame
  <2> QED BY <2>2 DEF Jumped, Frame
<1>2. /\ f.eval = r.eval /\ f.reraise = r.reraise /\ f.level = r.level
      /\ f.handled = r.handled /\ f.state = r.state /\ f.at = 1
      /\ f.block = r.block /\ f.msg = r.msg /\ ~f.in /\ f.ft = r.ft
  BY DEF Jumped, Frame
<1>3. Len(f.block) \in Nat /\ 1 <= Len(f.block)
  BY <1>2, BlockOrder DEF Frame, Blocks
<1> HIDE DEF f
<1>4. RecordExact(f, h)
  BY <1>2, <1>3
  DEF RecordExact, ValueExact, HandledExact, ReraiseExact, LevelExact, MessageExact,
      PlaceExact
<1> QED BY <1>1, <1>2, <1>4 DEF f

\* A handler runs: the errors that may be caught are.
LEMMA HandlerExact ==
  ASSUME NEW r \in Frame, NEW h \in Histories, RecordExact(r, h),
         r.at + 1 <= Len(r.block),
         r.block[r.at].kind \notin {"else", "finally"},
         NEW f \in Frame,
         /\ f.eval = r.eval /\ f.reraise = r.reraise /\ f.level = r.level
         /\ f.handled = TRUE /\ f.block = r.block /\ f.msg = r.msg
         /\ f.state = "catch" /\ f.at = r.at + 1
  PROVE  LET g == [h EXCEPT !.caught = @ \cup h.open, !.open = {}, !.raised = FALSE]
         IN  g \in Histories /\ RecordExact(f, g)
<1> DEFINE g == [h EXCEPT !.caught = @ \cup h.open, !.open = {}, !.raised = FALSE]
<1>1. g \in Histories
  <2>1. h.caught \cup h.open \in SUBSET (0..MaxErrors)
    BY DEF Histories
  <2> QED BY <2>1 DEF Histories
<1>2. /\ g.raised = FALSE /\ g.masked = h.masked /\ g.caught = h.caught \cup h.open
      /\ g.open = {} /\ g.late = h.late /\ Known(g) = Known(h)
  BY DEF Histories, Known
<1> HIDE DEF g
<1>3. RecordExact(f, g)
  BY <1>2
  DEF RecordExact, ValueExact, HandledExact, ReraiseExact, LevelExact, MessageExact,
      PlaceExact
<1>4. g \in Histories /\ RecordExact(f, g)
  BY <1>1, <1>3
<1> QED BY <1>4 DEF g

-----------------------------------------------------------------------------
(* Steps.                                                                    *)

LEMMA InitInv == Init => IInv
<1> SUFFICES ASSUME Init PROVE IInv
  OBVIOUS
<1>1. <<Try>> \in Blocks
  BY DEF Blocks
<1>2. /\ Linked(<<Try>>) \in Frame /\ Clean \in Histories
      /\ RecordExact(Linked(<<Try>>), Clean)
      /\ ~Linked(<<Try>>).ft /\ ~Clean.raised
  BY <1>1, LinkedExact
<1>3. stack = <<Linked(<<Try>>)>> /\ hist = <<Clean>> /\ n = 0 /\ exited = FALSE
      /\ mode \in Modes
  BY DEF Init
<1> HIDE DEF Linked, Clean
<1>4. /\ stack \in Seq(Frame) /\ hist \in Seq(Histories) /\ Len(hist) = 1
      /\ Len(stack) = 1 /\ stack[1] = Linked(<<Try>>) /\ hist[1] = Clean
  BY <1>2, <1>3
<1>5. TypeOK
  <2>1. n \in 0..MaxErrors
    BY <1>3
  <2>3. exited \in BOOLEAN
    BY <1>3
  <2>2. \A d \in 1..Depth : ~stack[d].ft
    BY <1>2, <1>4 DEF Depth
  <2> QED BY <1>3, <1>4, <2>1, <2>2, <2>3 DEF TypeOK, Depth
<1>6. \A d \in 1..Depth : RecordExact(stack[d], hist[d])
  BY <1>2, <1>4 DEF Depth
<1>7. ExceptionInterrupts
  BY <1>2, <1>4 DEF ExceptionInterrupts, Depth
<1> QED BY <1>4, <1>5, <1>6, <1>7 DEF IInv, Depth

\* What the invariant says of the record that is in use.
LEMMA TopExact ==
  ASSUME IInv
  PROVE  /\ Depth \in Nat /\ 1 <= Depth /\ Len(hist) = Depth
         /\ stack \in Seq(Frame) /\ hist \in Seq(Histories)
         /\ Top \in Frame /\ H \in Histories /\ RecordExact(Top, H)
         /\ Top.ft => ~Top.in
         /\ n \in 0..MaxErrors /\ mode \in Modes /\ exited \in BOOLEAN
         /\ Top.block \in Blocks /\ Top.at \in 1..Len(Top.block)
<1>1. Depth \in Nat /\ 1 <= Depth /\ Depth \in 1..Len(stack) /\ Len(hist) = Depth
      /\ stack \in Seq(Frame) /\ hist \in Seq(Histories)
  BY DEF IInv, TypeOK, Depth
<1>2. Top \in Frame /\ H \in Histories
  BY <1>1 DEF Top, H, Depth
<1>3. RecordExact(Top, H) /\ (Top.ft => ~Top.in)
  BY <1>1 DEF IInv, TypeOK, Top, H
<1>4. Top.block \in Blocks /\ Top.at \in Nat \ {0} /\ Top.at <= Len(Top.block)
  BY <1>2, <1>3 DEF Frame, Blocks, RecordExact, PlaceExact
<1>5. Len(Top.block) \in Nat
  BY <1>4, BlockOrder
<1> QED BY <1>1, <1>2, <1>3, <1>4, <1>5 DEF IInv, TypeOK

\* A step that changes the record in use and its history and leaves them exact.
LEMMA TopStep ==
  ASSUME IInv, ~exited, NEW r \in Frame, NEW h \in Histories, RecordExact(r, h),
         r.ft => ~r.in, SetTop(r), SetHist(h), UNCHANGED mode,
         n' \in 0..MaxErrors, exited' \in BOOLEAN,
         h.raised /\ ~h.masked =>
           IF Depth = 1 THEN exited' ELSE ~(r.in /\ r.at = 1)
  PROVE  IInv'
<1>1. /\ Depth \in Nat /\ 1 <= Depth /\ Len(hist) = Depth
      /\ stack \in Seq(Frame) /\ hist \in Seq(Histories) /\ mode \in Modes
  BY TopExact
<1>2. /\ stack' \in Seq(Frame) /\ hist' \in Seq(Histories)
      /\ Len(stack') = Depth /\ Len(hist') = Depth
      /\ \A d \in 1..Depth : /\ stack'[d] = IF d = Depth THEN r ELSE stack[d]
                             /\ hist'[d] = IF d = Depth THEN h ELSE hist[d]
  BY <1>1 DEF SetTop, SetHist, Depth
<1>3. Depth' = Depth
  BY <1>2 DEF Depth
<1>4. TypeOK'
  BY <1>1, <1>2, <1>3 DEF TypeOK, IInv
<1>5. ASSUME NEW d \in 1..Depth PROVE RecordExact(stack[d], hist[d])'
  <2>1. RecordExact(stack'[d], hist'[d])
    BY <1>2 DEF IInv
  <2> QED
    BY <2>1 DEF RecordExact, ValueExact, HandledExact, ReraiseExact, LevelExact,
                MessageExact, PlaceExact, Known
<1>7. \A d \in 1..Depth : d < Depth => stack'[d].in
  BY <1>2 DEF IInv
<1>6. ExceptionInterrupts'
  <2> SUFFICES ASSUME NEW d \in 1..Depth, hist'[d].raised, ~hist'[d].masked
               PROVE  IF d = 1 THEN exited' ELSE ~(stack'[d].in /\ stack'[d].at = 1)
    BY <1>3 DEF ExceptionInterrupts
  <2>1. CASE d = Depth
    BY <1>2, <2>1
  <2>2. CASE d # Depth
    BY <1>2, <2>2 DEF IInv, ExceptionInterrupts
  <2> QED BY <2>1, <2>2
<1> QED BY <1>2, <1>3, <1>4, <1>5, <1>6, <1>7 DEF IInv

\* An unchanged history is one that is set to what it is.
LEMMA SameHist == ASSUME IInv, UNCHANGED hist PROVE SetHist(H)
<1>1. hist \in Seq(Histories) /\ Len(hist) = Depth /\ 1 <= Depth /\ Depth \in Nat
  BY TopExact
<1> QED BY <1>1 DEF SetHist, H

\* An exception that was not caught keeps the code of its try clause from
\* running, whichever record is in use.
LEMMA Interrupted ==
  ASSUME IInv, ~exited, H.raised, ~H.masked
  PROVE  Depth # 1 /\ ~(Top.in /\ Top.at = 1)
<1>1. Depth \in Nat /\ 1 <= Depth
  BY TopExact
<1> QED BY <1>1 DEF IInv, ExceptionInterrupts, Top, H

LEMMA ErrStep == ASSUME IInv, NEW e \in Evals, Err(e) PROVE IInv'
<1>1. /\ Top \in Frame /\ H \in Histories /\ RecordExact(Top, H)
      /\ n \in 0..MaxErrors /\ Depth \in Nat /\ (Top.ft => ~Top.in)
  BY TopExact
<1> DEFINE r == Formatted(Top, "error", e)
           h == WithError(H, Top, "error" = "exception")
<1>2. r \in Frame /\ h \in Histories /\ RecordExact(r, h)
  BY <1>1, FormattedExact
<1>3. r.ft = Top.ft /\ r.in = Top.in /\ ~h.raised
  BY <1>1 DEF Formatted, WithError, Frame, Histories
<1>4. h = WithError(H, Top, FALSE)
  OBVIOUS
<1>5. /\ ~exited /\ SetTop(r) /\ SetHist(h) /\ UNCHANGED mode
      /\ n' = n + 1 /\ n < MaxErrors
  BY <1>4 DEF Err, Running
<1>6. exited' \in BOOLEAN
  BY DEF Err
<1>7. n' \in 0..MaxErrors
  BY <1>1, <1>5
<1> HIDE DEF r, h
<1> QED BY <1>1, <1>2, <1>3, <1>5, <1>6, <1>7, TopStep

LEMMA RaiseStep == ASSUME IInv, NEW e \in Evals, Raise(e) PROVE IInv'
<1>1. /\ Top \in Frame /\ H \in Histories /\ RecordExact(Top, H)
      /\ n \in 0..MaxErrors /\ Depth \in Nat /\ 1 <= Depth
      /\ Top.block \in Blocks /\ (Top.ft => ~Top.in)
  BY TopExact
<1> DEFINE f == Formatted(Top, "exception", e)
           h == WithError(H, Top, "exception" = "exception")
           r == IF Depth = 1 THEN f ELSE Jumped(f)
<1>2. f \in Frame /\ h \in Histories /\ RecordExact(f, h)
  BY <1>1, FormattedExact
<1>3. f.ft = Top.ft /\ f.in = Top.in /\ f.block = Top.block
  BY <1>1 DEF Formatted, Frame
<1>4. h = WithError(H, Top, TRUE)
  OBVIOUS
<1>5. /\ ~exited /\ SetTop(r) /\ SetHist(h) /\ UNCHANGED mode
      /\ n' = n + 1 /\ n < MaxErrors /\ exited' = (Depth = 1) /\ Top.in
  BY <1>4 DEF Raise, Running
<1>6. exited' \in BOOLEAN /\ n' \in 0..MaxErrors
  BY <1>1, <1>5
<1>7. r \in Frame /\ RecordExact(r, h) /\ (r.ft => ~r.in)
      /\ (Depth = 1 \/ ~(r.in /\ r.at = 1))
  <2>1. h.late # {} => f.reraise # 0 \/ h.masked
    <3>1. h.late # {} => f.reraise # 0 \/ H.masked
      BY <1>1, FormattedExact
    <3>2. h.masked = H.masked
      BY <1>1 DEF WithError, Histories
    <3> QED BY <3>1, <3>2
  <2>2. /\ Jumped(f) \in Frame /\ RecordExact(Jumped(f), h)
        /\ ~Jumped(f).in
    BY <1>2, <2>1, JumpedExact
  <2> HIDE DEF f, h
  <2> QED BY <1>1, <1>2, <1>3, <2>2
<1> HIDE DEF r, h
<1> QED BY <1>1, <1>2, <1>5, <1>6, <1>7, TopStep

LEMMA WarnStep == ASSUME IInv, Warn PROVE IInv'
<1>1. /\ Top \in Frame /\ H \in Histories /\ RecordExact(Top, H)
      /\ n \in 0..MaxErrors /\ Depth \in Nat /\ (Top.ft => ~Top.in)
  BY TopExact
<1> DEFINE level == IF mode.warn = "error" THEN "error" ELSE "warn"
           masked == H.masked \/ H.open \cup H.late \cup H.caught # {}
           r == Formatted(Top, level, 0)
           h == [H EXCEPT !.raised = FALSE, !.masked = masked]
<1>2. level \in {"warn", "error"} /\ masked \in BOOLEAN
      /\ (masked <=> H.masked \/ Known(H) # {})
  BY <1>1 DEF Histories, Known
<1>3. /\ ~exited /\ SetTop(r) /\ SetHist(h) /\ UNCHANGED mode
      /\ n' = n + 1 /\ n < MaxErrors
  BY <1>1 DEF Warn, Running, Histories
<1>4. exited' \in BOOLEAN
  BY DEF Warn
<1> HIDE DEF level, masked
<1>5. r \in Frame /\ h \in Histories /\ RecordExact(r, h)
  BY <1>1, <1>2, WarnExact
<1>6. r.ft = Top.ft /\ r.in = Top.in /\ ~h.raised
  BY <1>1 DEF Formatted, Frame, Histories
<1>7. n' \in 0..MaxErrors
  BY <1>1, <1>3
<1> HIDE DEF r, h
<1> QED BY <1>1, <1>3, <1>4, <1>5, <1>6, <1>7, TopStep

LEMMA ReraiseStep == ASSUME IInv, Reraise PROVE IInv'
<1>1. /\ Top \in Frame /\ H \in Histories /\ RecordExact(Top, H)
      /\ n \in 0..MaxErrors /\ Depth \in Nat /\ (Top.ft => ~Top.in)
      /\ exited \in BOOLEAN
  BY TopExact
<1> DEFINE r == [Top EXCEPT !.reraise = Top.eval]
           h == [H EXCEPT !.late = @ \cup H.caught \cup H.open,
                          !.caught = {}, !.open = {}]
<1>2. ~exited /\ SetTop(r) /\ SetHist(h) /\ UNCHANGED <<mode, exited, n>>
  BY DEF Reraise, Running
<1>3. r \in Frame /\ h \in Histories /\ RecordExact(r, h)
  BY <1>1, ReraisedExact
<1>4. /\ r.ft = Top.ft /\ r.in = Top.in /\ r.at = Top.at
      /\ h.raised = H.raised /\ h.masked = H.masked
  BY <1>1 DEF Frame, Histories
<1> HIDE DEF r, h
<1> QED BY <1>1, <1>2, <1>3, <1>4, Interrupted, TopStep

LEMMA ClearStep == ASSUME IInv, ErrClear PROVE IInv'
<1>1. /\ Top \in Frame /\ H \in Histories /\ RecordExact(Top, H)
      /\ n \in 0..MaxErrors /\ Depth \in Nat /\ (Top.ft => ~Top.in)
      /\ exited \in BOOLEAN
  BY TopExact
<1>2. /\ Clear(Top) \in Frame /\ Clean \in Histories
      /\ RecordExact(Clear(Top), Clean)
      /\ Clear(Top).ft = Top.ft /\ Clear(Top).in = Top.in
  BY <1>1, ClearExact
<1>3. ~Clean.raised
  BY DEF Clean
<1>4. /\ ~exited /\ SetTop(Clear(Top)) /\ SetHist(Clean)
      /\ UNCHANGED <<mode, exited, n>>
  BY DEF ErrClear, Running
<1> QED BY <1>1, <1>2, <1>3, <1>4, TopStep

LEMMA UpdateStep == ASSUME IInv, NEW e \in Evals, UpdateEval(e) PROVE IInv'
<1>1. /\ Top \in Frame /\ H \in Histories /\ RecordExact(Top, H)
      /\ n \in 0..MaxErrors /\ Depth \in Nat /\ (Top.ft => ~Top.in)
      /\ exited \in BOOLEAN
  BY TopExact
<1> DEFINE r == [Top EXCEPT !.eval = e]
<1>2. /\ ~exited /\ SetTop(r) /\ UNCHANGED <<mode, exited, n>> /\ Top.eval # 0
  BY DEF UpdateEval, Running
<1>3. SetHist(H)
  BY SameHist DEF UpdateEval
<1>4. r \in Frame /\ RecordExact(r, H)
  BY <1>1, <1>2, UpdatedExact
<1>5. r.ft = Top.ft /\ r.in = Top.in /\ r.at = Top.at
  BY <1>1 DEF Frame
<1> HIDE DEF r
<1> QED BY <1>1, <1>2, <1>3, <1>4, <1>5, Interrupted, TopStep

LEMMA LeaveStep == ASSUME IInv, NEW break \in BOOLEAN, Leave(break) PROVE IInv'
<1>1. /\ Top \in Frame /\ H \in Histories /\ RecordExact(Top, H)
      /\ n \in 0..MaxErrors /\ Depth \in Nat /\ exited \in BOOLEAN
      /\ Top.at \in 1..Len(Top.block)
  BY TopExact
<1> DEFINE ft == ~break /\ Top.block[Top.at].kind = "catch"
           r == [Top EXCEPT !.in = FALSE, !.ft = ft]
<1>2. ~exited /\ SetTop(r) /\ UNCHANGED <<mode, exited, n>> /\ Depth > 1
  BY DEF Leave, Running
<1>3. SetHist(H)
  BY SameHist DEF Leave
<1>4. ft \in BOOLEAN
  OBVIOUS
<1> HIDE DEF ft
<1>5. r \in Frame /\ ~r.in
  BY <1>1, <1>4 DEF Frame
<1>6. /\ r.eval = Top.eval /\ r.reraise = Top.reraise /\ r.level = Top.level
      /\ r.handled = Top.handled /\ r.block = Top.block /\ r.msg = Top.msg
      /\ r.at = Top.at /\ r.state = Top.state
  BY <1>1 DEF Frame
<1> HIDE DEF r
<1>7. RecordExact(r, H)
  BY <1>1, <1>5, <1>6, MovedExact DEF RecordExact, PlaceExact
<1> QED BY <1>1, <1>2, <1>3, <1>5, <1>7, TopStep

\* The record in use moves on to the next clause without running it, or runs
\* an else or finally clause.
LEMMA MoveStep ==
  ASSUME IInv, Between, Top.at < Len(Top.block),
         Following.kind \in {"catch", "other", "else", "finally"},
         NEW r, SetTop(r), UNCHANGED <<mode, exited, n, hist>>,
         \/ r = Next1
         \/ /\ Following.kind \in {"else", "finally"}
            /\ \E s \in {"else", "finally"} :
                 r = [Next1 EXCEPT !.state = s, !.in = TRUE]
  PROVE  IInv'
<1>1. /\ Top \in Frame /\ H \in Histories /\ RecordExact(Top, H)
      /\ n \in 0..MaxErrors /\ Depth \in Nat /\ exited \in BOOLEAN
      /\ Top.at \in 1..Len(Top.block) /\ Top.block \in Blocks
  BY TopExact
<1>2. ~exited /\ ~Top.in
  BY DEF Between
<1>3. SetHist(H)
  BY SameHist
<1>4. Len(Top.block) \in Nat /\ Top.at + 1 \in Nat \ {0} /\ Top.at + 1 # 1
      /\ Top.at + 1 <= Len(Top.block)
  BY <1>1, BlockOrder
<1>5. /\ Next1 \in Frame /\ ~Next1.in /\ ~Next1.ft /\ Next1.at = Top.at + 1
      /\ Next1.eval = Top.eval /\ Next1.reraise = Top.reraise
      /\ Next1.level = Top.level /\ Next1.handled = Top.handled
      /\ Next1.block = Top.block /\ Next1.msg = Top.msg
      /\ Next1.state = Top.state
  <2> DEFINE a == Top.at + 1
  <2> HIDE DEF a
  <2>1. [Top EXCEPT !.at = a, !.ft = FALSE] \in Frame
    BY <1>1, <1>4 DEF Frame, a
  <2>2. Next1 = [Top EXCEPT !.at = a, !.ft = FALSE]
    BY <1>1 DEF Frame, a, Next1
  <2> QED BY <1>1, <1>2, <2>1, <2>2 DEF Frame, a
<1>6. /\ r \in Frame /\ ~r.ft /\ r.at = Top.at + 1
      /\ r.eval = Top.eval /\ r.reraise = Top.reraise
      /\ r.level = Top.level /\ r.handled = Top.handled
      /\ r.block = Top.block /\ r.msg = Top.msg
      /\ r.state = "try" => Top.state = "try"
      /\ r.in => Following.kind \in {"else", "finally"}
  <2>1. CASE r = Next1
    BY <1>5, <2>1
  <2>2. ASSUME NEW s \in {"else", "finally"},
               r = [Next1 EXCEPT !.state = s, !.in = TRUE]
        PROVE  <1>6
    <3>1. s \in States
      BY DEF States
    <3> QED BY <1>5, <2>2, <3>1 DEF Frame
  <2> QED BY <2>1, <2>2
<1>7. Top.block[Top.at].kind \in {"else", "finally"}
        => Top.block[r.at].kind \in {"else", "finally"}
  <2>1. Top.block[Top.at].kind \in {"else", "finally"}
          => Following.kind \notin {"catch", "other"}
    BY <1>1, <1>4, BlockOrder DEF Following
  <2> QED BY <1>6, <2>1 DEF Following
<1>8. RecordExact(r, H)
  BY <1>1, <1>4, <1>6, <1>7, MovedExact DEF Following
<1>9. ~(r.in /\ r.at = 1)
  BY <1>4, <1>6
<1> QED BY <1>1, <1>2, <1>3, <1>6, <1>8, <1>9, Interrupted, TopStep

\* A handler runs.
LEMMA HandlerStep ==
  ASSUME IInv, Between, Top.at < Len(Top.block),
         Following.kind \in {"catch", "other"},
         SetTop(Handling), SetHist(Caught), UNCHANGED <<mode, exited, n>>
  PROVE  IInv'
<1>1. /\ Top \in Frame /\ H \in Histories /\ RecordExact(Top, H)
      /\ n \in 0..MaxErrors /\ Depth \in Nat /\ exited \in BOOLEAN
      /\ Top.at \in 1..Len(Top.block) /\ Top.block \in Blocks
  BY TopExact
<1>2. ~exited /\ ~Top.in
  BY DEF Between
<1>3. Len(Top.block) \in Nat /\ Top.at + 1 \in Nat \ {0}
      /\ Top.at + 1 <= Len(Top.block)
  BY <1>1, BlockOrder
<1>4. /\ Handling \in Frame /\ ~Handling.ft /\ Handling.at = Top.at + 1
      /\ Handling.eval = Top.eval /\ Handling.reraise = Top.reraise
      /\ Handling.level = Top.level /\ Handling.handled = TRUE
      /\ Handling.block = Top.block /\ Handling.msg = Top.msg
      /\ Handling.state = "catch"
  <2> DEFINE a == Top.at + 1
  <2> HIDE DEF a
  <2>1. "catch" \in States
    BY DEF States
  <2>2. Handling = [Top EXCEPT !.at = a, !.ft = FALSE, !.handled = TRUE,
                               !.state = "catch", !.in = TRUE]
    BY <1>1 DEF Frame, a, Next1, Handling
  <2> QED BY <1>1, <1>3, <2>1, <2>2 DEF Frame, a
<1>5. Top.block[Top.at].kind \notin {"else", "finally"}
  BY <1>1, <1>3, BlockOrder DEF Following
<1>6. Caught \in Histories /\ RecordExact(Handling, Caught)
  BY <1>1, <1>3, <1>4, <1>5, HandlerExact DEF Caught
<1>7. ~Caught.raised
  BY <1>1 DEF Caught, Histories
<1> QED BY <1>1, <1>2, <1>4, <1>6, <1>7, TopStep

LEMMA ClauseStep ==
  ASSUME IInv, ToCatch \/ ToOther \/ ToElse \/ ToFinally PROVE IInv'
<1>1. CASE ToCatch
  <2>1. /\ Between /\ Top.at < Len(Top.block) /\ Following.kind = "catch"
        /\ UNCHANGED <<mode, exited, n>>
    BY <1>1 DEF ToCatch, HasNext
  <2>2. CASE Top.eval = Following.eval \/ Top.ft
    BY <1>1, <2>1, <2>2, HandlerStep DEF ToCatch
  <2>3. CASE ~(Top.eval = Following.eval \/ Top.ft)
    BY <1>1, <2>1, <2>3, MoveStep DEF ToCatch
  <2> QED BY <2>2, <2>3
<1>2. CASE ToOther
  <2>1. /\ Between /\ Top.at < Len(Top.block) /\ Following.kind = "other"
        /\ UNCHANGED <<mode, exited, n>>
    BY <1>2 DEF ToOther, HasNext
  <2>2. CASE Top.eval # 0 /\ ~Top.handled
    BY <1>2, <2>1, <2>2, HandlerStep DEF ToOther
  <2>3. CASE ~(Top.eval # 0 /\ ~Top.handled)
    BY <1>2, <2>1, <2>3, MoveStep DEF ToOther
  <2> QED BY <2>2, <2>3
<1>3. CASE ToElse
  <2>1. /\ Between /\ Top.at < Len(Top.block) /\ Following.kind = "else"
        /\ UNCHANGED <<mode, exited, n, hist>>
    BY <1>3 DEF ToElse, HasNext
  <2>2. CASE Top.eval = 0
    BY <1>3, <2>1, <2>2, MoveStep DEF ToElse
  <2>3. CASE Top.eval # 0
    BY <1>3, <2>1, <2>3, MoveStep DEF ToElse
  <2> QED BY <2>2, <2>3
<1>4. CASE ToFinally
  <2>1. /\ Between /\ Top.at < Len(Top.block) /\ Following.kind = "finally"
        /\ UNCHANGED <<mode, exited, n, hist>>
    BY <1>4 DEF ToFinally, HasNext
  <2> QED BY <1>4, <2>1, MoveStep DEF ToFinally
<1> QED BY <1>1, <1>2, <1>3, <1>4

\* ErrTry: the other records stay as they are.
LEMMA EnterStep ==
  ASSUME IInv, NEW layout \in Layouts, EnterBlock(layout) PROVE IInv'
<1>1. /\ Depth \in Nat /\ 1 <= Depth /\ Len(hist) = Depth
      /\ stack \in Seq(Frame) /\ hist \in Seq(Histories) /\ mode \in Modes
      /\ n \in 0..MaxErrors /\ exited \in BOOLEAN
  BY TopExact
<1>2. /\ stack' = Append(stack, Linked(layout)) /\ hist' = Append(hist, Clean)
      /\ UNCHANGED <<mode, exited, n>> /\ ~exited /\ stack[Depth].in
  BY DEF EnterBlock, Running, Top
<1>3. /\ Linked(layout) \in Frame /\ Clean \in Histories
      /\ RecordExact(Linked(layout), Clean)
      /\ ~Linked(layout).ft /\ ~Clean.raised
  BY LinkedExact DEF Blocks
<1>4. /\ stack' \in Seq(Frame) /\ hist' \in Seq(Histories)
      /\ Len(stack') = Depth + 1 /\ Len(hist') = Depth + 1
      /\ \A d \in 1..(Depth + 1) :
           /\ stack'[d] = IF d = Depth + 1 THEN Linked(layout) ELSE stack[d]
           /\ hist'[d] = IF d = Depth + 1 THEN Clean ELSE hist[d]
  BY <1>1, <1>2, <1>3 DEF Depth
<1>5. Depth' = Depth + 1
  BY <1>4 DEF Depth
<1> HIDE DEF Clean, Linked
<1>6. \A d \in 1..Depth' : d # Depth + 1 => d \in 1..Depth
  BY <1>1, <1>5
<1>7. TypeOK'
  <2>1. \A d \in 1..Depth' : stack'[d].ft => ~stack'[d].in
    BY <1>3, <1>4, <1>5, <1>6 DEF IInv, TypeOK
  <2> QED BY <1>1, <1>2, <1>4, <1>5, <2>1 DEF TypeOK
<1>8. ASSUME NEW d \in 1..Depth' PROVE RecordExact(stack[d], hist[d])'
  <2>1. RecordExact(stack'[d], hist'[d])
    BY <1>3, <1>4, <1>5, <1>6 DEF IInv
  <2> QED
    BY <1>2, <2>1 DEF RecordExact, ValueExact, HandledExact, ReraiseExact,
                      LevelExact, MessageExact, PlaceExact, Known
<1>9. ExceptionInterrupts'
  BY <1>1, <1>2, <1>3, <1>4, <1>5, <1>6 DEF ExceptionInterrupts, IInv
<1>10. \A d \in 1..Depth' : d < Depth' => stack'[d].in
  BY <1>1, <1>2, <1>4, <1>5, <1>6 DEF IInv
<1> QED BY <1>4, <1>7, <1>8, <1>9, <1>10 DEF IInv

\* ErrEnd passes the errors of the inner record r to the outer one, o, which
\* may be tried again if it does.
LEMMA PassedExact ==
  ASSUME NEW r \in Frame, NEW h \in Histories, RecordExact(r, h), Owed(r),
         h.open \cup h.late # {},
         NEW o \in Frame, NEW g \in Histories, RecordExact(o, g), o.in,
         NEW jump \in BOOLEAN
  PROVE  LET p == Passed(g, o, h, jump)
             u == Unlinked(o, r)
         IN  /\ p \in Histories /\ u \in Frame /\ RecordExact(u, p)
             /\ jump => (p.late # {} => u.reraise # 0 \/ p.masked)
             /\ u.ft = o.ft /\ u.in = o.in /\ u.at = o.at
             /\ p.raised = h.raised /\ (h.masked => p.masked)
<1> DEFINE p == Passed(g, o, h, jump)
           u == Unlinked(o, r)
           all == h.open \cup h.late
           early == jump \/ o.state = "try"
           m == \/ g.masked \/ h.masked \/ o.handled
                \/ (jump /\ o.state # "try")
           e == IF r.reraise # 0 THEN r.reraise ELSE r.eval
<1>1. e # 0 /\ e \in Evals \cup {0}
  BY DEF Owed, Frame
<1>2. m \in BOOLEAN /\ all \in SUBSET (0..MaxErrors) /\ all \subseteq Known(h)
  BY DEF Histories, Known
<1>3. /\ Message(o, r.msg) \in Seq(0..MaxErrors)
      /\ mode.override = "append" =>
           /\ Range(r.msg) \subseteq Range(Message(o, r.msg))
           /\ o.eval # 0 => Range(o.msg) \subseteq Range(Message(o, r.msg))
  <2>1. r.msg \in Seq(0..MaxErrors)
    BY DEF Frame
  <2> QED BY <2>1, MessageKeeps
<1>4. u = [o EXCEPT !.level = r.level, !.eval = e, !.msg = Message(o, r.msg)]
  BY DEF Unlinked
<1>5. p = [g EXCEPT !.open = IF early THEN @ \cup all ELSE @,
                    !.late = IF early THEN @ ELSE @ \cup all,
                    !.masked = m, !.raised = h.raised]
  BY DEF Passed, Histories
<1> HIDE DEF p, u, e, m
<1>6. u \in Frame
  <2>1. r.level \in Levels
    BY DEF Frame
  <2> QED BY <1>1, <1>3, <1>4, <2>1 DEF Frame
<1>7. p \in Histories
  <2>1. g.open \cup all \in SUBSET (0..MaxErrors)
        /\ g.late \cup all \in SUBSET (0..MaxErrors) /\ h.raised \in BOOLEAN
    BY <1>2 DEF Histories
  <2> HIDE DEF all, early
  <2> QED BY <1>2, <1>5, <2>1 DEF Histories
<1>8. /\ u.eval = e /\ u.level = r.level /\ u.msg = Message(o, r.msg)
      /\ u.reraise = o.reraise /\ u.handled = o.handled /\ u.state = o.state
      /\ u.at = o.at /\ u.in = o.in /\ u.ft = o.ft /\ u.block = o.block
  BY <1>4 DEF Frame
<1>9. /\ p.open = (IF early THEN g.open \cup all ELSE g.open)
      /\ p.late = (IF early THEN g.late ELSE g.late \cup all)
      /\ p.caught = g.caught /\ p.masked = m /\ p.raised = h.raised
      /\ Known(p) = Known(g) \cup all
  BY <1>5 DEF Histories, Known
<1>10. /\ p.masked <=> \/ g.masked \/ h.masked \/ o.handled
                        \/ (jump /\ o.state # "try")
  BY <1>9 DEF m
<1>11. /\ ValueExact(o, g) /\ HandledExact(o, g) /\ ReraiseExact(o, g)
       /\ LevelExact(r, h) /\ MessageExact(o, g) /\ MessageExact(r, h)
       /\ PlaceExact(o)
  BY DEF RecordExact
<1> HIDE DEF all
<1>12. ValueExact(u, p)
  BY <1>1, <1>8, <1>9 DEF ValueExact, all
<1>13. HandledExact(u, p)
  BY <1>8, <1>9, <1>10, <1>11 DEF HandledExact
<1>14. ReraiseExact(u, p)
  BY <1>1, <1>8, <1>9, <1>10, <1>11 DEF ReraiseExact, PlaceExact
<1>15. LevelExact(u, p)
  BY <1>8, <1>9, <1>10, <1>11 DEF LevelExact
<1>16. MessageExact(u, p)
  BY <1>2, <1>3, <1>8, <1>9, <1>10, <1>11 DEF MessageExact, ValueExact
<1>17. PlaceExact(u)
  BY <1>8, <1>11 DEF PlaceExact
<1>18. jump => (p.late # {} => u.reraise # 0 \/ p.masked)
  BY <1>8, <1>9, <1>10, <1>11 DEF ReraiseExact
<1>19. RecordExact(u, p)
  BY <1>12, <1>13, <1>14, <1>15, <1>16, <1>17 DEF RecordExact
<1> QED BY <1>6, <1>7, <1>8, <1>9, <1>10, <1>18, <1>19 DEF p, u

\* An error that a warning made the inner record forget is not passed on.
LEMMA MaskedExact ==
  ASSUME NEW h \in Histories, h.masked,
         NEW o \in Frame, NEW g \in Histories, RecordExact(o, g),
         NEW jump \in BOOLEAN
  PROVE  /\ Passed(g, o, h, jump) \in Histories
         /\ RecordExact(o, Passed(g, o, h, jump))
         /\ Passed(g, o, h, jump).masked
<1> DEFINE p == Passed(g, o, h, jump)
           all == h.open \cup h.late
           early == jump \/ o.state = "try"
<1>1. p = [g EXCEPT !.open = IF early THEN @ \cup all ELSE @,
                    !.late = IF early THEN @ ELSE @ \cup all,
                    !.masked = TRUE, !.raised = h.raised]
  BY DEF Passed, Histories
<1> HIDE DEF p
<1>2. p \in Histories
  <2>1. g.open \cup all \in SUBSET (0..MaxErrors)
        /\ g.late \cup all \in SUBSET (0..MaxErrors) /\ h.raised \in BOOLEAN
    BY DEF Histories
  <2> HIDE DEF all, early
  <2> QED BY <1>1, <2>1 DEF Histories
<1>3. /\ p.caught = g.caught /\ p.masked /\ Known(g) \subseteq Known(p)
      /\ g.late \subseteq p.late
  BY <1>1 DEF Histories, Known
<1>4. RecordExact(o, p)
  BY <1>3 DEF RecordExact, ValueExact, HandledExact, ReraiseExact, LevelExact,
              MessageExact
<1> QED BY <1>2, <1>3, <1>4 DEF p

\* An error that nobody has caught and that was not forgotten is owed.
LEMMA PendingOwed ==
  ASSUME NEW r \in Frame, NEW h \in Histories, RecordExact(r, h)
  PROVE  /\ h.open \cup h.late # {} => Owed(r) \/ h.masked
         /\ Owed(r) => h.open \cup h.late # {}
<1>1. ASSUME h.open \cup h.late # {}, ~h.masked PROVE Owed(r)
  BY <1>1 DEF Owed, RecordExact, ValueExact, HandledExact, ReraiseExact, Known
<1>2. ASSUME Owed(r) PROVE h.open \cup h.late # {}
  BY <1>2 DEF Owed, RecordExact, ValueExact, HandledExact, ReraiseExact, Known
<1> QED BY <1>1, <1>2

\* A step that takes away the last record, and leaves r and h in the place of
\* the one below.
LEMMA PopStep ==
  ASSUME IInv, ~exited, Depth > 1,
         NEW r \in Frame, NEW h \in Histories, RecordExact(r, h), r.ft => ~r.in,
         stack' = Append(SubSeq(stack, 1, Depth - 2), r),
         hist' = Append(SubSeq(hist, 1, Depth - 2), h),
         UNCHANGED <<mode, n>>, exited' \in BOOLEAN,
         h.raised /\ ~h.masked =>
           IF Depth = 2 THEN exited' ELSE ~(r.in /\ r.at = 1)
  PROVE  IInv'
<1>1. /\ Depth \in Nat /\ 1 <= Depth /\ Len(hist) = Depth
      /\ stack \in Seq(Frame) /\ hist \in Seq(Histories) /\ mode \in Modes
      /\ n \in 0..MaxErrors
  BY TopExact
<1> DEFINE D == Depth - 1
<1>2. D \in Nat /\ 1 <= D /\ D < Depth /\ D - 1 = Depth - 2
  BY <1>1
<1>3. /\ SubSeq(stack, 1, D - 1) \in Seq(Frame) /\ Len(SubSeq(stack, 1, D - 1)) = D - 1
      /\ \A d \in 1..(D - 1) : SubSeq(stack, 1, D - 1)[d] = stack[d]
      /\ SubSeq(hist, 1, D - 1) \in Seq(Histories) /\ Len(SubSeq(hist, 1, D - 1)) = D - 1
      /\ \A d \in 1..(D - 1) : SubSeq(hist, 1, D - 1)[d] = hist[d]
  BY <1>1, <1>2 DEF Depth
<1>4. /\ stack' \in Seq(Frame) /\ hist' \in Seq(Histories)
      /\ Len(stack') = D /\ Len(hist') = D
      /\ \A d \in 1..D : /\ stack'[d] = IF d = D THEN r ELSE stack[d]
                         /\ hist'[d] = IF d = D THEN h ELSE hist[d]
  BY <1>2, <1>3
<1>5. Depth' = D
  BY <1>4 DEF Depth
<1>6. \A d \in 1..D : d \in 1..Depth /\ (d # D => d < D /\ d < Depth)
  BY <1>1, <1>2
<1> HIDE DEF D
<1>7. TypeOK'
  <2>1. \A d \in 1..D : stack'[d].ft => ~stack'[d].in
    BY <1>4, <1>6 DEF IInv, TypeOK
  <2> QED BY <1>1, <1>2, <1>4, <1>5, <2>1 DEF TypeOK
<1>8. ASSUME NEW d \in 1..D PROVE RecordExact(stack[d], hist[d])'
  <2>1. RecordExact(stack'[d], hist'[d])
    BY <1>4, <1>6 DEF IInv
  <2> QED
    BY <2>1 DEF RecordExact, ValueExact, HandledExact, ReraiseExact, LevelExact,
                MessageExact, PlaceExact, Known
<1>9. \A d \in 1..D : d < D => stack'[d].in
  BY <1>4, <1>6 DEF IInv
<1>10. ExceptionInterrupts'
  <2> SUFFICES ASSUME NEW d \in 1..D, hist'[d].raised, ~hist'[d].masked
               PROVE  IF d = 1 THEN exited' ELSE ~(stack'[d].in /\ stack'[d].at = 1)
    BY <1>5 DEF ExceptionInterrupts
  <2>1. CASE d = D
    <3>1. d = 1 <=> Depth = 2
      BY <1>1, <2>1 DEF D
    <3> QED BY <1>4, <2>1, <3>1
  <2>2. CASE d # D
    BY <1>4, <1>6, <2>2 DEF IInv, ExceptionInterrupts
  <2> QED BY <2>1, <2>2
<1> QED BY <1>4, <1>5, <1>7, <1>8, <1>9, <1>10 DEF IInv

LEMMA EndStep == ASSUME IInv, EndBlock PROVE IInv'
<1> DEFINE D == Depth - 1
           o == stack[D]
           g == hist[D]
           jump == Top.level = "exception" /\ Depth > 2
           p == Passed(g, o, H, jump)
           u == Unlinked(o, Top)
           r == IF ~Owed(Top) THEN o ELSE IF jump THEN Jumped(u) ELSE u
           h == IF H.open \cup H.late = {} THEN g ELSE p
           exits == /\ Owed(Top) /\ ~jump
                    /\ \/ mode.abort /\ Top.level \in {"error", "exception"}
                       \/ Top.level = "exception"
<1>1. /\ ~exited /\ Depth > 1 /\ UNCHANGED <<mode, n>> /\ exited' = exits
      /\ stack' = Append(SubSeq(stack, 1, Depth - 2), r)
      /\ hist' = Append(SubSeq(hist, 1, Depth - 2), h)
  BY DEF EndBlock, Between
<1>2. /\ Depth \in Nat /\ Len(hist) = Depth /\ Top \in Frame /\ H \in Histories
      /\ stack \in Seq(Frame) /\ hist \in Seq(Histories) /\ RecordExact(Top, H)
  BY TopExact
<1>3. D \in 1..Depth /\ D \in 1..Len(stack) /\ D < Depth
  BY <1>1, <1>2 DEF Depth
<1>4. o \in Frame /\ g \in Histories
  BY <1>2, <1>3
<1>5. RecordExact(o, g) /\ o.in /\ ~o.ft
  BY <1>3 DEF IInv, TypeOK
<1>6. g.raised /\ ~g.masked =>
        IF Depth = 2 THEN FALSE ELSE ~(o.in /\ o.at = 1)
  <2>1. D = 1 <=> Depth = 2
    BY <1>2
  <2> QED BY <1>1, <1>3, <2>1 DEF IInv, ExceptionInterrupts
<1>7. jump \in BOOLEAN /\ exits \in BOOLEAN
  OBVIOUS
<1>8. /\ H.open \cup H.late # {} => Owed(Top) \/ H.masked
      /\ Owed(Top) => H.open \cup H.late # {}
  BY <1>2, PendingOwed
<1>9. H.raised /\ ~H.masked => Top.level = "exception"
  BY <1>2 DEF RecordExact, LevelExact
<1> HIDE DEF D, o, g
<1>10. CASE H.open \cup H.late = {}
  <2>1. r = o /\ h = g
    BY <1>8, <1>10
  <2> HIDE DEF r, h, exits
  <2> QED BY <1>1, <1>4, <1>5, <1>6, <1>7, <2>1, PopStep
<1>11. CASE H.open \cup H.late # {} /\ ~Owed(Top)
  <2>1. r = o /\ h = p /\ H.masked
    BY <1>8, <1>11
  <2>2. p \in Histories /\ RecordExact(o, p) /\ p.masked
    BY <1>2, <1>4, <1>5, <1>7, <2>1, MaskedExact
  <2> HIDE DEF r, h, p, exits
  <2> QED BY <1>1, <1>4, <1>5, <1>7, <2>1, <2>2, PopStep
<1>12. CASE Owed(Top)
  <2>1. h = p
    BY <1>8, <1>12
  <2>2. /\ p \in Histories /\ u \in Frame /\ RecordExact(u, p)
        /\ jump => (p.late # {} => u.reraise # 0 \/ p.masked)
        /\ u.ft = o.ft /\ p.raised = H.raised /\ (H.masked => p.masked)
    <3>1. H.open \cup H.late # {}
      BY <1>8, <1>12
    <3> HIDE DEF jump
    <3> QED BY <1>2, <1>4, <1>5, <1>7, <1>12, <3>1, PassedExact
  <2>3. p.raised /\ ~p.masked => Top.level = "exception"
    BY <1>9, <2>2
  <2>4. CASE jump
    <3>1. /\ Jumped(u) \in Frame /\ RecordExact(Jumped(u), p)
          /\ ~Jumped(u).in
      BY <2>2, <2>4, JumpedExact
    <3>2. r = Jumped(u) /\ Depth # 2
      BY <1>12, <2>4
    <3> HIDE DEF r, h, u, p, exits
    <3> QED BY <1>1, <1>7, <2>1, <2>2, <3>1, <3>2, PopStep
  <2>5. CASE ~jump
    <3>1. r = u
      BY <1>12, <2>5
    <3>2. p.raised /\ ~p.masked => Depth = 2 /\ exits
      BY <1>1, <1>2, <1>12, <2>3, <2>5
    <3> HIDE DEF r, h, u, p, exits
    <3> QED BY <1>1, <1>5, <1>7, <2>1, <2>2, <3>1, <3>2, PopStep
  <2> QED BY <2>4, <2>5
<1> QED BY <1>10, <1>11, <1>12

LEMMA NextInv == IInv /\ [Next]_vars => IInv'
<1> SUFFICES ASSUME IInv, [Next]_vars PROVE IInv'
  OBVIOUS
<1>1. ASSUME NEW e \in Evals, Err(e) PROVE IInv'
  BY <1>1, ErrStep
<1>2. ASSUME NEW e \in Evals, Raise(e) PROVE IInv'
  BY <1>2, RaiseStep
<1>3. ASSUME NEW e \in Evals, UpdateEval(e) PROVE IInv'
  BY <1>3, UpdateStep
<1>4. CASE Warn
  BY <1>4, WarnStep
<1>5. CASE Reraise
  BY <1>5, ReraiseStep
<1>6. CASE ErrClear
  BY <1>6, ClearStep
<1>7. ASSUME NEW layout \in Layouts, EnterBlock(layout) PROVE IInv'
  BY <1>7, EnterStep
<1>8. ASSUME NEW break \in BOOLEAN, Leave(break) PROVE IInv'
  BY <1>8, LeaveStep
<1>9. CASE ToCatch \/ ToOther \/ ToElse \/ ToFinally
  BY <1>9, ClauseStep
<1>10. CASE EndBlock
  BY <1>10, EndStep
<1>11. CASE UNCHANGED vars
  BY <1>11
  DEF vars, IInv, TypeOK, Depth, ExceptionInterrupts, RecordExact, ValueExact,
      HandledExact, ReraiseExact, LevelExact, MessageExact, PlaceExact, Known
<1> QED
  BY <1>1, <1>2, <1>3, <1>4, <1>5, <1>6, <1>7, <1>8, <1>9, <1>10, <1>11
  DEF Next, Body, Exited

-----------------------------------------------------------------------------
(* Theorems.                                                                 *)

\* What err.c and the macros keep true of every record on the stack of a thread,
\* between any two of their steps.
THEOREM Invariance == Spec => []IInv
<1> QED BY InitInv, NextInv, PTL DEF Spec

\* ErrEnd passes on every error that nobody has caught, unless a warning or an
\* error of a block inside a handler made its record forget it
\* (_err_unlink_record()).
THEOREM UncaughtErrorsAreOwed == Spec => []UncaughtIsOwed
<1>1. IInv => UncaughtIsOwed
  <2> SUFFICES ASSUME IInv, NEW d \in 1..Depth, Pending(d) # {}
               PROVE  Owed(stack[d]) \/ hist[d].masked
    BY DEF UncaughtIsOwed
  <2>1. stack[d] \in Frame /\ hist[d] \in Histories /\ RecordExact(stack[d], hist[d])
    BY DEF IInv, TypeOK, Depth
  <2> QED BY <2>1, PendingOwed DEF Pending
<1> QED BY <1>1, Invariance, PTL

\* ErrEnd passes nothing on when all errors were caught, whatever clauses ran
\* and blocks were nested in them.
THEOREM CaughtErrorsAreSilent == Spec => []CaughtIsSilent
<1>1. IInv => CaughtIsSilent
  <2> SUFFICES ASSUME IInv, NEW d \in 1..Depth, Owed(stack[d])
               PROVE  Pending(d) # {}
    BY DEF CaughtIsSilent
  <2>1. stack[d] \in Frame /\ hist[d] \in Histories /\ RecordExact(stack[d], hist[d])
    BY DEF IInv, TypeOK, Depth
  <2> QED BY <2>1, PendingOwed DEF Pending
<1> QED BY <1>1, Invariance, PTL

\* err_raise() and ErrEnd never let a try clause go on after an exception that
\* nobody has caught, and the process ends when it leaves the outermost block.
THEOREM ExceptionsInterrupt == Spec => []ExceptionInterrupts
<1>1. IInv => ExceptionInterrupts
  BY DEF IInv
<1> QED BY <1>1, Invariance, PTL

\* The records are of the type ErrRecord, no jump meets the fall-through flag of
\* ErrCatch, and appended messages mention every error still to be reported.
THEOREM RecordsAreExact == Spec => []RecordsExact
<1>1. IInv => RecordsExact
  <2> SUFFICES ASSUME IInv PROVE TypeOK /\ MessageMentions
    BY DEF RecordsExact
  <2>1. TypeOK
    BY DEF IInv
  <2>2. ASSUME mode.override = "append", NEW d \in 1..Depth
        PROVE  Pending(d) \subseteq Range(stack[d].msg) \/ hist[d].masked
    BY <2>2 DEF IInv, RecordExact, MessageExact, Known, Pending
  <2> QED BY <2>1, <2>2 DEF MessageMentions
<1> QED BY <1>1, Invariance, PTL
=============================================================================
