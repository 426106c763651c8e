------------------------------- MODULE Errors -------------------------------
(***************************************************************************)
(* Error records and ErrTry blocks (src/src/utils/err.c and the macros of  *)
(* err.h).  The code of a thread is inside a stack of ErrTry blocks, each  *)
(* with an error record; below them is the root record of the thread.      *)
(* The body of a clause may do anything the API offers, in any order, and  *)
(* may open a block of its own; what the macros and err.c do is            *)
(* determined.  The level "error" or above, the modes of err_set_warn_mode *)
(* and err_set_override_mode, and longjmp are modelled; the text of a      *)
(* message is the sequence of the errors it mentions.                      *)
(***************************************************************************)
EXTENDS Integers, Sequences, FiniteSets, SequencesExt

CONSTANTS
  Evals,       \* error values
  Layouts,     \* the blocks of the program: sequences of clauses
  Modes,       \* the modes the process may run in
  MaxErrors,   \* bound on the errors, exceptions and warnings reported
  MaxDepth     \* bound on the nesting of blocks

ASSUME ErrorsAssumption ==
  /\ Evals \subseteq Nat \ {0}
  /\ Modes \subseteq
       [warn : {"normal", "ignore", "error"},
        override : {"append", "warn-old", "warn-new", "old", "ignore-new"},
        abort : BOOLEAN]   \* errAbortExit or errAbortAbort
  /\ MaxErrors \in Nat /\ MaxDepth \in Nat

Levels == {"none", "warn", "error", "exception"}
States == {"try", "catch", "else", "finally"}
Try == [kind |-> "try"]
Catch(e) == [kind |-> "catch", eval |-> e]
Other == [kind |-> "other"]
Else == [kind |-> "else"]
Finally == [kind |-> "finally"]

\* "all clauses are optional.  But if they are given, they should occour in
\* the above order"
Order == [try |-> 1, catch |-> 2, other |-> 3, else |-> 4, finally |-> 5]

ASSUME LayoutsAssumption == \A b \in Layouts :
  /\ b \in Seq({Try, Other, Else, Finally} \cup {Catch(e) : e \in Evals})
  /\ b # <<>> /\ b[1] = Try
  /\ \A i, j \in 1..Len(b) : i <= j => Order[b[i].kind] <= Order[b[j].kind]

VARIABLES
  mode,        \* the modes set by the environment or err_set_*_mode()
  stack,       \* the records, the root first, with the place in their block
  exited,      \* the process has called exit() or abort()
  n,           \* number of errors and warnings so far; names the next one
  hist         \* per record: what has happened to its errors (a history)

vars == <<mode, stack, exited, n, hist>>

-----------------------------------------------------------------------------
Depth == Len(stack)
Top == stack[Depth]
Running == ~exited /\ Top.in

Clear(r) == [r EXCEPT !.eval = 0, !.level = "none", !.msg = <<>>,
                      !.handled = FALSE, !.reraise = 0, !.state = "try"]

\* A record just linked, or the root: its first clause is running.
Linked(layout) ==
  [eval |-> 0, level |-> "none", msg |-> <<>>, handled |-> FALSE,
   reraise |-> 0, state |-> "try",
   block |-> layout, at |-> 1, in |-> TRUE, ft |-> FALSE]

(* What has become of the errors of a record: they may still be caught, came
   while a handler was running, or have been caught; masked if something
   came that makes the record forget an error; raised if the last one is an
   exception that nobody has caught.                                       *)
Clean == [open |-> {}, late |-> {}, caught |-> {},
          masked |-> FALSE, raised |-> FALSE]

\* Mutant: the separator is written over the old message.
MessageOver(r, new) == new

\* The message after a new one, new, comes to a record.
Message(r, new) ==
  IF r.eval = 0 THEN new
  ELSE CASE mode.override = "append" -> r.msg \o new
         [] mode.override \in {"warn-new", "ignore-new"} -> r.msg
         [] OTHER -> new

\* Mutant: an error of a handler is not marked for being reraised.
FormattedOnce(r, level, e) ==
  [r EXCEPT !.level = level, !.eval = e, !.msg = Message(r, <<n>>)]

\* What the assertion-free part of _err_vformat() does to a record.
Formatted(r, level, e) ==
  [r EXCEPT !.level = level, !.eval = e, !.msg = Message(r, <<n>>),
            !.reraise = IF level \in {"error", "exception"} /\ r.state # "try"
                        THEN e ELSE @]

\* longjmp() to the start of the block of r: the clauses are tried again.
\* The flag ft is off whenever the body of a clause runs.
Jumped(r) == [r EXCEPT !.at = 1, !.in = FALSE]

-----------------------------------------------------------------------------
Init ==
  /\ mode \in Modes
  /\ stack = <<Linked(<<Try>>)>>
  /\ exited = FALSE
  /\ n = 0
  /\ hist = <<Clean>>

SetTop(r) == stack' = [stack EXCEPT ![Depth] = r]
SetHist(h) == hist' = [hist EXCEPT ![Depth] = h]
H == hist[Depth]

\* An error of the body: it may be caught if it comes in the try clause.
WithError(h, r, raised) ==
  IF r.state = "try" THEN [h EXCEPT !.open = @ \cup {n}, !.raised = raised]
                     ELSE [h EXCEPT !.late = @ \cup {n}, !.raised = raised]

\* err(), errx()
Err(e) ==
  /\ Running /\ n < MaxErrors
  /\ SetTop(Formatted(Top, "error", e))
  /\ SetHist(WithError(H, Top, FALSE))
  /\ n' = n + 1
  /\ UNCHANGED mode
  /\ exited' = (Depth = 1 /\ mode.abort)

\* warn(), warnx(): the error value of a warning is 0.
Warn ==
  /\ Running /\ n < MaxErrors /\ mode.warn # "ignore"
  /\ SetTop(Formatted(Top, IF mode.warn = "error" THEN "error" ELSE "warn", 0))
  /\ SetHist([H EXCEPT !.raised = FALSE,
                       !.masked = @ \/ H.open \cup H.late \cup H.caught # {}])
  /\ n' = n + 1
  /\ UNCHANGED mode
  /\ exited' = (Depth = 1 /\ mode.abort /\ mode.warn = "error")

\* err_raise(), err_raisex(): outside every block they are fatal().
Raise(e) ==
  /\ Running /\ n < MaxErrors
  /\ SetTop(IF Depth = 1 THEN Formatted(Top, "exception", e)
                         ELSE Jumped(Formatted(Top, "exception", e)))
  /\ SetHist(WithError(H, Top, TRUE))
  /\ n' = n + 1
  /\ UNCHANGED mode
  /\ exited' = (Depth = 1)

\* err_reraise(), "only in ErrCatch, ErrOther and ErrFinally clauses"
Reraise ==
  /\ Running /\ Top.block[Top.at].kind \in {"catch", "other", "finally"}
  /\ SetTop([Top EXCEPT !.reraise = Top.eval])
  /\ SetHist([H EXCEPT !.late = @ \cup H.caught \cup H.open,
                       !.caught = {}, !.open = {}])
  /\ UNCHANGED <<mode, exited, n>>

\* err_clear()
ErrClear ==
  /\ Running
  /\ SetTop(Clear(Top))
  /\ SetHist(Clean)
  /\ UNCHANGED <<mode, exited, n>>

\* err_update_eval()
UpdateEval(e) ==
  /\ Running /\ Top.eval # 0
  /\ SetTop([Top EXCEPT !.eval = e])
  /\ UNCHANGED <<mode, exited, n, hist>>

\* ErrTry: link a new record.
EnterBlock(layout) ==
  /\ Running /\ Depth <= MaxDepth
  /\ stack' = Append(stack, Linked(layout))
  /\ hist' = Append(hist, Clean)
  /\ UNCHANGED <<mode, exited, n>>

-----------------------------------------------------------------------------
\* The end of the body of a clause: a break, or the fall-through that makes
\* the next ErrCatch run whatever its value.
Leave(break) ==
  /\ Running /\ Depth > 1
  /\ SetTop([Top EXCEPT !.in = FALSE,
                        !.ft = ~break /\ Top.block[Top.at].kind = "catch"])
  /\ UNCHANGED <<mode, exited, n, hist>>

Between == ~exited /\ ~Top.in
Following == Top.block[Top.at + 1]
HasNext(kind) == Between /\ Top.at < Len(Top.block) /\ Following.kind = kind
Next1 == [Top EXCEPT !.at = @ + 1, !.ft = FALSE]
\* Mutant: the clause that runs does not mark the error as handled.
HandlingUnmarked == [Next1 EXCEPT !.state = "catch", !.in = TRUE]

Handling == [Next1 EXCEPT !.handled = TRUE, !.state = "catch", !.in = TRUE]
Caught == [H EXCEPT !.caught = @ \cup H.open, !.open = {}, !.raised = FALSE]

\* The header of an ErrCatch clause.
ToCatch ==
  /\ HasNext("catch")
  /\ LET runs == Top.eval = Following.eval \/ Top.ft
     IN  /\ SetTop(IF runs THEN Handling ELSE Next1)
         /\ IF runs THEN SetHist(Caught) ELSE UNCHANGED hist
  /\ UNCHANGED <<mode, exited, n>>

\* The header of the ErrOther clause.
ToOther ==
  /\ HasNext("other")
  /\ LET runs == Top.eval # 0 /\ ~Top.handled
     IN  /\ SetTop(IF runs THEN Handling ELSE Next1)
         /\ IF runs THEN SetHist(Caught) ELSE UNCHANGED hist
  /\ UNCHANGED <<mode, exited, n>>

\* The header of the ErrElse clause.
ToElse ==
  /\ HasNext("else")
  /\ SetTop(IF Top.eval = 0 THEN [Next1 EXCEPT !.state = "else", !.in = TRUE]
                            ELSE Next1)
  /\ UNCHANGED <<mode, exited, n, hist>>

\* The header of the ErrFinally clause.
ToFinally ==
  /\ HasNext("finally")
  /\ SetTop([Next1 EXCEPT !.state = "finally", !.in = TRUE])
  /\ UNCHANGED <<mode, exited, n, hist>>

-----------------------------------------------------------------------------
Owed(r) == r.reraise # 0 \/ (r.eval # 0 /\ ~r.handled)

\* Mutant: the outer record does not learn the level.
UnlinkedLevel(o, r) ==
  [o EXCEPT !.eval = IF r.reraise # 0 THEN r.reraise ELSE r.eval,
            !.msg = Message(o, r.msg)]

\* The outer record o after the one of an inner block, r, is unlinked.
Unlinked(o, r) ==
  [o EXCEPT !.level = r.level,
            !.eval = IF r.reraise # 0 THEN r.reraise ELSE r.eval,
            !.msg = Message(o, r.msg)]

\* The errors of the inner block h become errors of the outer one; after a
\* jump the clauses of the outer one may catch them.
Passed(g, o, h, jump) ==
  LET all == h.open \cup h.late
      early == jump \/ o.state = "try"
  IN  [g EXCEPT !.open = IF early THEN @ \cup all ELSE @,
                !.late = IF early THEN @ ELSE @ \cup all,
                !.masked = \/ @ \/ h.masked \/ o.handled
                            \/ (jump /\ o.state # "try"),
                !.raised = h.raised]

\* ErrEnd: _err_unlink_record().
EndBlock ==
  /\ Between /\ Depth > 1 /\ Top.at = Len(Top.block)
  /\ LET outer == stack[Depth - 1]
         rest == SubSeq(stack, 1, Depth - 2)
         jump == Top.level = "exception" /\ Depth > 2
         new == IF ~Owed(Top) THEN outer
                ELSE IF jump THEN Jumped(Unlinked(outer, Top))
                ELSE Unlinked(outer, Top)
     IN  /\ stack' = Append(rest, new)
         /\ exited' = (/\ Owed(Top) /\ ~jump
                       /\ \/ mode.abort /\ Top.level \in {"error", "exception"}
                          \/ Top.level = "exception")
         /\ hist' = Append(SubSeq(hist, 1, Depth - 2),
                           IF H.open \cup H.late = {} THEN hist[Depth - 1]
                           ELSE Passed(hist[Depth - 1], outer, H, jump))
  /\ UNCHANGED <<mode, n>>

Exited == exited /\ UNCHANGED vars

Body ==
  \/ \E e \in Evals : Err(e) \/ Raise(e) \/ UpdateEval(e)
  \/ Warn \/ Reraise \/ ErrClear
  \/ \E layout \in Layouts : EnterBlock(layout)
  \/ \E break \in BOOLEAN : Leave(break)

Next == Body \/ ToCatch \/ ToOther \/ ToElse \/ ToFinally \/ EndBlock \/ Exited

Spec == Init /\ [][Next]_vars

-----------------------------------------------------------------------------
(* Properties.                                                             *)

Frame ==
  [eval : Evals \cup {0}, level : Levels, msg : Seq(0..MaxErrors),
   handled : BOOLEAN, reraise : Evals \cup {0}, state : States,
   block : Layouts \cup {<<Try>>}, at : Nat \ {0}, in : BOOLEAN, ft : BOOLEAN]

\* Every record is of the type ErrRecord, and the fall-through flag is on only
\* between two clauses, so that no longjmp() ever meets it (err.h).
TypeOK ==
  /\ stack \in Seq(Frame) /\ Depth >= 1 /\ Len(hist) = Depth
  /\ mode \in Modes /\ exited \in BOOLEAN /\ n \in 0..MaxErrors
  /\ \A d \in 1..Depth : stack[d].ft => ~stack[d].in

Pending(d) == hist[d].open \cup hist[d].late

\* An error that nobody has caught is one that ErrEnd will pass on: neither the
\* clauses that ran since, nor other errors, nor jumps make its record forget
\* it.  The exceptions are a warning that comes after it, and an error of a
\* block inside a handler of the block (masked).
UncaughtIsOwed == \A d \in 1..Depth :
  Pending(d) # {} => Owed(stack[d]) \/ hist[d].masked

\* And conversely: ErrEnd passes something on only if there is an error that
\* nobody has caught, or that came after the try clause, or was reraised.
CaughtIsSilent == \A d \in 1..Depth : Owed(stack[d]) => Pending(d) # {}

\* An exception that nobody has caught never lets the code that it interrupted
\* go on, in whatever depth of blocks it was raised; at the root it ends the
\* process.
ExceptionInterrupts == \A d \in 1..Depth :
  hist[d].raised /\ ~hist[d].masked =>
    IF d = 1 THEN exited ELSE ~(stack[d].in /\ stack[d].at = 1)

\* When messages are appended, the message of a record mentions every error
\* that is still to be reported.
MessageMentions == mode.override = "append" =>
  \A d \in 1..Depth : Pending(d) \subseteq Range(stack[d].msg) \/ hist[d].masked

\* The stack of records is well-formed and its messages are complete, at any
\* depth and after any jump.
RecordsExact == TypeOK /\ MessageMentions

\* The ErrTry clause "is evaluated as normal, but errors that occurs will only be
\* reported if they are not caught" (err.h:654-656): an error that nobody has
\* caught is still going to be reported.
ErrorsReported == \A d \in 2..Depth : Pending(d) # {} => Owed(stack[d])

-----------------------------------------------------------------------------
(* What keeps the properties above true from step to step.                 *)

\* All errors of which the history h knows
Known(h) == h.open \cup h.late \cup h.caught

\* The record r has an error value exactly as long as it has had an error, but
\* for the warnings and inner blocks that made it forget.
ValueExact(r, h) ==
  /\ r.eval # 0 => Known(h) # {}
  /\ r.eval = 0 => Known(h) = {} \/ h.masked

\* An error that may be caught has met no handler.  No handler ran before the
\* record is marked, and none in the try clause.
HandledExact(r, h) ==
  /\ h.open # {} => ~r.handled \/ h.masked
  /\ ~r.handled => h.caught = {}
  /\ r.state = "try" => ~r.handled

\* The value to reraise is that of an error that came too late to be caught. An
\* inner block does not set it, but then there is no handler to come, unless
\* the block is tried again.
ReraiseExact(r, h) ==
  /\ r.reraise # 0 => h.late # {}
  /\ h.late # {} =>
       \/ r.reraise # 0 \/ h.masked
       \/ /\ r.eval # 0 /\ ~r.handled /\ r.state # "try"
          /\ r.block[r.at].kind \in {"else", "finally"}

\* An exception that nobody has caught is known by its level.
LevelExact(r, h) == h.raised /\ ~h.masked => r.level = "exception"

\* When messages are appended, all errors are mentioned.
MessageExact(r, h) ==
  mode.override = "append" => Known(h) \subseteq Range(r.msg) \/ h.masked

\* Code that runs after the try clause and is no handler is an else or finally
\* clause: a jump leaves the state, but nothing runs before the next header.
PlaceExact(r) ==
  /\ r.at <= Len(r.block)
  /\ r.in /\ r.state # "try" /\ ~r.handled =>
       r.block[r.at].kind \in {"else", "finally"}

RecordExact(r, h) ==
  /\ ValueExact(r, h) /\ HandledExact(r, h) /\ ReraiseExact(r, h)
  /\ LevelExact(r, h) /\ MessageExact(r, h) /\ PlaceExact(r)

Histories ==
  [open : SUBSET (0..MaxErrors), late : SUBSET (0..MaxErrors),
   caught : SUBSET (0..MaxErrors), masked : BOOLEAN, raised : BOOLEAN]

IInv ==
  /\ TypeOK /\ hist \in Seq(Histories)
  /\ \A d \in 1..Depth : RecordExact(stack[d], hist[d])
  /\ \A d \in 1..Depth : d < Depth => stack[d].in
  /\ ExceptionInterrupts
=============================================================================
