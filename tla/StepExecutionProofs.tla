------------------------ MODULE StepExecutionProofs -------------------------
(***************************************************************************)
(* Proofs about StepExecution, for any kinds of tool, any bounds on polls, *)
(* retries and assertions, and a stack of any depth.                       *)
(*                                                                         *)
(* What a step did is decided by its bottom frame, whose invariant is      *)
(* OwnInv: while it runs, its operation has not succeeded yet, and past a  *)
(* poll of the healer a click was dispatched.  StageInv carries what it    *)
(* returned through the assertions to the outcome, HealInv from there to   *)
(* what is written back.  The solver's budget needs BudgetInv: every solve *)
(* frame still has the calls of its remaining attempts to spend, and what  *)
(* was called and what is left to call never exceed what was granted.      *)
(***************************************************************************)
EXTENDS StepExecution, SequenceTheorems, TLAPS

\* The positions that lead to the solver, and those behind a poll of the DOM.
Intercepting == {"detect", "solving", "submit"}
Polled == {"toggle", "toggleNth", "settle"}

\* Which fields of a frame are meaningful where.
FrameInv(f) ==
  /\ f \in Frame
  /\ f.pc \in IF f.fn = "tool" THEN ToolPositions ELSE SolvePositions
  /\ f.pc \in Polled \union {"poll"} => f.exc \in Failed
  /\ f.pc \in {"options", "poll"} => f.n >= 1
  /\ f.pc \in Intercepting => f.op \in {"click", "type"}

\* The step's own operation took effect before its tool returned v.
Effect(v) ==
  /\ \/ acted > 0 \/ poked
     \/ v = "captcha"
     \/ setup.op \in {"solve", "fakepath"}
  /\ v = "injected" => acted > 0

\* The step's own frame is the bottom one while its tool runs.
OwnInv ==
  stage = "tool" =>
    /\ acted = 0 \/ (stack = <<>> /\ acted = 1)
    /\ stack = <<>> /\ ret \in Returned => Effect(ret)
    /\ stack # <<>> => /\ stack[1].op = setup.op
                       /\ stack[1].fn = "solve" => setup.op = "solve"
                       /\ stack[1].pc \in Polled => poked

StageInv ==
  /\ stage = "parse" => acted = 0
  /\ stage \in {"parse", "tool"} => checked = 0
  /\ stage = "assert" => Effect(value) /\ checked < setup.asserts
  /\ outcome = "PASS" /\ stage \in {"ended", "retried", "done"} =>
       Effect(value) /\ checked = setup.asserts

\* The inductive invariant.
IInv ==
  /\ StepTypeOK
  /\ stack \in Seq(Frame)
  /\ \A i \in 1..Len(stack) : FrameInv(stack[i])
  /\ OwnInv
  /\ StageInv
  /\ acted <= 1

-----------------------------------------------------------------------------
\* What Front and the three ways of moving do to a stack.
LEMMA FrontOf ==
  ASSUME NEW S, NEW s \in Seq(S), s # <<>>
  PROVE  /\ Front(s) \in Seq(S) /\ Len(Front(s)) = Len(s) - 1
         /\ Len(s) \in Nat \ {0} /\ Last(s) = s[Len(s)] /\ Last(s) \in S
         /\ \A i \in 1..(Len(s) - 1) : Front(s)[i] = s[i]
<1>1. Len(s) \in Nat \ {0} /\ s[Len(s)] \in S /\ Last(s) = s[Len(s)]
  BY EmptySeq, LenProperties, ElementOfSeq DEF Last
<1>2. Front(s) = SubSeq(s, 1, Len(s) - 1)
  BY DEF Front
<1>3. \A i \in 1..(Len(s) - 1) : s[i] \in S
  <2> TAKE i \in 1..(Len(s) - 1)
  <2>1. i \in 1..Len(s)
    BY <1>1
  <2> QED BY <2>1, ElementOfSeq
<1> DEFINE n == Len(s) - 1
<1>4. 1 \in Int /\ n \in Int /\ n >= 0
  BY <1>1
<1>5. \A i \in 1..n : s[i] \in S
  BY <1>3
<1> HIDE DEF n
<1>6. /\ SubSeq(s, 1, n) \in Seq(S)
      /\ Len(SubSeq(s, 1, n)) = IF 1 <= n THEN n - 1 + 1 ELSE 0
      /\ \A i \in 1..(n - 1 + 1) : SubSeq(s, 1, n)[i] = s[1 + i - 1]
  BY <1>4, <1>5, SubSeqProperties
<1>7. /\ SubSeq(s, 1, n) \in Seq(S) /\ Len(SubSeq(s, 1, n)) = n
      /\ \A i \in 1..n : SubSeq(s, 1, n)[i] = s[i]
  BY <1>4, <1>6
<1> QED BY <1>1, <1>2, <1>7 DEF n

LEMMA GotoStack ==
  ASSUME NEW S, stack \in Seq(S), stack # <<>>, NEW f \in S, Goto(f)
  PROVE  /\ stack' \in Seq(S) /\ Len(stack') = Len(stack) /\ stack' # <<>>
         /\ stack'[Len(stack)] = f /\ ret' = NoRet
         /\ \A i \in 1..(Len(stack) - 1) : stack'[i] = stack[i]
<1> DEFINE s == Front(stack)
<1>1. /\ s \in Seq(S) /\ Len(s) = Len(stack) - 1 /\ Len(stack) \in Nat \ {0}
      /\ \A i \in 1..(Len(stack) - 1) : s[i] = stack[i]
  BY FrontOf
<1>2. stack' = Append(s, f) /\ ret' = NoRet
  BY DEF Goto
<1> HIDE DEF s
<1> QED BY <1>1, <1>2

LEMMA ReturnStack ==
  ASSUME NEW S, stack \in Seq(S), stack # <<>>, NEW r, Return(r)
  PROVE  /\ stack' \in Seq(S) /\ Len(stack') = Len(stack) - 1 /\ ret' = r
         /\ \A i \in 1..(Len(stack) - 1) : stack'[i] = stack[i]
BY FrontOf DEF Return

LEMMA CallStack ==
  ASSUME NEW S, stack \in Seq(S), stack # <<>>, NEW pc, NEW f \in S, Call(pc, f),
         [Top EXCEPT !.pc = pc] \in S, Len(stack) < MaxDepth
  PROVE  /\ stack' \in Seq(S) /\ Len(stack') = Len(stack) + 1 /\ ret' = NoRet
         /\ stack'[Len(stack)] = [Top EXCEPT !.pc = pc]
         /\ stack'[Len(stack) + 1] = f
         /\ \A i \in 1..(Len(stack) - 1) : stack'[i] = stack[i]
<1> DEFINE s == Front(stack)  g == [Top EXCEPT !.pc = pc]
<1>1. /\ s \in Seq(S) /\ Len(s) = Len(stack) - 1 /\ Len(stack) \in Nat \ {0}
      /\ \A i \in 1..(Len(stack) - 1) : s[i] = stack[i]
  BY FrontOf
<1>2. stack' = s \o <<g, f>> /\ ret' = NoRet
  BY DEF Call
<1>3. g \in S
  OBVIOUS
<1> HIDE DEF s, g
<1>4. <<g, f>> \in Seq(S) /\ Len(<<g, f>>) = 2 /\ <<g, f>>[1] = g /\ <<g, f>>[2] = f
  BY <1>3
<1>5. /\ stack' \in Seq(S) /\ Len(stack') = Len(s) + 2
      /\ \A i \in 1..Len(s) : stack'[i] = s[i]
      /\ stack'[Len(s) + 1] = g /\ stack'[Len(s) + 2] = f
  <2> DEFINE t == <<g, f>>
  <2>1. t \in Seq(S) /\ Len(t) = 2 /\ t[1] = g /\ t[2] = f
    BY <1>4
  <2> HIDE DEF t
  <2>2. /\ s \o t \in Seq(S) /\ Len(s \o t) = Len(s) + Len(t)
        /\ \A i \in 1..Len(s) + Len(t) :
             (s \o t)[i] = IF i <= Len(s) THEN s[i] ELSE t[i - Len(s)]
    BY <1>1, <2>1, ConcatProperties
  <2>3. stack' = s \o t
    BY <1>2 DEF t
  <2> QED BY <1>1, <2>1, <2>2, <2>3
<1> QED BY <1>1, <1>2, <1>5 DEF g

LEMMA RaiseStack ==
  ASSUME NEW S, stack \in Seq(S), stack # <<>>, NEW pc, NEW f, Call(pc, f),
         NEW g \in S, g = [Top EXCEPT !.pc = pc], ~(Len(stack) < MaxDepth)
  PROVE  /\ stack' \in Seq(S) /\ Len(stack') = Len(stack) /\ ret' = "crash"
         /\ stack' # <<>> /\ stack'[Len(stack)] = g
         /\ \A i \in 1..(Len(stack) - 1) : stack'[i] = stack[i]
<1> DEFINE s == Front(stack)
<1>1. /\ s \in Seq(S) /\ Len(s) = Len(stack) - 1 /\ Len(stack) \in Nat \ {0}
      /\ \A i \in 1..(Len(stack) - 1) : s[i] = stack[i]
  BY FrontOf
<1>2. stack' = Append(s, g) /\ ret' = "crash"
  BY DEF Call
<1> HIDE DEF s
<1> QED BY <1>1, <1>2

\* The frame on top of a stack that the invariant describes.
LEMMA TopFrame ==
  ASSUME IInv, stack # <<>>
  PROVE  /\ FrameInv(Top) /\ Top \in Frame /\ Top = stack[Len(stack)]
         /\ Len(stack) \in Nat \ {0} /\ stage \in {"tool", "assert"}
<1>1. Len(stack) \in Nat \ {0} /\ Top = stack[Len(stack)]
  BY FrontOf DEF IInv, Top
<1> QED BY <1>1 DEF IInv, FrameInv, StepTypeOK

-----------------------------------------------------------------------------
\* A frame goes on where it is, in another position.
LEMMA GotoKeeps ==
  ASSUME IInv, stack # <<>>, NEW f, Goto(f), FrameInv(f), f.op = Top.op,
         f.fn = "solve" => Top.fn = "solve" \/ Top.op = "solve",
         UNCHANGED stepVars, acted' = acted,
         poked' \in BOOLEAN, poked => poked', Own /\ f.pc \in Polled => poked',
         timedOut' \in BOOLEAN, solves' \in Nat, found' \in Nat
  PROVE  IInv'
<1>1. /\ FrameInv(Top) /\ Top = stack[Len(stack)] /\ stack \in Seq(Frame)
      /\ Len(stack) \in Nat \ {0} /\ stage \in {"tool", "assert"} /\ f \in Frame
  BY TopFrame DEF IInv, FrameInv
<1>2. /\ stack' \in Seq(Frame) /\ Len(stack') = Len(stack) /\ stack' # <<>>
      /\ stack'[Len(stack)] = f /\ ret' = NoRet
      /\ \A i \in 1..(Len(stack) - 1) : stack'[i] = stack[i]
  BY <1>1, GotoStack
<1>3. \A i \in 1..Len(stack') : FrameInv(stack'[i])
  BY <1>1, <1>2 DEF IInv
<1>4. StepTypeOK'
  <2>1. \A i \in DOMAIN stack' : stack'[i] \in Frame
    BY <1>2
  <2> QED BY <1>1, <1>2, <2>1 DEF IInv, StepTypeOK, stepVars, healing
<1>5. OwnInv'
  <2> SUFFICES ASSUME stage = "tool"
               PROVE  /\ acted = 0
                      /\ stack'[1].op = setup.op
                      /\ stack'[1].fn = "solve" => setup.op = "solve"
                      /\ stack'[1].pc \in Polled => poked'
    BY <1>2 DEF OwnInv, stepVars
  <2>1. /\ acted = 0 /\ stack[1].op = setup.op
        /\ stack[1].fn = "solve" => setup.op = "solve"
        /\ stack[1].pc \in Polled => poked
    BY DEF IInv, OwnInv
  <2>2. CASE Len(stack) = 1
    BY <1>1, <1>2, <2>1, <2>2 DEF Own
  <2>3. CASE Len(stack) # 1
    <3>1. stack'[1] = stack[1]
      BY <1>1, <1>2, <2>3
    <3> QED BY <2>1, <3>1
  <2> QED BY <2>2, <2>3
<1>6. StageInv'
  BY <1>1 DEF IInv, StageInv, Effect, stepVars
<1> QED BY <1>2, <1>3, <1>4, <1>5, <1>6 DEF IInv

\* A frame hands its result to the one below, the last one to the step.
LEMMA ReturnKeeps ==
  ASSUME IInv, stack # <<>>, NEW r \in Returned \union CallOutcome, Return(r),
         UNCHANGED stepVars, acted' = acted \/ (Own /\ acted' = acted + 1),
         poked' \in BOOLEAN, poked => poked',
         Own /\ r \in Returned =>
           \/ acted' > 0 \/ poked' \/ r = "captcha"
           \/ setup.op \in {"solve", "fakepath"},
         Own /\ r = "injected" => acted' > 0,
         timedOut' \in BOOLEAN, solves' \in Nat, found' \in Nat
  PROVE  IInv'
<1>1. /\ stack \in Seq(Frame) /\ Len(stack) \in Nat \ {0}
      /\ stage \in {"tool", "assert"} /\ acted \in Nat
  BY TopFrame DEF IInv, StepTypeOK
<1>2. /\ stack' \in Seq(Frame) /\ Len(stack') = Len(stack) - 1 /\ ret' = r
      /\ \A i \in 1..(Len(stack) - 1) : stack'[i] = stack[i]
  BY <1>1, ReturnStack
<1>3. stack' = <<>> <=> Len(stack) = 1
  BY <1>1, <1>2, EmptySeq
<1>4. \A i \in 1..Len(stack') : FrameInv(stack'[i])
  BY <1>1, <1>2 DEF IInv
<1>5. acted' \in Nat /\ acted' <= 1 /\ (Own => acted = 0)
  BY <1>1 DEF IInv, OwnInv, Own
<1>6. StepTypeOK'
  <2>1. \A i \in DOMAIN stack' : stack'[i] \in Frame
    BY <1>2
  <2> QED BY <1>1, <1>2, <1>5, <2>1 DEF IInv, StepTypeOK, stepVars, healing
<1>7. OwnInv'
  <2> SUFFICES ASSUME stage = "tool"
               PROVE  /\ acted' = 0 \/ (stack' = <<>> /\ acted' = 1)
                      /\ stack' = <<>> /\ ret' \in Returned =>
                           \/ acted' > 0 \/ poked' \/ ret' = "captcha"
                           \/ setup.op \in {"solve", "fakepath"}
                      /\ stack' = <<>> /\ ret' = "injected" => acted' > 0
                      /\ stack' # <<>> => /\ stack'[1].op = setup.op
                                          /\ stack'[1].fn = "solve" => setup.op = "solve"
                                          /\ stack'[1].pc \in Polled => poked'
    BY DEF OwnInv, Effect, stepVars
  <2>1. /\ acted = 0 /\ stack[1].op = setup.op
        /\ stack[1].fn = "solve" => setup.op = "solve"
        /\ stack[1].pc \in Polled => poked
    BY DEF IInv, OwnInv
  <2>2. CASE Len(stack) = 1
    BY <1>2, <1>3, <2>1, <2>2 DEF Own
  <2>3. CASE Len(stack) # 1
    <3>1. stack'[1] = stack[1]
      BY <1>1, <1>2, <2>3
    <3>2. acted' = acted
      BY <2>3 DEF Own
    <3> QED BY <1>3, <2>1, <2>3, <3>1, <3>2
  <2> QED BY <2>2, <2>3
<1>8. StageInv'
  BY <1>1, <1>5 DEF IInv, StageInv, Effect, Own, stepVars
<1> QED BY <1>2, <1>4, <1>5, <1>6, <1>7, <1>8 DEF IInv

\* Under a second frame there is a first.
LEMMA BottomBelow == ASSUME NEW n \in Nat \ {0}, n # 1 PROVE 1 \in 1..(n - 1)
OBVIOUS

\* A frame waits for another one it has started.
LEMMA CallKeeps ==
  ASSUME IInv, stack # <<>>, NEW pc, NEW f, Call(pc, f), FrameInv(f),
         NEW g, g = [Top EXCEPT !.pc = pc], FrameInv(g), pc \notin Polled,
         UNCHANGED stepVars, UNCHANGED <<acted, poked, timedOut>>,
         solves' \in Nat, found' \in Nat
  PROVE  IInv'
<1>1. /\ Top \in Frame /\ Top = stack[Len(stack)] /\ stack \in Seq(Frame)
      /\ Len(stack) \in Nat \ {0} /\ stage \in {"tool", "assert"}
      /\ f \in Frame /\ g \in Frame
  BY TopFrame DEF IInv, FrameInv
<1>2. g.op = Top.op /\ g.fn = Top.fn /\ g.pc = pc /\ FrameInv(g)
  BY <1>1 DEF Frame
<1>3. /\ stack' \in Seq(Frame) /\ stack' # <<>> /\ ret' \in {NoRet, "crash"}
      /\ Len(stack') \in Nat /\ stack'[Len(stack)] = g
      /\ \A i \in 1..(Len(stack) - 1) : stack'[i] = stack[i]
      /\ \A i \in 1..Len(stack') : FrameInv(stack'[i])
  <2>1. CASE Len(stack) < MaxDepth
    <3>1. /\ stack' \in Seq(Frame) /\ Len(stack') = Len(stack) + 1 /\ ret' = NoRet
          /\ stack'[Len(stack)] = g /\ stack'[Len(stack) + 1] = f
          /\ \A i \in 1..(Len(stack) - 1) : stack'[i] = stack[i]
      BY <1>1, <2>1, CallStack
    <3>2. stack' # <<>>
      BY <1>1, <3>1, EmptySeq
    <3> QED BY <1>1, <1>2, <3>1, <3>2 DEF IInv
  <2>2. CASE ~(Len(stack) < MaxDepth)
    <3>1. /\ stack' \in Seq(Frame) /\ Len(stack') = Len(stack) /\ ret' = "crash"
          /\ stack' # <<>> /\ stack'[Len(stack)] = g
          /\ \A i \in 1..(Len(stack) - 1) : stack'[i] = stack[i]
      BY <1>1, <2>2, RaiseStack
    <3> QED BY <1>1, <1>2, <3>1 DEF IInv
  <2> QED BY <2>1, <2>2
<1>4. StepTypeOK'
  <2>1. \A i \in DOMAIN stack' : stack'[i] \in Frame
    BY <1>3
  <2> QED BY <1>1, <1>3, <2>1 DEF IInv, StepTypeOK, stepVars, healing, CallOutcome
<1>5. OwnInv'
  <2> SUFFICES ASSUME stage = "tool"
               PROVE  /\ acted = 0
                      /\ stack'[1].op = setup.op
                      /\ stack'[1].fn = "solve" => setup.op = "solve"
                      /\ stack'[1].pc \in Polled => poked'
    BY <1>3 DEF OwnInv, stepVars
  <2>1. /\ acted = 0 /\ stack[1].op = setup.op
        /\ stack[1].fn = "solve" => setup.op = "solve"
        /\ stack[1].pc \in Polled => poked
    BY DEF IInv, OwnInv
  <2>2. CASE Len(stack) = 1
    BY <1>1, <1>2, <1>3, <2>1, <2>2
  <2>3. CASE Len(stack) # 1
    <3>1. 1 \in 1..(Len(stack) - 1)
      BY <1>1, <2>3, BottomBelow
    <3>2. stack'[1] = stack[1]
      BY <1>3, <3>1
    <3> QED BY <2>1, <3>2
  <2> QED BY <2>2, <2>3
<1>6. StageInv'
  BY <1>1 DEF IInv, StageInv, Effect, stepVars
<1> QED BY <1>3, <1>4, <1>5, <1>6 DEF IInv

-----------------------------------------------------------------------------
\* The frames that the code starts, and a frame in a new position.
LEMMA NewFrames ==
  ASSUME NEW op \in Ops \union {"click", "type", "other"}, NEW h \in BOOLEAN,
         NEW n \in BOOLEAN, NEW v \in BOOLEAN
  PROVE  /\ FrameInv(ToolFrame(op, h, n, v))
         /\ ToolFrame(op, h, n, v).op = op
         /\ ToolFrame(op, h, n, v).fn = "tool"
         /\ ToolFrame(op, h, n, v).pc = "start"
<1> DEFINE g == ToolFrame(op, h, n, v)
<1>1. /\ g.fn = "tool" /\ g.op = op /\ g.pc = "start"
  BY DEF ToolFrame
<1>2. g \in Frame
  BY DEF ToolFrame, Frame, ToolPositions
<1> HIDE DEF g
<1>3. FrameInv(g)
  BY <1>1, <1>2 DEF FrameInv, ToolPositions, Polled, Intercepting
<1> QED BY <1>1, <1>3 DEF g

LEMMA NewSolveFrame ==
  ASSUME NEW f, FrameInv(f), NEW max \in Nat
  PROVE  /\ FrameInv(SolveFrame(f, max))
         /\ SolveFrame(f, max).op = f.op /\ SolveFrame(f, max).fn = "solve"
         /\ SolveFrame(f, max).pc = "snap"
<1> DEFINE m == IF max < 1 THEN 1 ELSE max
           g == [f EXCEPT !.fn = "solve", !.pc = "snap", !.n = 0, !.max = m]
<1>1. m \in Nat
  OBVIOUS
<1> HIDE DEF m
<1>2. f \in Frame
  BY DEF FrameInv
<1>3. g \in Frame
  BY <1>1, <1>2 DEF Frame, SolvePositions
<1>4. g.op = f.op /\ g.fn = "solve" /\ g.pc = "snap"
  BY <1>2 DEF Frame
<1>5. g = SolveFrame(f, max)
  BY DEF SolveFrame, m
<1> HIDE DEF g
<1>6. FrameInv(g)
  BY <1>3, <1>4 DEF FrameInv, SolvePositions, Polled, Intercepting
<1> QED BY <1>4, <1>5, <1>6

\* A jump of a tool frame to a position that asks nothing of its fields.
LEMMA JumpFrame ==
  ASSUME NEW f, FrameInv(f), f.fn = "tool",
         NEW p \in ToolPositions \ {"options", "poll"},
         p \in Polled => f.exc \in Failed,
         p \in Intercepting => f.op \in {"click", "type"}
  PROVE  /\ FrameInv([f EXCEPT !.pc = p])
         /\ [f EXCEPT !.pc = p].op = f.op /\ [f EXCEPT !.pc = p].fn = "tool"
         /\ [f EXCEPT !.pc = p].pc = p
<1> DEFINE g == [f EXCEPT !.pc = p]
<1>1. f \in Frame /\ p \in ToolPositions \union SolvePositions
  BY DEF FrameInv, ToolPositions
<1>2. g \in Frame
  BY <1>1 DEF Frame
<1>3. g.op = f.op /\ g.fn = f.fn /\ g.pc = p /\ g.exc = f.exc
  BY <1>1 DEF Frame
<1> HIDE DEF g
<1>4. FrameInv(g)
  BY <1>2, <1>3 DEF FrameInv, ToolPositions
<1> QED BY <1>3, <1>4 DEF g

LEMMA JumpKeeps ==
  ASSUME IInv, stack # <<>>, Top.fn = "tool",
         NEW p \in ToolPositions \ {"options", "poll"}, Jump(p),
         p \in Polled => Top.exc \in Failed,
         p \in Intercepting => Top.op \in {"click", "type"},
         UNCHANGED stepVars, acted' = acted,
         poked' \in BOOLEAN, poked => poked', Own /\ p \in Polled => poked',
         timedOut' \in BOOLEAN, solves' \in Nat, found' \in Nat
  PROVE  IInv'
<1> DEFINE g == [Top EXCEPT !.pc = p]
<1>1. FrameInv(g) /\ g.op = Top.op /\ g.fn = "tool" /\ g.pc = p
  BY TopFrame, JumpFrame
<1>2. Goto(g)
  BY DEF Jump
<1> HIDE DEF g
<1> QED BY <1>1, <1>2, GotoKeeps

LEMMA TypesOf ==
  ASSUME IInv
  PROVE  /\ acted \in Nat /\ solves \in Nat /\ found \in Nat /\ poked \in BOOLEAN /\ timedOut \in BOOLEAN
         /\ setup \in Setups /\ setup.op \in Ops
BY DEF IInv, StepTypeOK, Setups

\* A call of the operation that does not succeed is not a success of the step.
LEMMA DidTypes ==
  ASSUME IInv, NEW o, Did(o)
  PROVE  /\ poked' = poked /\ UNCHANGED <<solves, found>> /\ timedOut' \in BOOLEAN
         /\ poked' \in BOOLEAN /\ solves' \in Nat /\ found' \in Nat
         /\ o # "ok" => acted' = acted
         /\ Own /\ o = "ok" => acted' = acted + 1 /\ acted' > 0
         /\ acted' = acted \/ (Own /\ acted' = acted + 1)
BY TypesOf DEF Did

\* An operation that ends as its call did.
LEMMA DidReturn ==
  ASSUME IInv, stack # <<>>, NEW o \in CallOutcome, Did(o), Return(o),
         UNCHANGED stepVars
  PROVE  IInv'
<1>1. (o \in Returned => o = "ok") /\ o # "injected"
  BY DEF CallOutcome, Returned, Failed
<1> QED BY <1>1, DidTypes, ReturnKeeps

LEMMA StartToolKeeps == ASSUME IInv, StartTool PROVE IInv'
<1>1. /\ stack # <<>> /\ Top.fn = "tool" /\ Top.pc = "start"
      /\ FrameInv(Top) /\ UNCHANGED <<acted, poked, timedOut, found, solves>> /\ UNCHANGED stepVars
  BY TopFrame DEF StartTool, Running, Quiet, ghosts
<1>2. Top.op \in Ops \union {"click", "type", "other"}
  BY <1>1 DEF FrameInv, Frame
<1>3. MaxRetries \in Nat /\ Polls \in Nat \ {0}
  BY StepAssumption
<1>4. CASE Top.op = "fakepath"
  <2>1. Return("ok")
    BY <1>4 DEF StartTool
  <2>2. Own => setup.op = "fakepath"
    BY <1>1, <1>4, TopFrame DEF IInv, OwnInv, Own
  <2> QED BY <1>1, <2>1, <2>2, TypesOf, ReturnKeeps DEF Returned
<1>5. CASE Top.op = "solve"
  <2>1. CASE Top.solver
    <3>1. Goto(SolveFrame(Top, MaxRetries))
      BY <1>5, <2>1 DEF StartTool
    <3>2. /\ FrameInv(SolveFrame(Top, MaxRetries))
          /\ SolveFrame(Top, MaxRetries).op = Top.op
          /\ SolveFrame(Top, MaxRetries).pc \notin Polled
      BY <1>1, <1>3, NewSolveFrame DEF Polled
    <3> QED BY <1>1, <1>5, <3>1, <3>2, TypesOf, GotoKeeps
  <2>2. CASE ~Top.solver
    <3>1. Return("other")
      BY <1>5, <2>2 DEF StartTool
    <3> QED BY <1>1, <3>1, TypesOf, ReturnKeeps DEF Returned, CallOutcome, Failed
  <2> QED BY <2>1, <2>2
<1>6. CASE Top.op \in {"click", "type"}
  <2>1. PICK p \in {"detect", "main"} : Jump(p)
    BY <1>6 DEF StartTool
  <2>2. p \in ToolPositions \ {"options", "poll"} /\ p \notin Polled
    BY <2>1 DEF ToolPositions, Polled
  <2> QED BY <1>1, <1>6, <2>1, <2>2, TypesOf, JumpKeeps
<1>7. CASE Top.op = "select"
  <2> DEFINE g == [Top EXCEPT !.pc = "options", !.n = Polls]
  <2>1. Goto(g)
    BY <1>7 DEF StartTool
  <2>2. Top \in Frame
    BY <1>1, TopFrame
  <2>3. g \in Frame
    BY <1>3, <2>2 DEF Frame, ToolPositions
  <2>4. g.op = Top.op /\ g.fn = Top.fn /\ g.pc = "options" /\ g.n = Polls
    BY <2>2 DEF Frame
  <2> HIDE DEF g
  <2>5. FrameInv(g) /\ g.pc \notin Polled
    BY <1>1, <1>3, <2>3, <2>4 DEF FrameInv, ToolPositions, Polled, Intercepting
  <2> QED BY <1>1, <2>1, <2>4, <2>5, TypesOf, GotoKeeps
<1>8. CASE Top.op \in {"navigate", "check", "single", "other"}
  <2>1. PICK p \in {"preflight", "snapshot", "direct", "main"} : Jump(p)
    BY <1>8 DEF StartTool
  <2>2. p \in ToolPositions \ {"options", "poll"} /\ p \notin Polled /\ p \notin Intercepting
    BY <2>1 DEF ToolPositions, Polled, Intercepting
  <2> QED BY <1>1, <2>1, <2>2, TypesOf, JumpKeeps
<1> QED BY <1>2, <1>4, <1>5, <1>6, <1>7, <1>8, StepAssumption

\* A tool frame that is asked to go back to where it was, with one try less.
LEMMA FewerKeeps ==
  ASSUME IInv, stack # <<>>, Top.fn = "tool", Top.pc \in {"options", "poll"}, Top.n # 1,
         Goto([Top EXCEPT !.n = @ - 1]), UNCHANGED stepVars, UNCHANGED ghosts
  PROVE  IInv'
<1> DEFINE g == [Top EXCEPT !.n = @ - 1]
<1>1. FrameInv(Top) /\ Top \in Frame
  BY TopFrame
<1>2. Top.n \in Nat /\ Top.n > 1
  BY <1>1 DEF FrameInv, Frame
<1>3. /\ g.op = Top.op /\ g.fn = Top.fn /\ g.pc = Top.pc /\ g.exc = Top.exc
      /\ g.n = Top.n - 1
  BY <1>1 DEF Frame
<1>4. g \in Frame
  BY <1>1, <1>2 DEF Frame
<1>5. Goto(g)
  OBVIOUS
<1> HIDE DEF g
<1>6. FrameInv(g) /\ g.pc \notin Polled
  BY <1>1, <1>2, <1>3, <1>4 DEF FrameInv, Polled
<1> QED BY <1>3, <1>5, <1>6, TypesOf, GotoKeeps DEF ghosts

LEMMA PollOptionKeeps == ASSUME IInv, PollOption PROVE IInv'
<1>1. /\ stack # <<>> /\ Top.fn = "tool" /\ Top.pc = "options"
      /\ UNCHANGED stepVars /\ UNCHANGED ghosts
  BY DEF PollOption, Running, Quiet
<1>2. CASE Jump("direct")
  <2>1. "direct" \in ToolPositions \ {"options", "poll"} /\ "direct" \notin Polled
        /\ "direct" \notin Intercepting
    BY DEF ToolPositions, Polled, Intercepting
  <2> QED BY <1>1, <1>2, <2>1, TypesOf, JumpKeeps DEF ghosts
<1>3. CASE Top.n # 1 /\ Goto([Top EXCEPT !.n = @ - 1])
  BY <1>1, <1>3, FewerKeeps
<1> QED BY <1>2, <1>3 DEF PollOption

LEMMA InvokeDirectKeeps == ASSUME IInv, InvokeDirect PROVE IInv'
BY DidReturn DEF InvokeDirect, Running

LEMMA PreflightKeeps == ASSUME IInv, Preflight PROVE IInv'
<1>1. /\ stack # <<>> /\ Top.fn = "tool"
      /\ UNCHANGED stepVars /\ UNCHANGED ghosts
      /\ Jump("main") \/ Return("infra")
  BY DEF Preflight, Running, Quiet
<1>2. CASE Jump("main")
  <2>1. "main" \in ToolPositions \ {"options", "poll"} /\ "main" \notin Polled
        /\ "main" \notin Intercepting
    BY DEF ToolPositions, Polled, Intercepting
  <2> QED BY <1>1, <1>2, <2>1, TypesOf, JumpKeeps DEF ghosts
<1>3. CASE Return("infra")
  <2>1. "infra" \in CallOutcome /\ "infra" \notin Returned
    BY DEF CallOutcome, Failed, Returned
  <2> QED BY <1>1, <1>3, <2>1, TypesOf, ReturnKeeps DEF ghosts
<1> QED BY <1>1, <1>2, <1>3

LEMMA AssertTextKeeps == ASSUME IInv, AssertText PROVE IInv'
<1>1. PICK o \in CallOutcome, contains \in BOOLEAN :
        /\ Return(IF o = "ok" /\ ~contains THEN "other" ELSE o)
        /\ Did(IF o = "ok" /\ ~contains THEN "other" ELSE o)
  BY DEF AssertText
<1> DEFINE r == IF o = "ok" /\ ~contains THEN "other" ELSE o
<1>2. Return(r) /\ Did(r) /\ r \in CallOutcome
  BY <1>1 DEF CallOutcome, Failed
<1> HIDE DEF r
<1> QED BY <1>2, DidReturn DEF AssertText, Running

LEMMA DetectKeeps == ASSUME IInv, Detect PROVE IInv'
<1>1. /\ stack # <<>> /\ Top.fn = "tool" /\ Top.pc = "detect"
      /\ UNCHANGED stepVars /\ UNCHANGED <<acted, poked, timedOut, solves>>
      /\ found' \in {found, found + 1}
      /\ Jump("main") \/ Call("solving", SolveFrame(Top, InterceptRetries))
  BY DEF Detect, Running
<1>2. FrameInv(Top) /\ Top.op \in {"click", "type"} /\ solves' \in Nat /\ found' \in Nat
  BY <1>1, TopFrame, TypesOf DEF FrameInv, Intercepting
<1>3. CASE Jump("main")
  <2>1. "main" \in ToolPositions \ {"options", "poll"} /\ "main" \notin Polled
        /\ "main" \notin Intercepting
    BY DEF ToolPositions, Polled, Intercepting
  <2> QED BY <1>1, <1>2, <1>3, <2>1, TypesOf, JumpKeeps
<1>4. CASE Call("solving", SolveFrame(Top, InterceptRetries))
  <2> DEFINE g == [Top EXCEPT !.pc = "solving"]
             f == SolveFrame(Top, InterceptRetries)
  <2>1. FrameInv(f)
    BY <1>2, NewSolveFrame DEF InterceptRetries
  <2>2. "solving" \in ToolPositions \ {"options", "poll"} /\ "solving" \notin Polled
    BY DEF ToolPositions, Polled
  <2>3. FrameInv(g)
    BY <1>1, <1>2, <2>2, JumpFrame
  <2> QED BY <1>1, <1>2, <1>4, <2>1, <2>2, <2>3, CallKeeps
<1> QED BY <1>1, <1>3, <1>4

LEMMA SolvedKeeps == ASSUME IInv, Solved PROVE IInv'
<1>1. /\ stack # <<>> /\ Top.fn = "tool" /\ Top.pc = "solving"
      /\ UNCHANGED stepVars /\ UNCHANGED ghosts
  BY DEF Solved, Resuming, Quiet
<1>2. FrameInv(Top) /\ Top.op \in {"click", "type"}
  BY <1>1, TopFrame DEF FrameInv, Intercepting
<1>3. Return("captcha") \/ \E p \in {"main", "submit"} : Jump(p)
  BY <1>2 DEF Solved
<1>4. CASE Return("captcha")
  <2>1. "captcha" \in Returned
    BY DEF Returned
  <2> QED BY <1>1, <1>4, <2>1, TypesOf, ReturnKeeps DEF ghosts
<1>5. ASSUME NEW p \in {"main", "submit"}, Jump(p) PROVE IInv'
  <2>1. p \in ToolPositions \ {"options", "poll"} /\ p \notin Polled
    BY <1>5 DEF ToolPositions, Polled
  <2> QED BY <1>1, <1>2, <1>5, <2>1, TypesOf, JumpKeeps DEF ghosts
<1> QED BY <1>3, <1>4, <1>5

LEMMA SubmitKeeps == ASSUME IInv, SubmitAfterSolve PROVE IInv'
<1>1. PICK o \in CallOutcome :
        /\ IF o = "ok" THEN Return("injected") ELSE Jump("main")
        /\ Did(o)
  BY DEF SubmitAfterSolve
<1>2. stack # <<>> /\ Top.fn = "tool" /\ UNCHANGED stepVars
  BY DEF SubmitAfterSolve, Running
<1>3. CASE o = "ok"
  <2>1. "injected" \in Returned
    BY DEF Returned
  <2>2. Return("injected")
    BY <1>1, <1>3
  <2> QED BY <1>1, <1>2, <1>3, <2>1, <2>2, DidTypes, ReturnKeeps
<1>4. CASE o # "ok"
  <2>1. "main" \in ToolPositions \ {"options", "poll"} /\ "main" \notin Polled
        /\ "main" \notin Intercepting
    BY DEF ToolPositions, Polled, Intercepting
  <2>2. Jump("main")
    BY <1>1, <1>4
  <2> QED BY <1>1, <1>2, <1>4, <2>1, <2>2, DidTypes, JumpKeeps
<1> QED BY <1>3, <1>4

\* The healer takes over, or the operation is retried on the first match.
LEMMA HealKeeps ==
  ASSUME IInv, stack # <<>>, Top.fn = "tool", NEW exc \in Failed, Heal(Top, exc),
         Did(exc), UNCHANGED stepVars
  PROVE  IInv'
<1> DEFINE g == [Top EXCEPT !.pc = "poll", !.n = Polls, !.exc = exc]
<1>1. FrameInv(Top) /\ Top \in Frame /\ Polls \in Nat \ {0}
  BY TopFrame, StepAssumption
<1>2. /\ g.op = Top.op /\ g.fn = Top.fn /\ g.pc = "poll" /\ g.exc = exc /\ g.n = Polls
  BY <1>1 DEF Frame
<1>3. g \in Frame
  BY <1>1 DEF Frame, ToolPositions
<1>4. Goto(g)
  BY DEF Heal
<1> HIDE DEF g
<1>5. FrameInv(g) /\ g.pc \notin Polled
  BY <1>1, <1>2, <1>3 DEF FrameInv, Polled, ToolPositions, Intercepting
<1>6. exc # "ok"
  BY DEF Failed
<1> QED BY <1>2, <1>4, <1>5, <1>6, DidTypes, GotoKeeps

LEMMA FirstMatchKeeps ==
  ASSUME IInv, stack # <<>>, Top.fn = "tool",
         NEW p \in {"nth0", "toggleNth"}, p = "toggleNth" => Top.pc = "toggle",
         Goto([Top EXCEPT !.pc = p, !.nth = TRUE]),
         Did("strict"), UNCHANGED stepVars
  PROVE  IInv'
<1> DEFINE g == [Top EXCEPT !.pc = p, !.nth = TRUE]
<1>1. FrameInv(Top) /\ Top \in Frame
  BY TopFrame
<1>2. /\ g.op = Top.op /\ g.fn = Top.fn /\ g.pc = p /\ g.exc = Top.exc
  BY <1>1 DEF Frame
<1>3. g \in Frame
  BY <1>1 DEF Frame, ToolPositions
<1>4. Goto(g)
  OBVIOUS
<1> HIDE DEF g
<1>5. FrameInv(g)
  BY <1>1, <1>2, <1>3 DEF FrameInv, Polled, ToolPositions, Intercepting
<1>6. Own /\ g.pc \in Polled => poked'
  <2> SUFFICES ASSUME Own, g.pc \in Polled PROVE poked'
    OBVIOUS
  <2>1. Top.pc = "toggle" /\ Top = stack[1]
    BY <1>2, TopFrame DEF Polled, Own
  <2>2. poked
    BY <2>1 DEF IInv, OwnInv, Own, Polled
  <2> QED BY <2>2, DidTypes
<1> QED BY <1>2, <1>4, <1>5, <1>6, DidTypes, GotoKeeps

LEMMA InvokeMainKeeps == ASSUME IInv, InvokeMain PROVE IInv'
<1>1. PICK o \in CallOutcome :
        /\ Did(o)
        /\ CASE o = "strict" /\ ~Top.nth -> Goto([Top EXCEPT !.pc = "nth0", !.nth = TRUE])
             [] o \in Healable /\ Top.op \in {"click", "type"} -> Heal(Top, o)
             [] OTHER -> Return(o)
  BY DEF InvokeMain
<1>2. stack # <<>> /\ Top.fn = "tool" /\ UNCHANGED stepVars
  BY DEF InvokeMain, Running
<1>3. CASE o = "strict" /\ ~Top.nth
  <2>1. Goto([Top EXCEPT !.pc = "nth0", !.nth = TRUE])
    BY <1>1, <1>3 DEF Healable
  <2> QED BY <1>1, <1>2, <1>3, <2>1, FirstMatchKeeps
<1>4. CASE o \in Healable /\ Top.op \in {"click", "type"}
  <2>1. Heal(Top, o) /\ o \in Failed
    BY <1>1, <1>4 DEF Healable, Failed
  <2> QED BY <1>1, <1>2, <2>1, HealKeeps
<1>5. CASE ~(o = "strict" /\ ~Top.nth) /\ ~(o \in Healable /\ Top.op \in {"click", "type"})
  <2>1. Return(o)
    BY <1>1, <1>5
  <2> QED BY <1>1, <1>2, <2>1, DidReturn
<1> QED BY <1>3, <1>4, <1>5

LEMMA InvokeNth0Keeps == ASSUME IInv, InvokeNth0 PROVE IInv'
<1>1. PICK o \in CallOutcome :
        Did(o) /\ IF o \in Failed THEN Heal(Top, o) ELSE Return(o)
  BY DEF InvokeNth0
<1>2. stack # <<>> /\ Top.fn = "tool" /\ UNCHANGED stepVars
  BY DEF InvokeNth0, Running
<1> QED BY <1>1, <1>2, HealKeeps, DidReturn

LEMMA PollDomKeeps == ASSUME IInv, PollDom PROVE IInv'
<1>1. /\ stack # <<>> /\ Top.fn = "tool" /\ Top.pc = "poll" /\ UNCHANGED stepVars
  BY DEF PollDom, Running
<1>2. FrameInv(Top) /\ Top.exc \in Failed
  BY <1>1, TopFrame DEF FrameInv
<1>3. CASE /\ \E toggle \in BOOLEAN : Jump(IF toggle THEN "toggle" ELSE "settle")
           /\ poked' = (poked \/ Own)
           /\ UNCHANGED <<acted, timedOut, found, solves>>
  <2>1. PICK p \in {"toggle", "settle"} : Jump(p)
    BY <1>3
  <2>2. p \in ToolPositions \ {"options", "poll"} /\ p \notin Intercepting
    BY <2>1 DEF ToolPositions, Intercepting
  <2>3. poked' \in BOOLEAN /\ (poked => poked') /\ (Own => poked')
    BY <1>3
  <2> QED BY <1>1, <1>2, <1>3, <2>1, <2>2, <2>3, TypesOf, JumpKeeps
<1>4. CASE /\ IF Top.n > 1 THEN Goto([Top EXCEPT !.n = @ - 1]) ELSE Return(Top.exc)
           /\ UNCHANGED ghosts
  <2>1. CASE Top.n > 1
    <3>1. Top.n # 1 /\ Goto([Top EXCEPT !.n = @ - 1])
      BY <1>4, <2>1
    <3> QED BY <1>1, <1>4, <3>1, FewerKeeps
  <2>2. CASE ~(Top.n > 1)
    <3>1. /\ Return(Top.exc) /\ Top.exc \in CallOutcome /\ Top.exc \notin Returned
          /\ Top.exc # "injected"
      BY <1>2, <1>4, <2>2 DEF CallOutcome, Failed, Returned
    <3> QED BY <1>1, <1>4, <3>1, TypesOf, ReturnKeeps DEF ghosts
  <2> QED BY <2>1, <2>2
<1> QED BY <1>3, <1>4 DEF PollDom

\* Behind a poll the step's own frame has a click to its name.
LEMMA PolledPoked ==
  ASSUME IInv, stack # <<>>, Top.pc \in Polled, Own PROVE poked
BY TopFrame DEF IInv, OwnInv, Own

LEMMA AfterPollKeeps ==
  ASSUME IInv, stack # <<>>, Top.pc \in Polled,
         NEW r \in Returned \union CallOutcome, r # "injected", Return(r),
         NEW o, Did(o), UNCHANGED stepVars
  PROVE  IInv'
BY PolledPoked, DidTypes, ReturnKeeps

LEMMA RetryAfterToggleKeeps == ASSUME IInv, RetryAfterToggle PROVE IInv'
<1>1. PICK o \in CallOutcome :
        /\ Did(o)
        /\ CASE o = "strict" /\ ~Top.nth -> Goto([Top EXCEPT !.pc = "toggleNth", !.nth = TRUE])
             [] o = "intercept" -> Return("overlay")
             [] OTHER -> Return(o)
  BY DEF RetryAfterToggle
<1>2. stack # <<>> /\ Top.fn = "tool" /\ Top.pc = "toggle" /\ UNCHANGED stepVars
  BY DEF RetryAfterToggle, Running
<1>3. CASE o = "strict" /\ ~Top.nth
  <2>1. Goto([Top EXCEPT !.pc = "toggleNth", !.nth = TRUE])
    BY <1>1, <1>3
  <2> QED BY <1>1, <1>2, <1>3, <2>1, FirstMatchKeeps
<1>4. CASE ~(o = "strict" /\ ~Top.nth)
  <2>1. PICK r \in {"overlay", o} : Return(r)
    BY <1>1, <1>4
  <2>2. r \in Returned \union CallOutcome /\ r # "injected" /\ Top.pc \in Polled
    BY <1>2, <2>1 DEF Returned, CallOutcome, Failed, Polled
  <2> QED BY <1>1, <1>2, <2>1, <2>2, AfterPollKeeps
<1> QED BY <1>3, <1>4

LEMMA RetryToggleNth0Keeps == ASSUME IInv, RetryToggleNth0 PROVE IInv'
<1>1. PICK o \in CallOutcome :
        Did(o) /\ Return(IF o = "intercept" THEN "modal" ELSE o)
  BY DEF RetryToggleNth0
<1>2. stack # <<>> /\ Top.pc \in Polled /\ UNCHANGED stepVars
  BY DEF RetryToggleNth0, Running, Polled
<1>3. /\ (IF o = "intercept" THEN "modal" ELSE o) \in Returned \union CallOutcome
      /\ (IF o = "intercept" THEN "modal" ELSE o) # "injected"
  BY DEF Returned, CallOutcome, Failed
<1> QED BY <1>1, <1>2, <1>3, AfterPollKeeps

LEMMA RetryAfterSettleKeeps == ASSUME IInv, RetryAfterSettle PROVE IInv'
<1>1. PICK o \in CallOutcome, dispatched \in BOOLEAN :
        /\ Did(o)
        /\ CASE o = "ok" -> Return("ok")
             [] o # "ok" /\ dispatched -> Return("synthetic")
             [] o # "ok" /\ ~dispatched -> Return(Top.exc)
  BY DEF RetryAfterSettle
<1>2. /\ stack # <<>> /\ Top.pc = "settle" /\ Top.pc \in Polled /\ UNCHANGED stepVars
  BY DEF RetryAfterSettle, Running, Polled
<1>3. Top.exc \in CallOutcome /\ Top.exc # "injected"
  BY <1>2, TopFrame DEF FrameInv, CallOutcome, Failed
<1>4. PICK r \in {"ok", "synthetic", Top.exc} : Return(r)
  BY <1>1
<1>5. r \in Returned \union CallOutcome /\ r # "injected"
  BY <1>3, <1>4 DEF Returned
<1> QED BY <1>1, <1>2, <1>4, <1>5, AfterPollKeeps

-----------------------------------------------------------------------------
\* A solve frame in another position, at the same or the next attempt.
Moved(f, p, n) == [f EXCEPT !.pc = p, !.n = n]

LEMMA SolveFrameMoves ==
  ASSUME NEW f, FrameInv(f), f.fn = "solve", NEW p \in SolvePositions, NEW n \in Nat
  PROVE  /\ FrameInv(Moved(f, p, n)) /\ Moved(f, p, n).op = f.op
         /\ Moved(f, p, n).fn = "solve" /\ Moved(f, p, n).pc = p
         /\ Moved(f, p, n).n = n /\ Moved(f, p, n).max = f.max
         /\ p \notin Polled
<1> DEFINE g == Moved(f, p, n)
<1>1. f \in Frame /\ p \in ToolPositions \union SolvePositions
  BY DEF FrameInv
<1>2. g \in Frame
  BY <1>1 DEF Frame, Moved
<1>3. g.op = f.op /\ g.fn = "solve" /\ g.max = f.max /\ g.pc = p /\ g.n = n
  BY <1>1 DEF Frame, Moved
<1>4. p \notin Polled \union {"poll", "options"} /\ p \notin Intercepting
  BY DEF SolvePositions, Polled, Intercepting
<1> HIDE DEF g
<1>5. FrameInv(g)
  BY <1>2, <1>3, <1>4 DEF FrameInv
<1> QED BY <1>3, <1>4, <1>5 DEF g

\* A record in which nothing changes but one field.
LEMMA OneField ==
  ASSUME NEW f \in Frame, NEW p, NEW n
  PROVE  /\ [f EXCEPT !.pc = p] = Moved(f, p, f.n)
         /\ [f EXCEPT !.n = n] = Moved(f, f.pc, n)
BY DEF Frame, Moved

\* The frames that the solver's loop calls.
LEMMA HelperFrames ==
  ASSUME NEW t \in Frame, NEW op \in {"click", "type"}, NEW h \in BOOLEAN
  PROVE  /\ FrameInv(ToolFrame(op, h, FALSE, t.solver))
         /\ ToolFrame(op, h, FALSE, t.solver).fn = "tool"
<1> DEFINE g == ToolFrame(op, h, FALSE, t.solver)
<1>1. g.fn = "tool" /\ g.op = op /\ g.pc = "start"
  BY DEF ToolFrame
<1>2. g \in Frame
  BY DEF ToolFrame, Frame, ToolPositions
<1> HIDE DEF g
<1>3. FrameInv(g)
  BY <1>1, <1>2 DEF FrameInv, ToolPositions, Polled, Intercepting
<1> QED BY <1>1, <1>3 DEF g

\* What a solve frame that is resumed or runs is known to be.
LEMMA TopSolves ==
  ASSUME IInv, stack # <<>>, Top.fn = "solve"
  PROVE  FrameInv(Top) /\ (Own => setup.op = "solve") /\ Top.n \in Nat
         /\ Top.solver \in BOOLEAN
<1>1. FrameInv(Top) /\ Top \in Frame
  BY TopFrame
<1>2. Own => Top = stack[1]
  BY TopFrame DEF Own
<1> QED BY <1>1, <1>2 DEF IInv, OwnInv, Own, Frame

LEMMA SolverCalls ==
  ASSUME NEW pc \in {"typing", "refreshing"}, NEW f, Call(pc, f),
         f.fn = "tool", FrameInv(f),
         IInv, stack # <<>>, Top.fn = "solve", UNCHANGED stepVars,
         UNCHANGED <<acted, poked, timedOut>>,
         solves' \in Nat, found' \in Nat
  PROVE  IInv'
<1> DEFINE g == [Top EXCEPT !.pc = pc]
<1>1. FrameInv(Top) /\ 0 \in Nat
  BY TopFrame
<1>2. pc \in SolvePositions /\ pc \notin Polled
  BY DEF SolvePositions, Polled
<1>3. g = [Top EXCEPT !.pc = pc]
  OBVIOUS
<1> HIDE DEF g
<1>4. FrameInv(g)
  <2>1. Top.n \in Nat /\ Top \in Frame
    BY TopSolves, TopFrame
  <2>2. FrameInv(Moved(Top, pc, Top.n))
    BY <1>1, <1>2, <2>1, SolveFrameMoves
  <2> QED BY <1>3, <2>1, <2>2, OneField
<1> QED BY <1>2, <1>3, <1>4, CallKeeps

LEMMA AttemptFailedKeeps ==
  ASSUME IInv, stack # <<>>, Top.fn = "solve", NEW r \in Failed, AttemptFailed(r),
         UNCHANGED <<stepVars, acted, poked, timedOut>>,
         solves' \in Nat, found' \in Nat
  PROVE  IInv'
<1>1. FrameInv(Top) /\ Top.n \in Nat /\ Top.solver \in BOOLEAN
  BY TopSolves
<1>2. CASE Call("refreshing", ToolFrame("click", setup.refresh = "captcha", FALSE, Top.solver))
  <2> DEFINE f == ToolFrame("click", setup.refresh = "captcha", FALSE, Top.solver)
  <2>1. FrameInv(f) /\ f.fn = "tool"
    BY TopFrame, HelperFrames
  <2>2. Call("refreshing", f)
    BY <1>2
  <2> HIDE DEF f
  <2> QED BY <2>1, <2>2, SolverCalls
<1>3. CASE Goto([Top EXCEPT !.n = @ + 1])
  <2> DEFINE g == [Top EXCEPT !.n = Top.n + 1]
  <2>1. Goto(g) /\ g = [Top EXCEPT !.n = Top.n + 1]
    BY <1>3
  <2> HIDE DEF g
  <2>2. FrameInv(g) /\ g.op = Top.op /\ g.pc \notin Polled
    <3>1. Top.pc \in SolvePositions /\ Top.n + 1 \in Nat
      BY <1>1 DEF FrameInv
    <3>2. Top \in Frame
      BY TopFrame
    <3> DEFINE h == Moved(Top, Top.pc, Top.n + 1)
    <3>3. FrameInv(h) /\ h.op = Top.op /\ h.pc \notin Polled
      <4>1. \A p \in SolvePositions, n \in Nat :
              /\ FrameInv(Moved(Top, p, n)) /\ Moved(Top, p, n).op = Top.op
              /\ Moved(Top, p, n).pc = p /\ p \notin Polled
        BY <1>1, SolveFrameMoves
      <4> QED BY <3>1, <4>1
    <3>4. g = h
      BY <2>1, <3>2, OneField
    <3> QED BY <3>3, <3>4
  <2> QED BY <2>1, <2>2, TypesOf, GotoKeeps
<1>4. CASE Return(r)
  <2>1. r \in CallOutcome /\ r \notin Returned /\ r # "injected"
    BY DEF CallOutcome, Failed, Returned
  <2> QED BY <1>4, <2>1, TypesOf, ReturnKeeps
<1> QED BY <1>2, <1>3, <1>4 DEF AttemptFailed

LEMMA SolveAttemptKeeps == ASSUME IInv, SolveAttempt PROVE IInv'
<1>1. /\ stack # <<>> /\ Top.fn = "solve" /\ solves \in Nat /\ found' \in Nat
      /\ UNCHANGED <<stepVars, acted, poked, timedOut>>
  BY TypesOf DEF SolveAttempt, Running
<1>2. ASSUME NEW o \in CallOutcome \ {"ok"},
             AttemptFailed(IF o \in Failed THEN o ELSE "other"), UNCHANGED solves
      PROVE  IInv'
  <2>1. (IF o \in Failed THEN o ELSE "other") \in Failed
    BY DEF Failed
  <2> QED BY <1>1, <1>2, <2>1, AttemptFailedKeeps
<1>3. CASE /\ Call("typing", ToolFrame("type", FALSE, FALSE, Top.solver))
           /\ solves' \in {solves, solves + 1}
  <2> DEFINE f == ToolFrame("type", FALSE, FALSE, Top.solver)
  <2>1. FrameInv(f) /\ f.fn = "tool"
    BY <1>1, TopFrame, HelperFrames
  <2>2. Call("typing", f)
    BY <1>3
  <2>3. solves' \in Nat
    BY <1>1, <1>3
  <2> HIDE DEF f
  <2> QED BY <1>1, <2>1, <2>2, <2>3, SolverCalls
<1>4. CASE AttemptFailed("other") /\ solves' = solves + 1
  <2>1. "other" \in Failed
    BY DEF Failed
  <2> QED BY <1>1, <1>4, <2>1, AttemptFailedKeeps
<1> QED BY <1>2, <1>3, <1>4 DEF SolveAttempt

LEMMA RefreshedKeeps == ASSUME IInv, Refreshed PROVE IInv'
<1>1. /\ stack # <<>> /\ Top.fn = "solve"
      /\ UNCHANGED stepVars /\ UNCHANGED ghosts
      /\ Goto([Top EXCEPT !.pc = "snap", !.n = @ + 1])
  BY DEF Refreshed, Resuming, Quiet
<1>2. FrameInv(Top) /\ Top.n \in Nat
  BY <1>1, TopSolves
<1> DEFINE g == Moved(Top, "snap", Top.n + 1)
<1>3. Goto(g)
  BY <1>1 DEF Moved
<1>4. "snap" \in SolvePositions /\ Top.n + 1 \in Nat
  BY <1>2 DEF SolvePositions
<1>5. FrameInv(g) /\ g.op = Top.op /\ g.pc \notin Polled
  BY <1>1, <1>2, <1>4, SolveFrameMoves
<1> HIDE DEF g
<1> QED BY <1>1, <1>3, <1>5, TypesOf, GotoKeeps DEF ghosts

LEMMA TypedKeeps == ASSUME IInv, Typed PROVE IInv'
<1>1. /\ stack # <<>> /\ Top.fn = "solve" /\ ret # NoRet
      /\ UNCHANGED stepVars /\ UNCHANGED ghosts
      /\ Return(IF ret \in Returned THEN "ok" ELSE ret)
  BY DEF Typed, Resuming, Quiet
<1>2. /\ (IF ret \in Returned THEN "ok" ELSE ret) \in Returned \union CallOutcome
      /\ (IF ret \in Returned THEN "ok" ELSE ret) # "injected"
  BY <1>1 DEF IInv, StepTypeOK, Returned
<1>3. Own => setup.op = "solve"
  BY <1>1, TopSolves
<1> QED BY <1>1, <1>2, <1>3, TypesOf, ReturnKeeps DEF ghosts

-----------------------------------------------------------------------------
\* The steps of execute_step and of the wrapper, which have no frame.
LEMMA FirstFrame ==
  ASSUME NEW f, FrameInv(f), f.fn = "tool", f.pc = "start", stack' = <<f>>
  PROVE  /\ stack' \in Seq(Frame) /\ stack' # <<>> /\ Len(stack') = 1
         /\ stack'[1] = f
         /\ \A i \in 1..Len(stack') : FrameInv(stack'[i])
         /\ \A i \in DOMAIN stack' : stack'[i] \in Frame
BY DEF FrameInv

LEMMA NoFrames ==
  ASSUME IInv, stage \notin {"tool", "assert"} \/ stack = <<>>, stack' = stack
  PROVE  /\ stack' = <<>> /\ stack' \in Seq(Frame) /\ Len(stack') = 0
         /\ \A i \in 1..Len(stack') : FrameInv(stack'[i])
         /\ \A i \in DOMAIN stack' : stack'[i] \in Frame
BY DEF IInv, StepTypeOK

LEMMA ParseKeeps == ASSUME IInv, ParseOrTranslate PROVE IInv'
<1>1. /\ stage = "parse" /\ acted = 0 /\ checked = 0 /\ acted' = 0
      /\ UNCHANGED <<setup, ret, attempt, checked, value, healing, ghosts>>
  BY DEF ParseOrTranslate, IInv, StageInv, ghosts
<1>2. CASE /\ stage' = "tool"
           /\ stack' = <<ToolFrame(setup.op, setup.hint, setup.nth, setup.solver)>>
           /\ UNCHANGED outcome
  <2> DEFINE f == ToolFrame(setup.op, setup.hint, setup.nth, setup.solver)
  <2>1. /\ setup.op \in Ops /\ setup.hint \in BOOLEAN
        /\ setup.nth \in BOOLEAN /\ setup.solver \in BOOLEAN
    BY TypesOf DEF Setups
  <2>2. FrameInv(f) /\ f.op = setup.op /\ f.fn = "tool" /\ f.pc = "start"
    BY <2>1, NewFrames
  <2>3. stack' = <<f>>
    BY <1>2
  <2> HIDE DEF f
  <2>4. /\ stack' \in Seq(Frame) /\ stack' # <<>> /\ stack'[1] = f
        /\ \A i \in 1..Len(stack') : FrameInv(stack'[i])
        /\ \A i \in DOMAIN stack' : stack'[i] \in Frame
    BY <2>2, <2>3, FirstFrame
  <2>5. StepTypeOK'
    BY <1>1, <1>2, <2>4 DEF IInv, StepTypeOK, healing, ghosts
  <2>6. OwnInv'
    BY <1>1, <2>2, <2>4 DEF OwnInv, Polled, ghosts
  <2>7. StageInv'
    BY <1>1, <1>2 DEF StageInv
  <2> QED BY <1>1, <2>4, <2>5, <2>6, <2>7 DEF IInv
<1>3. CASE /\ \E r \in IF setup.prose THEN {"SKIP", "ERROR", "FAIL"} ELSE {"ERROR", "FAIL"} : outcome' = r
           /\ stage' = "ended"
           /\ UNCHANGED stack
  <2>1. outcome' \in {"SKIP", "ERROR", "FAIL"}
    BY <1>3
  <2>2. /\ stack' = <<>> /\ stack' \in Seq(Frame) /\ Len(stack') = 0
        /\ \A i \in 1..Len(stack') : FrameInv(stack'[i])
        /\ \A i \in DOMAIN stack' : stack'[i] \in Frame
    BY <1>1, <1>3, NoFrames
  <2>3. StepTypeOK'
    BY <1>1, <1>3, <2>1, <2>2 DEF IInv, StepTypeOK, healing, ghosts
  <2> QED BY <1>1, <1>3, <2>1, <2>2, <2>3 DEF IInv, OwnInv, StageInv
<1> QED BY <1>2, <1>3 DEF ParseOrTranslate

\* The step ends or goes on to its next assertion.
LEMMA NextStageKeeps ==
  ASSUME IInv, stack = <<>>, ret' = NoRet, checked' \in 0..setup.asserts,
         value' \in {NoRet} \union Returned \union CallOutcome,
         UNCHANGED <<setup, attempt, healing, ghosts>>,
         \/ RunAssertion /\ checked' < setup.asserts /\ Effect(value')
         \/ \E r \in {"FAIL", "FATAL"} : Finish(r)
         \/ Finish("PASS") /\ checked' = setup.asserts /\ Effect(value')
  PROVE  IInv'
<1>1. UNCHANGED <<setup, attempt, kept, inserted, report, acted, poked, timedOut, found, solves>>
  BY DEF healing, ghosts
<1>2. CASE RunAssertion /\ checked' < setup.asserts /\ Effect(value')
  <2> DEFINE f == ToolFrame("other", FALSE, FALSE, FALSE)
  <2>1. FrameInv(f) /\ f.fn = "tool" /\ f.pc = "start"
    BY NewFrames
  <2>2. stack' = <<f>> /\ stage' = "assert" /\ outcome' = outcome
    BY <1>2 DEF RunAssertion
  <2> HIDE DEF f
  <2>3. /\ stack' \in Seq(Frame) /\ stack' # <<>> /\ stack'[1] = f
        /\ \A i \in 1..Len(stack') : FrameInv(stack'[i])
        /\ \A i \in DOMAIN stack' : stack'[i] \in Frame
    BY <2>1, <2>2, FirstFrame
  <2>4. StepTypeOK'
    BY <1>1, <2>2, <2>3 DEF IInv, StepTypeOK
  <2>5. OwnInv' /\ StageInv'
    BY <1>1, <1>2, <2>2 DEF OwnInv, StageInv, Effect, ghosts
  <2> QED BY <1>1, <2>3, <2>4, <2>5 DEF IInv
<1>3. CASE \/ \E r \in {"FAIL", "FATAL"} : Finish(r)
           \/ Finish("PASS") /\ checked' = setup.asserts /\ Effect(value')
  <2>1. /\ stage' = "ended" /\ stack' = stack
        /\ outcome' \in {"PASS", "FAIL", "FATAL"}
        /\ outcome' = "PASS" => checked' = setup.asserts /\ Effect(value')
    BY <1>3 DEF Finish
  <2>2. /\ stack' = <<>> /\ stack' \in Seq(Frame)
        /\ \A i \in 1..Len(stack') : FrameInv(stack'[i])
        /\ \A i \in DOMAIN stack' : stack'[i] \in Frame
    BY <2>1, NoFrames
  <2>3. StepTypeOK'
    BY <1>1, <2>1, <2>2 DEF IInv, StepTypeOK
  <2>4. OwnInv' /\ StageInv'
    BY <1>1, <2>1 DEF OwnInv, StageInv, Effect, ghosts
  <2> QED BY <1>1, <2>2, <2>3, <2>4 DEF IInv
<1> QED BY <1>2, <1>3

LEMMA ToolReturnedKeeps == ASSUME IInv, ToolReturned PROVE IInv'
<1>1. /\ stage = "tool" /\ stack = <<>> /\ ret # NoRet /\ checked = 0
      /\ value' = ret /\ ret' = NoRet /\ checked' = checked
      /\ UNCHANGED <<setup, attempt, healing, ghosts>>
      /\ ret \in Returned \union CallOutcome /\ setup.asserts \in Nat
  BY StepAssumption DEF ToolReturned, IInv, StageInv, StepTypeOK, Setups
<1>2. ret \in Returned => Effect(ret)
  BY <1>1 DEF IInv, OwnInv
<1>3. OutcomeOf(ret) \in {"FAIL", "FATAL"}
  BY DEF OutcomeOf
<1>4. \/ ret \notin Returned /\ Finish(OutcomeOf(ret))
      \/ ret \in Returned /\ setup.asserts = 0 /\ Finish("PASS")
      \/ ret \in Returned /\ setup.asserts > 0 /\ RunAssertion
  <2>1. setup.asserts = 0 \/ setup.asserts > 0
    BY <1>1
  <2> QED BY <2>1 DEF ToolReturned
<1> QED BY <1>1, <1>2, <1>3, <1>4, NextStageKeeps

LEMMA AssertionReturnedKeeps == ASSUME IInv, AssertionReturned PROVE IInv'
<1>1. /\ stage = "assert" /\ stack = <<>> /\ ret # NoRet /\ Effect(value)
      /\ checked < setup.asserts
      /\ value' = value /\ ret' = NoRet
      /\ checked' = IF ret \in Returned THEN checked + 1 ELSE checked
      /\ UNCHANGED <<setup, attempt, healing, ghosts>>
      /\ checked \in Nat /\ setup.asserts \in Nat
      /\ value \in {NoRet} \union Returned \union CallOutcome
  BY StepAssumption DEF AssertionReturned, IInv, StageInv, StepTypeOK, Setups
<1>2. checked' \in 0..setup.asserts
  BY <1>1
<1>3. OutcomeOf(ret) \in {"FAIL", "FATAL"}
  BY DEF OutcomeOf
<1>4. \/ ret \notin Returned /\ Finish(OutcomeOf(ret))
      \/ ret \in Returned /\ checked' = setup.asserts /\ Finish("PASS")
      \/ ret \in Returned /\ checked' < setup.asserts /\ RunAssertion
  <2>1. checked' = setup.asserts \/ checked' < setup.asserts
    BY <1>1, <1>2
  <2> QED BY <2>1 DEF AssertionReturned
<1> QED BY <1>1, <1>2, <1>3, <1>4, NextStageKeeps

LEMMA ProposeRepairKeeps == ASSUME IInv, ProposeRepair PROVE IInv'
<1>1. /\ stage = "ended" /\ stage' = "parse" /\ attempt' = 2
      /\ checked' = 0 /\ value' = NoRet /\ acted' = 0 /\ poked' = FALSE
      /\ timedOut' = FALSE /\ found' = 0 /\ solves' = 0
      /\ UNCHANGED <<setup, stack, ret, outcome, kept, inserted, report>>
      /\ setup.asserts \in Nat
  BY StepAssumption DEF ProposeRepair, RetryRepaired, healing, IInv, StepTypeOK, Setups
<1>2. /\ stack' = <<>> /\ stack' \in Seq(Frame)
      /\ \A i \in 1..Len(stack') : FrameInv(stack'[i])
      /\ \A i \in DOMAIN stack' : stack'[i] \in Frame
  BY <1>1, NoFrames
<1>3. attempt' \in 1..2 /\ checked' \in 0..setup'.asserts /\ acted' \in Nat
  BY <1>1
<1>4. poked' \in BOOLEAN /\ timedOut' \in BOOLEAN /\ found' \in Nat /\ solves' \in Nat
  BY <1>1
<1>5. StepTypeOK'
  BY <1>1, <1>2, <1>3, <1>4 DEF IInv, StepTypeOK
<1> QED BY <1>1, <1>2, <1>5 DEF IInv, OwnInv, StageInv

\* What a write-back leaves has its type.
LEMMA PersistTypes ==
  ASSUME NEW kind \in {"repair", "captcha", "injected"}, NEW committed \in BOOLEAN,
         Persist(kind, committed)
  PROVE  /\ report' \in [kind : {"none", "repair", "captcha", "injected"}, persisted : BOOLEAN]
         /\ report'.kind = kind /\ (report'.persisted => committed)
BY DEF Persist

\* The end of the step, in two writes.
LEMMA WriteBackKeeps ==
  ASSUME IInv, stage \in {"ended", "retried"}, stage' \in {"retried", "done"},
         kept' \in {"own", "repaired", "solve"}, inserted' \in BOOLEAN,
         report' \in [kind : {"none", "repair", "captcha", "injected"}, persisted : BOOLEAN],
         UNCHANGED <<setup, stack, ret, attempt, checked, value, outcome, ghosts>>
  PROVE  IInv'
<1>1. UNCHANGED <<acted, poked, timedOut, found, solves>>
  BY DEF ghosts
<1>2. /\ stack' = <<>> /\ stack' \in Seq(Frame)
      /\ \A i \in 1..Len(stack') : FrameInv(stack'[i])
      /\ \A i \in DOMAIN stack' : stack'[i] \in Frame
  BY NoFrames
<1>3. StepTypeOK'
  BY <1>1, <1>2 DEF IInv, StepTypeOK
<1> QED BY <1>1, <1>2, <1>3 DEF IInv, OwnInv, StageInv, Effect

LEMMA PersistRepairKeeps == ASSUME IInv, PersistRepair PROVE IInv'
<1>1. /\ stage = "ended" /\ stage' = "retried"
      /\ UNCHANGED <<setup, stack, ret, attempt, checked, value, outcome, ghosts>>
  BY DEF PersistRepair
<1>2. /\ kept \in {"own", "repaired", "solve"} /\ inserted \in BOOLEAN
      /\ report \in [kind : {"none", "repair", "captcha", "injected"}, persisted : BOOLEAN]
  BY DEF IInv, StepTypeOK
<1>3. CASE UNCHANGED healing
  BY <1>1, <1>2, <1>3, WriteBackKeeps DEF healing
<1>4. ASSUME NEW committed \in {FALSE, outcome = "PASS"}, Persist("repair", committed),
             kept' = (IF committed THEN "repaired" ELSE kept), UNCHANGED inserted
      PROVE  IInv'
  <2>1. committed \in BOOLEAN
    BY <1>4
  <2>2. report' \in [kind : {"none", "repair", "captcha", "injected"}, persisted : BOOLEAN]
    BY <1>4, <2>1, PersistTypes
  <2> QED BY <1>1, <1>2, <1>4, <2>2, WriteBackKeeps
<1> QED BY <1>3, <1>4 DEF PersistRepair

LEMMA PersistCaptchaKeeps == ASSUME IInv, PersistCaptcha PROVE IInv'
<1>1. /\ stage = "retried" /\ stage' = "done"
      /\ UNCHANGED <<setup, stack, ret, attempt, checked, value, outcome, ghosts>>
  BY DEF PersistCaptcha
<1>2. /\ kept \in {"own", "repaired", "solve"} /\ inserted \in BOOLEAN
      /\ report \in [kind : {"none", "repair", "captcha", "injected"}, persisted : BOOLEAN]
  BY DEF IInv, StepTypeOK
<1>3. CASE UNCHANGED healing
  BY <1>1, <1>2, <1>3, WriteBackKeeps DEF healing
<1>4. ASSUME value \in {"captcha", "injected"}, NEW committed \in BOOLEAN,
             Persist(value, committed),
             kept' = (IF committed /\ value = "captcha" THEN "solve" ELSE kept),
             inserted' = (committed /\ value = "injected")
      PROVE  IInv'
  <2>1. value \in {"repair", "captcha", "injected"}
    BY <1>4
  <2>2. report' \in [kind : {"none", "repair", "captcha", "injected"}, persisted : BOOLEAN]
    BY <1>4, <2>1, PersistTypes
  <2>3. kept' \in {"own", "repaired", "solve"} /\ inserted' \in BOOLEAN
    BY <1>2, <1>4
  <2> QED BY <1>1, <2>2, <2>3, WriteBackKeeps
<1> QED BY <1>3, <1>4 DEF PersistCaptcha

LEMMA IInvInit == Init => IInv
<1> SUFFICES ASSUME Init PROVE IInv
  OBVIOUS
<1>1. setup \in Setups /\ setup.asserts \in Nat
  BY StepAssumption DEF Init, Setups
<1>2. StepTypeOK
  <2>1. /\ checked = 0 /\ checked \in 0..setup.asserts /\ attempt \in 1..2
        /\ stack = <<>> /\ DOMAIN stack = {}
    BY <1>1 DEF Init
  <2> QED BY <1>1, <2>1 DEF Init, StepTypeOK
<1> QED BY <1>1, <1>2 DEF Init, IInv, OwnInv, StageInv

LEMMA IInvStep == IInv /\ [Next]_vars => IInv'
<1> SUFFICES ASSUME IInv, [Next]_vars PROVE IInv'
  OBVIOUS
<1>1. CASE UNCHANGED vars
  BY <1>1 DEF vars, healing, IInv, StepTypeOK, OwnInv, StageInv, Effect
<1>2. CASE Coroutine
  BY <1>2, StartToolKeeps, PollOptionKeeps, InvokeDirectKeeps, PreflightKeeps,
     AssertTextKeeps, DetectKeeps, SolvedKeeps, SubmitKeeps, InvokeMainKeeps,
     InvokeNth0Keeps, PollDomKeeps, RetryAfterToggleKeeps, RetryToggleNth0Keeps,
     RetryAfterSettleKeeps, SolveAttemptKeeps, RefreshedKeeps, TypedKeeps,
     ParseKeeps, ToolReturnedKeeps, AssertionReturnedKeeps, ProposeRepairKeeps,
     PersistRepairKeeps, PersistCaptchaKeeps DEF Coroutine
<1> QED BY <1>1, <1>2 DEF Next, Done

\* The variables keep their types, whatever the frames on the stack and the
\* ways their calls end.
THEOREM StepTypeCorrect == Spec => []StepTypeOK
<1>1. IInv => StepTypeOK
  BY DEF IInv
<1> QED BY <1>1, IInvInit, IInvStep, PTL DEF Spec

\* PassIsEarned, for any step: an outcome PASS of execute_step comes with all
\* assertions passed and an operation that took effect in this attempt.
THEOREM PassesAreEarned == Spec => []PassIsEarned
<1>1. IInv => PassIsEarned
  BY DEF IInv, StageInv, Effect, Earned, PassIsEarned
<1> QED BY <1>1, IInvInit, IInvStep, PTL DEF Spec

\* ActsOnce, for any step: no path through interception, nth=0 retry and healer
\* calls the operation again after a call of it has succeeded.
THEOREM OperationsActOnce == Spec => []ActsOnce
<1>1. IInv => ActsOnce
  BY DEF IInv, ActsOnce
<1> QED BY <1>1, IInvInit, IInvStep, PTL DEF Spec

-----------------------------------------------------------------------------
\* The test case as it was, and nothing reported.
Unhealed == kept = "own" /\ ~inserted /\ ~report.persisted

HealInv ==
  /\ stage \notin {"retried", "done"} => Unhealed
  /\ stage = "retried" =>
       /\ ~inserted /\ kept \in {"own", "repaired"}
       /\ report.persisted => report.kind = "repair" /\ kept = "repaired"
  /\ HealingIsProved

\* Before the write-backs nothing of the case changes.
LEMMA StepKeepsCase ==
  ASSUME IInv, Coroutine, ~PersistRepair, ~PersistCaptcha
  PROVE  UNCHANGED healing /\ stage \notin {"retried", "done"} /\ stage' \notin {"retried", "done"}
<1>1. stack # <<>> => stage \in {"tool", "assert"}
  BY TopFrame
<1>2. CASE stack # <<>> /\ UNCHANGED stepVars
  BY <1>1, <1>2 DEF stepVars
<1>3. CASE ParseOrTranslate \/ ToolReturned \/ AssertionReturned \/ ProposeRepair
  <2>1. setup.asserts \in Nat /\ (stage = "assert" => checked \in Nat /\ checked < setup.asserts)
    <3>1. setup.asserts \in Nat
      BY StepAssumption DEF IInv, StepTypeOK, Setups
    <3>2. checked \in Nat
      BY <3>1 DEF IInv, StepTypeOK
    <3> QED BY <3>1, <3>2 DEF IInv, StageInv
  <2>2. CASE ParseOrTranslate \/ ProposeRepair
    BY <2>2 DEF ParseOrTranslate, ProposeRepair, RetryRepaired
  <2>3. CASE ToolReturned
    <3>1. setup.asserts = 0 \/ setup.asserts > 0
      BY <2>1
    <3>2. RunAssertion \/ \E r : Finish(r)
      BY <2>3, <3>1 DEF ToolReturned
    <3> QED BY <2>3, <3>2 DEF ToolReturned, RunAssertion, Finish
  <2>4. CASE AssertionReturned
    <3>1. checked' = setup.asserts \/ checked' < setup.asserts
      BY <2>1, <2>4 DEF AssertionReturned
    <3>2. RunAssertion \/ \E r : Finish(r)
      BY <2>4, <3>1 DEF AssertionReturned
    <3> QED BY <2>4, <3>2 DEF AssertionReturned, RunAssertion, Finish
  <2> QED BY <1>3, <2>2, <2>3, <2>4
<1>4. CASE StartTool \/ PollOption \/ InvokeDirect \/ Preflight \/ AssertText \/ Detect
  BY <1>2, <1>4 DEF StartTool, PollOption, InvokeDirect, Preflight, AssertText, Detect,
                    Running, Quiet, stepVars
<1>5. CASE Solved \/ SubmitAfterSolve \/ InvokeMain \/ InvokeNth0 \/ PollDom
  BY <1>2, <1>5 DEF Solved, SubmitAfterSolve, InvokeMain, InvokeNth0, PollDom,
                    Running, Resuming, Quiet
<1>6. CASE RetryAfterToggle \/ RetryToggleNth0 \/ RetryAfterSettle
  BY <1>2, <1>6 DEF RetryAfterToggle, RetryToggleNth0, RetryAfterSettle, Running
<1>7. CASE SolveAttempt \/ Refreshed \/ Typed
  BY <1>2, <1>7 DEF SolveAttempt, Refreshed, Typed, Running, Resuming, Quiet, stepVars
<1> QED BY <1>3, <1>4, <1>5, <1>6, <1>7 DEF Coroutine

LEMMA EarlyHeal ==
  ASSUME HealInv, UNCHANGED healing,
         stage \notin {"retried", "done"}, stage' \notin {"retried", "done"}
  PROVE  HealInv'
<1>1. Unhealed'
  BY DEF HealInv, Unhealed, healing
<1> QED BY <1>1 DEF HealInv, Unhealed, HealingIsProved

\* A pass is earned when the step has ended, and stays so while it is written back.
LEMMA PassEarned ==
  ASSUME IInv, stage \in {"ended", "retried"}, outcome = "PASS",
         UNCHANGED <<setup, checked, value, ghosts>>
  PROVE  Earned' /\ (value = "injected" => acted' > 0)
BY DEF IInv, StageInv, Effect, Earned, ghosts

LEMMA PersistRepairHeals == ASSUME IInv, HealInv, PersistRepair PROVE HealInv'
<1>1. /\ stage = "ended" /\ stage' = "retried" /\ Unhealed
      /\ UNCHANGED <<setup, stack, ret, attempt, checked, value, outcome, ghosts>>
  BY DEF PersistRepair, HealInv
<1>2. CASE UNCHANGED healing
  <2>1. Unhealed'
    BY <1>1, <1>2 DEF Unhealed, healing
  <2> QED BY <1>1, <2>1 DEF HealInv, Unhealed, HealingIsProved
<1>3. ASSUME attempt = 2, NEW committed \in {FALSE, outcome = "PASS"},
             Persist("repair", committed),
             kept' = (IF committed THEN "repaired" ELSE kept), UNCHANGED inserted
      PROVE  HealInv'
  <2>1. /\ committed \in BOOLEAN /\ report'.kind = "repair"
        /\ report'.persisted => committed
    BY <1>3, PersistTypes
  <2>2. CASE committed
    <3>1. outcome = "PASS" /\ kept' = "repaired" /\ ~inserted'
      BY <1>1, <1>3, <2>2 DEF Unhealed
    <3>2. Earned'
      BY <1>1, <3>1, PassEarned
    <3>3. HealingIsProved'
      BY <1>1, <1>3, <2>1, <3>1, <3>2 DEF HealingIsProved
    <3> QED BY <1>1, <2>1, <3>1, <3>3 DEF HealInv
  <2>3. CASE ~committed
    <3>1. Unhealed'
      BY <1>1, <1>3, <2>1, <2>3 DEF Unhealed
    <3> QED BY <1>1, <3>1 DEF HealInv, Unhealed, HealingIsProved
  <2> QED BY <2>2, <2>3
<1> QED BY <1>2, <1>3 DEF PersistRepair

LEMMA PersistCaptchaHeals == ASSUME IInv, HealInv, PersistCaptcha PROVE HealInv'
<1>1. /\ stage = "retried" /\ stage' = "done"
      /\ UNCHANGED <<setup, stack, ret, attempt, checked, value, outcome, ghosts>>
      /\ ~inserted /\ kept \in {"own", "repaired"} /\ HealingIsProved
      /\ report.persisted => report.kind = "repair" /\ kept = "repaired"
  BY DEF PersistCaptcha, HealInv
<1>2. outcome = "PASS" => Earned' /\ (value = "injected" => acted' > 0)
  BY <1>1, PassEarned
<1>3. kept = "repaired" => outcome = "PASS" /\ attempt = 2
  BY <1>1 DEF HealingIsProved
<1>4. CASE UNCHANGED healing
  <2>1. kept' = kept /\ ~inserted' /\ report' = report
    BY <1>1, <1>4 DEF healing
  <2>2. HealingIsProved'
    BY <1>1, <1>2, <1>3, <2>1 DEF HealingIsProved
  <2> QED BY <1>1, <2>2 DEF HealInv
<1>5. ASSUME outcome = "PASS", value \in {"captcha", "injected"}, NEW committed \in BOOLEAN,
             Persist(value, committed),
             kept' = (IF committed /\ value = "captcha" THEN "solve" ELSE kept),
             inserted' = (committed /\ value = "injected")
      PROVE  HealInv'
  <2>1. report'.kind = value /\ (report'.persisted => committed)
    BY <1>5, PersistTypes
  <2>2. HealingIsProved'
    <3>1. CASE value = "captcha"
      BY <1>1, <1>2, <1>3, <1>5, <2>1, <3>1 DEF HealingIsProved
    <3>2. CASE value = "injected"
      BY <1>1, <1>2, <1>3, <1>5, <2>1, <3>2 DEF HealingIsProved
    <3> QED BY <1>5, <3>1, <3>2
  <2> QED BY <1>1, <2>2 DEF HealInv
<1> QED BY <1>4, <1>5 DEF PersistCaptcha

LEMMA HealInit == Init => HealInv
<1> SUFFICES ASSUME Init PROVE HealInv
  OBVIOUS
<1>1. Unhealed /\ stage = "parse"
  BY DEF Init, Unhealed
<1> QED BY <1>1 DEF HealInv, Unhealed, HealingIsProved

LEMMA HealStep == IInv /\ HealInv /\ [Next]_vars => HealInv'
<1> SUFFICES ASSUME IInv, HealInv, [Next]_vars PROVE HealInv'
  OBVIOUS
<1>1. CASE UNCHANGED vars
  BY <1>1 DEF vars, HealInv, Unhealed, HealingIsProved, Earned
<1>2. CASE Coroutine
  <2>1. CASE PersistRepair
    BY <2>1, PersistRepairHeals
  <2>2. CASE PersistCaptcha
    BY <2>2, PersistCaptchaHeals
  <2>3. CASE ~PersistRepair /\ ~PersistCaptcha
    BY <1>2, <2>3, StepKeepsCase, EarlyHeal
  <2> QED BY <2>1, <2>2, <2>3
<1> QED BY <1>1, <1>2 DEF Next, Done

\* HealingIsProved, for any step, whichever of the two write-backs fails: what
\* healing left in the test case comes from the attempt that passed, and what is
\* reported as persisted is there.
THEOREM HealingProved == Spec => []HealingIsProved
<1>1. HealInv => HealingIsProved
  BY DEF HealInv
<1> QED BY <1>1, IInvInit, IInvStep, HealInit, HealStep, PTL DEF Spec

-----------------------------------------------------------------------------
\* The vision calls that a frame may still make.
AtLeastOne(n) == IF n < 1 THEN 1 ELSE n

Left(f) ==
  IF f.fn = "solve" THEN f.max - f.n - (IF f.pc = "snap" THEN 0 ELSE 1)
  ELSE IF f.op = "solve" THEN AtLeastOne(MaxRetries) ELSE 0

\* A solve frame is in one of its attempts, and refreshes only before the last.
InLoop(f) ==
  f.fn = "solve" => f.n < f.max /\ (f.pc = "refreshing" => f.n < f.max - 1)

\* s[i] is what the lowest i frames of st may still call.
Sums(s, st) ==
  /\ s \in [0..Len(st) -> Nat] /\ s[0] = 0
  /\ \A i \in 1..Len(st) : s[i] = s[i - 1] + Left(st[i])

Granted == OwnRetries + InterceptRetries * found

BudgetInv ==
  /\ \A i \in 1..Len(stack) : InLoop(stack[i])
  /\ stage = "parse" => solves = 0
  /\ \E s : Sums(s, stack) /\ solves + s[Len(stack)] <= Granted

LEMMA LeftNat ==
  ASSUME NEW f, FrameInv(f), InLoop(f) PROVE Left(f) \in Nat
BY StepAssumption DEF FrameInv, InLoop, Left, AtLeastOne, Frame

LEMMA GrantedNat ==
  ASSUME IInv
  PROVE  /\ OwnRetries \in Nat /\ found \in Nat /\ solves \in Nat
         /\ InterceptRetries = 3 /\ Granted \in Nat
BY TypesOf, StepAssumption DEF OwnRetries, InterceptRetries, Granted

\* What was and may be called depends on the sums up to the frame on top.
LEMMA TopSum ==
  ASSUME IInv, BudgetInv, stack # <<>>
  PROVE  \E s : /\ Sums(s, stack) /\ InLoop(Top) /\ Left(Top) \in Nat
                /\ s[Len(stack)] = s[Len(stack) - 1] + Left(Top)
                /\ s[Len(stack) - 1] \in Nat
                /\ solves + s[Len(stack) - 1] + Left(Top) <= Granted
<1>1. /\ FrameInv(Top) /\ Top = stack[Len(stack)] /\ Len(stack) \in Nat \ {0}
  BY TopFrame
<1>2. PICK s : Sums(s, stack) /\ solves + s[Len(stack)] <= Granted
  BY DEF BudgetInv
<1>3. Len(stack) \in 1..Len(stack) /\ Len(stack) - 1 \in 0..Len(stack)
  BY <1>1
<1>4. InLoop(Top)
  BY <1>1, <1>3 DEF BudgetInv
<1>5. Left(Top) \in Nat
  BY <1>1, <1>4, LeftNat
<1>6. s[Len(stack)] = s[Len(stack) - 1] + Left(Top) /\ s[Len(stack) - 1] \in Nat
  BY <1>1, <1>2, <1>3 DEF Sums
<1>7. solves + s[Len(stack) - 1] + Left(Top) <= Granted
  BY <1>2, <1>5, <1>6, GrantedNat
<1> QED BY <1>2, <1>4, <1>5, <1>6, <1>7

\* What one step calls and leaves, against what it grants.
LEMMA SpentAndLeft ==
  ASSUME NEW own \in Nat, NEW f0 \in Nat, NEW f1 \in Nat, NEW v0 \in Nat, NEW v1 \in Nat,
         NEW a \in Nat, NEW b \in Nat, NEW c \in Nat,
         v0 + a + c <= own + 3 * f0, v1 + b + 3 * f0 <= v0 + c + 3 * f1
  PROVE  v1 + (a + b) <= own + 3 * f1
OBVIOUS

\* The frame on top gives way to another.
LEMMA ReplaceBudget ==
  ASSUME IInv, IInv', BudgetInv, stack # <<>>, NEW f, InLoop(f), FrameInv(f),
         Len(stack') = Len(stack), stack'[Len(stack)] = f,
         \A i \in 1..(Len(stack) - 1) : stack'[i] = stack[i],
         UNCHANGED stepVars,
         solves' + Left(f) + 3 * found <= solves + Left(Top) + 3 * found'
  PROVE  BudgetInv'
<1>1. Len(stack) \in Nat \ {0} /\ stage \in {"tool", "assert"}
  BY TopFrame
<1> DEFINE n == Len(stack)
<1>2. PICK s : /\ Sums(s, stack) /\ InLoop(Top) /\ Left(Top) \in Nat
               /\ s[n - 1] \in Nat
               /\ solves + s[n - 1] + Left(Top) <= Granted
  BY TopSum
<1> DEFINE t == [i \in 0..n |-> IF i = n THEN s[n - 1] + Left(f) ELSE s[i]]
<1>3. n \in Nat \ {0} /\ Len(stack') = n /\ Left(f) \in Nat
  BY <1>1, LeftNat
<1>4. /\ s \in [0..n -> Nat] /\ s[0] = 0
      /\ \A i \in 1..n : s[i] = s[i - 1] + Left(stack[i])
  BY <1>2 DEF Sums
<1>5. stack'[n] = f /\ \A i \in 1..(n - 1) : stack'[i] = stack[i]
  OBVIOUS
<1>6. \A i \in 1..n : InLoop(stack[i])
  BY DEF BudgetInv
<1> HIDE DEF n
<1>7. t \in [0..n -> Nat] /\ t[0] = 0 /\ t[n] = s[n - 1] + Left(f)
  BY <1>2, <1>3, <1>4
<1>8. \A i \in 1..n : t[i] = t[i - 1] + Left(stack'[i])
  <2> TAKE i \in 1..n
  <2>1. i - 1 \in 0..n /\ i - 1 # n /\ t[i - 1] = s[i - 1]
    BY <1>3
  <2>2. CASE i = n
    BY <1>5, <1>7, <2>1, <2>2
  <2>3. CASE i # n
    <3>1. i \in 1..(n - 1) /\ i \in 0..n
      BY <1>3, <2>3
    <3>2. t[i] = s[i] /\ stack'[i] = stack[i]
      BY <1>5, <2>3, <3>1
    <3> QED BY <1>4, <2>1, <3>2
  <2> QED BY <2>2, <2>3
<1>9. Sums(t, stack')
  BY <1>3, <1>7, <1>8 DEF Sums
<1> HIDE DEF t
<1>10. \A i \in 1..n : InLoop(stack'[i])
  <2> TAKE i \in 1..n
  <2>1. CASE i = n
    BY <1>5, <2>1
  <2>2. CASE i # n
    <3>1. i \in 1..(n - 1)
      BY <1>3, <2>2
    <3> QED BY <1>5, <1>6, <3>1
  <2> QED BY <2>1, <2>2
<1>11. OwnRetries' = OwnRetries /\ stage' = stage
  BY DEF OwnRetries, stepVars
<1>12. solves' + t[n] <= Granted'
  <2>1. /\ OwnRetries \in Nat /\ found \in Nat /\ solves \in Nat /\ Granted = OwnRetries + 3 * found
    BY GrantedNat DEF Granted
  <2>2. found' \in Nat /\ solves' \in Nat
    BY DEF IInv, StepTypeOK
  <2>3. Granted' = OwnRetries + 3 * found'
    BY <1>11 DEF Granted, InterceptRetries
  <2> DEFINE a == s[n - 1]  b == Left(f)  c == Left(Top)
  <2>4. a \in Nat /\ b \in Nat /\ c \in Nat /\ t[n] = a + b
    BY <1>2, <1>3, <1>7
  <2>5. solves + a + c <= OwnRetries + 3 * found
    BY <1>2, <2>1
  <2>6. solves' + b + 3 * found <= solves + c + 3 * found'
    OBVIOUS
  <2> HIDE DEF a, b, c
  <2>7. solves' + (a + b) <= OwnRetries + 3 * found'
    BY <2>1, <2>2, <2>4, <2>5, <2>6, SpentAndLeft
  <2> QED BY <2>3, <2>4, <2>7
<1> QED BY <1>1, <1>3, <1>9, <1>10, <1>11, <1>12 DEF BudgetInv

\* The frame on top waits for one that it calls.
LEMMA PushBudget ==
  ASSUME IInv, IInv', BudgetInv, stack # <<>>,
         NEW f, InLoop(f), FrameInv(f), NEW g, InLoop(g), FrameInv(g),
         Len(stack') = Len(stack) + 1, stack'[Len(stack)] = g, stack'[Len(stack) + 1] = f,
         \A i \in 1..(Len(stack) - 1) : stack'[i] = stack[i],
         UNCHANGED stepVars,
         solves' + (Left(g) + Left(f)) + 3 * found <= solves + Left(Top) + 3 * found'
  PROVE  BudgetInv'
<1>1. Len(stack) \in Nat \ {0} /\ stage \in {"tool", "assert"}
  BY TopFrame
<1> DEFINE n == Len(stack)
<1>2. PICK s : /\ Sums(s, stack) /\ InLoop(Top) /\ Left(Top) \in Nat
               /\ s[n - 1] \in Nat
               /\ solves + s[n - 1] + Left(Top) <= Granted
  BY TopSum
<1> DEFINE t == [i \in 0..(n + 1) |->
                   IF i = n + 1 THEN s[n - 1] + (Left(g) + Left(f))
                   ELSE IF i = n THEN s[n - 1] + Left(g) ELSE s[i]]
<1>3. n \in Nat \ {0} /\ Len(stack') = n + 1 /\ Left(f) \in Nat /\ Left(g) \in Nat
  BY <1>1, LeftNat
<1>4. /\ s \in [0..n -> Nat] /\ s[0] = 0
      /\ \A i \in 1..n : s[i] = s[i - 1] + Left(stack[i])
  BY <1>2 DEF Sums
<1>5. /\ stack'[n] = g /\ stack'[n + 1] = f
      /\ \A i \in 1..(n - 1) : stack'[i] = stack[i]
  OBVIOUS
<1>6. \A i \in 1..n : InLoop(stack[i])
  BY DEF BudgetInv
<1> HIDE DEF n
<1>7. /\ t \in [0..(n + 1) -> Nat] /\ t[0] = 0
      /\ t[n] = s[n - 1] + Left(g) /\ t[n + 1] = s[n - 1] + (Left(g) + Left(f))
  BY <1>2, <1>3, <1>4
<1>8. \A i \in 1..(n + 1) : t[i] = t[i - 1] + Left(stack'[i])
  <2> TAKE i \in 1..(n + 1)
  <2>1. CASE i = n + 1
    BY <1>2, <1>3, <1>5, <1>7, <2>1
  <2>2. CASE i = n
    <3>1. i - 1 \in 0..(n + 1) /\ i - 1 # n /\ i - 1 # n + 1
      BY <1>3, <2>2
    <3>2. t[i - 1] = s[n - 1]
      BY <2>2, <3>1
    <3> QED BY <1>5, <1>7, <2>2, <3>2
  <2>3. CASE i # n /\ i # n + 1
    <3>1. /\ i \in 1..(n - 1) /\ i \in 1..n /\ i \in 0..(n + 1) /\ i - 1 \in 0..(n + 1)
          /\ i - 1 # n /\ i - 1 # n + 1
      BY <1>3, <2>3
    <3>2. t[i] = s[i] /\ t[i - 1] = s[i - 1] /\ stack'[i] = stack[i]
      BY <1>5, <2>3, <3>1
    <3> QED BY <1>4, <3>1, <3>2
  <2> QED BY <2>1, <2>2, <2>3
<1>9. Sums(t, stack')
  BY <1>3, <1>7, <1>8 DEF Sums
<1> HIDE DEF t
<1>10. \A i \in 1..(n + 1) : InLoop(stack'[i])
  <2> TAKE i \in 1..(n + 1)
  <2>1. CASE i = n \/ i = n + 1
    BY <1>5, <2>1
  <2>2. CASE i # n /\ i # n + 1
    <3>1. i \in 1..(n - 1) /\ i \in 1..n
      BY <1>3, <2>2
    <3> QED BY <1>5, <1>6, <3>1
  <2> QED BY <2>1, <2>2
<1>11. OwnRetries' = OwnRetries /\ stage' = stage
  BY DEF OwnRetries, stepVars
<1>12. solves' + t[n + 1] <= Granted'
  <2>1. /\ OwnRetries \in Nat /\ found \in Nat /\ solves \in Nat /\ Granted = OwnRetries + 3 * found
    BY GrantedNat DEF Granted
  <2>2. found' \in Nat /\ solves' \in Nat
    BY DEF IInv, StepTypeOK
  <2>3. Granted' = OwnRetries + 3 * found'
    BY <1>11 DEF Granted, InterceptRetries
  <2> DEFINE a == s[n - 1]  b == Left(g) + Left(f)  c == Left(Top)
  <2>4. a \in Nat /\ b \in Nat /\ c \in Nat /\ t[n + 1] = a + b
    <3>1. Left(g) + Left(f) \in Nat
      BY <1>3
    <3> QED BY <1>2, <1>7, <3>1
  <2>5. solves + a + c <= OwnRetries + 3 * found
    BY <1>2, <2>1
  <2>6. solves' + b + 3 * found <= solves + c + 3 * found'
    OBVIOUS
  <2> HIDE DEF a, b, c
  <2>7. solves' + (a + b) <= OwnRetries + 3 * found'
    BY <2>1, <2>2, <2>4, <2>5, <2>6, SpentAndLeft
  <2> QED BY <2>3, <2>4, <2>7
<1> QED BY <1>1, <1>3, <1>9, <1>10, <1>11, <1>12 DEF BudgetInv

\* The frame on top returns, and what it had left is not called any more.
LEMMA PopBudget ==
  ASSUME IInv, IInv', BudgetInv, stack # <<>>, NEW r, Return(r),
         UNCHANGED <<stepVars, found>>, solves' <= solves + Left(Top)
  PROVE  BudgetInv'
<1>1. Len(stack) \in Nat \ {0} /\ stage \in {"tool", "assert"} /\ stack \in Seq(Frame)
  BY TopFrame DEF IInv
<1>2. /\ Len(stack') = Len(stack) - 1
      /\ \A i \in 1..(Len(stack) - 1) : stack'[i] = stack[i]
  BY <1>1, ReturnStack
<1> DEFINE n == Len(stack)
<1>3. PICK s : /\ Sums(s, stack) /\ Left(Top) \in Nat /\ s[n - 1] \in Nat
               /\ solves + s[n - 1] + Left(Top) <= Granted
  BY TopSum
<1> DEFINE t == [i \in 0..(n - 1) |-> s[i]]
<1>4. n \in Nat \ {0} /\ Len(stack') = n - 1 /\ \A i \in 1..(n - 1) : stack'[i] = stack[i]
  BY <1>1, <1>2
<1>5. /\ s \in [0..n -> Nat] /\ s[0] = 0
      /\ \A i \in 1..n : s[i] = s[i - 1] + Left(stack[i])
  BY <1>3 DEF Sums
<1>6. \A i \in 1..n : InLoop(stack[i])
  BY DEF BudgetInv
<1> HIDE DEF n
<1>7. t \in [0..(n - 1) -> Nat] /\ t[0] = 0 /\ t[n - 1] = s[n - 1]
  BY <1>4, <1>5
<1>8. \A i \in 1..(n - 1) : t[i] = t[i - 1] + Left(stack'[i]) /\ InLoop(stack'[i])
  <2> TAKE i \in 1..(n - 1)
  <2>1. i \in 1..n /\ i \in 0..(n - 1) /\ i - 1 \in 0..(n - 1)
    BY <1>4
  <2> QED BY <1>4, <1>5, <1>6, <2>1
<1>9. Sums(t, stack')
  BY <1>4, <1>7, <1>8 DEF Sums
<1> HIDE DEF t
<1>10. Granted' = Granted /\ stage' = stage
  BY DEF Granted, OwnRetries, stepVars
<1>11. solves' + t[n - 1] <= Granted'
  <2>1. solves \in Nat /\ Granted \in Nat /\ solves' \in Nat
    BY GrantedNat DEF IInv, StepTypeOK
  <2> QED BY <1>3, <1>7, <1>10, <2>1
<1> QED BY <1>1, <1>4, <1>8, <1>9, <1>10, <1>11 DEF BudgetInv

\* A tool frame goes on, or returns, without a call of the solver.
Moves ==
  /\ stack # <<>> /\ Top.fn = "tool" /\ UNCHANGED <<stepVars, solves, found>>
  /\ \/ \E f \in Frame : f.fn = "tool" /\ f.op = Top.op /\ Goto(f)
     \/ \E r : Return(r)

LEMMA MovesBudget ==
  ASSUME IInv, IInv', BudgetInv, Moves PROVE BudgetInv'
<1>1. /\ stack \in Seq(Frame) /\ Len(stack) \in Nat \ {0} /\ FrameInv(Top)
      /\ solves \in Nat /\ found \in Nat /\ Left(Top) \in Nat
  BY TopFrame, TopSum, TypesOf DEF IInv, Moves
<1>2. ASSUME NEW f \in Frame, f.fn = "tool", f.op = Top.op, Goto(f) PROVE BudgetInv'
  <2>1. /\ Len(stack') = Len(stack) /\ stack'[Len(stack)] = f
        /\ \A i \in 1..(Len(stack) - 1) : stack'[i] = stack[i]
    BY <1>1, <1>2, GotoStack DEF Moves
  <2>2. InLoop(f) /\ Left(f) = Left(Top)
    BY <1>2 DEF InLoop, Left, Moves
  <2>3. FrameInv(f)
    <3>1. Len(stack) \in 1..Len(stack')
      BY <1>1, <2>1
    <3> QED BY <2>1, <3>1 DEF IInv
  <2>4. solves' + Left(f) + 3 * found <= solves + Left(Top) + 3 * found'
    BY <1>1, <2>2 DEF Moves
  <2> QED BY <2>1, <2>2, <2>3, <2>4, ReplaceBudget DEF Moves
<1>3. ASSUME NEW r, Return(r) PROVE BudgetInv'
  <2>1. solves' <= solves + Left(Top)
    BY <1>1 DEF Moves
  <2> QED BY <1>3, <2>1, PopBudget DEF Moves
<1> QED BY <1>2, <1>3 DEF Moves

\* The ways in which a tool frame goes on with the same tool.
LEMMA SameTool ==
  ASSUME IInv, stack # <<>>, Top.fn = "tool"
  PROVE  /\ \A p \in ToolPositions :
              Jump(p) => \E f \in Frame : f.fn = "tool" /\ f.op = Top.op /\ Goto(f)
         /\ \A p \in ToolPositions :
              Goto([Top EXCEPT !.pc = p, !.nth = TRUE]) =>
                \E f \in Frame : f.fn = "tool" /\ f.op = Top.op /\ Goto(f)
         /\ \A p \in ToolPositions, n \in Nat :
              Goto([Top EXCEPT !.pc = p, !.n = n]) =>
                \E f \in Frame : f.fn = "tool" /\ f.op = Top.op /\ Goto(f)
         /\ Top.n > 1 /\ Goto([Top EXCEPT !.n = @ - 1]) =>
                \E f \in Frame : f.fn = "tool" /\ f.op = Top.op /\ Goto(f)
         /\ \A exc \in Failed :
              Heal(Top, exc) => \E f \in Frame : f.fn = "tool" /\ f.op = Top.op /\ Goto(f)
<1>1. Top \in Frame /\ Top.n \in Nat
  BY TopFrame DEF Frame
<1>2. ASSUME NEW p \in ToolPositions, Jump(p)
      PROVE  \E f \in Frame : f.fn = "tool" /\ f.op = Top.op /\ Goto(f)
  <2>1. [Top EXCEPT !.pc = p] \in Frame
    BY <1>1 DEF Frame
  <2> QED BY <1>1, <1>2, <2>1 DEF Jump, Frame
<1>3. ASSUME NEW p \in ToolPositions, Goto([Top EXCEPT !.pc = p, !.nth = TRUE])
      PROVE  \E f \in Frame : f.fn = "tool" /\ f.op = Top.op /\ Goto(f)
  <2>1. [Top EXCEPT !.pc = p, !.nth = TRUE] \in Frame
    BY <1>1 DEF Frame
  <2> QED BY <1>1, <1>3, <2>1 DEF Frame
<1>4. ASSUME NEW p \in ToolPositions, NEW n \in Nat, Goto([Top EXCEPT !.pc = p, !.n = n])
      PROVE  \E f \in Frame : f.fn = "tool" /\ f.op = Top.op /\ Goto(f)
  <2>1. [Top EXCEPT !.pc = p, !.n = n] \in Frame
    BY <1>1 DEF Frame
  <2> QED BY <1>1, <1>4, <2>1 DEF Frame
<1>5. ASSUME Top.n > 1, Goto([Top EXCEPT !.n = @ - 1])
      PROVE  \E f \in Frame : f.fn = "tool" /\ f.op = Top.op /\ Goto(f)
  <2>1. Top.n - 1 \in Nat
    BY <1>1, <1>5
  <2>2. [Top EXCEPT !.n = Top.n - 1] \in Frame
    BY <1>1, <2>1 DEF Frame
  <2>3. [Top EXCEPT !.n = @ - 1] = [Top EXCEPT !.n = Top.n - 1]
    OBVIOUS
  <2> QED BY <1>1, <1>5, <2>2, <2>3 DEF Frame
<1>6. ASSUME NEW exc \in Failed, Heal(Top, exc)
      PROVE  \E f \in Frame : f.fn = "tool" /\ f.op = Top.op /\ Goto(f)
  <2>1. Polls \in Nat /\ "poll" \in ToolPositions
    BY StepAssumption DEF ToolPositions
  <2>2. [Top EXCEPT !.pc = "poll", !.n = Polls, !.exc = exc] \in Frame
    BY <1>1, <2>1 DEF Frame
  <2> QED BY <1>1, <1>6, <2>2 DEF Heal, Frame
<1> QED BY <1>2, <1>3, <1>4, <1>5, <1>6

\* What a call of the operation itself leaves of the budget.
LEMMA DidBudget == ASSUME NEW o, Did(o), UNCHANGED stepVars
                   PROVE  UNCHANGED <<stepVars, solves, found>>
BY DEF Did

LEMMA StartToolBudget == ASSUME IInv, IInv', BudgetInv, StartTool PROVE BudgetInv'
<1>1. /\ stack # <<>> /\ Top.fn = "tool" /\ Top.pc = "start" /\ FrameInv(Top) /\ Top \in Frame
      /\ UNCHANGED <<stepVars, solves, found>> /\ Top.op \in Ops \union {"click", "type", "other"}
  BY TopFrame DEF StartTool, Running, Quiet, ghosts, FrameInv, Frame
<1>2. CASE Top.op = "solve" /\ Top.solver
  <2> DEFINE g == SolveFrame(Top, MaxRetries)
  <2>1. Goto(g)
    BY <1>2 DEF StartTool
  <2>2. MaxRetries \in Nat
    BY StepAssumption
  <2>3. FrameInv(g) /\ g.fn = "solve" /\ g.pc = "snap" /\ g \in Frame
    BY <1>1, <2>2, NewSolveFrame DEF FrameInv
  <2>4. g.n = 0 /\ g.max = AtLeastOne(MaxRetries)
    BY <1>1 DEF SolveFrame, AtLeastOne, Frame
  <2> HIDE DEF g
  <2>5. /\ stack \in Seq(Frame) /\ Len(stack') = Len(stack) /\ stack'[Len(stack)] = g
        /\ \A i \in 1..(Len(stack) - 1) : stack'[i] = stack[i]
    BY <1>1, <2>1, <2>3, GotoStack DEF IInv
  <2>6. AtLeastOne(MaxRetries) \in Nat /\ AtLeastOne(MaxRetries) > 0
    BY <2>2 DEF AtLeastOne
  <2>7. InLoop(g) /\ Left(g) = AtLeastOne(MaxRetries) /\ Left(Top) = Left(g)
    BY <1>1, <1>2, <2>3, <2>4, <2>6 DEF InLoop, Left
  <2>8. solves' + Left(g) + 3 * found <= solves + Left(Top) + 3 * found'
    BY <1>1, <2>6, <2>7, TypesOf
  <2> QED BY <1>1, <2>3, <2>5, <2>7, <2>8, ReplaceBudget
<1>3. CASE ~(Top.op = "solve" /\ Top.solver)
  <2>1. \/ \E r : Return(r)
        \/ \E p \in ToolPositions : Jump(p)
        \/ Goto([Top EXCEPT !.pc = "options", !.n = Polls])
    BY <1>1, <1>3, StepAssumption DEF StartTool, ToolPositions
  <2>2. "options" \in ToolPositions /\ Polls \in Nat
    BY StepAssumption DEF ToolPositions
  <2>3. Moves
    BY <1>1, <2>1, <2>2, SameTool DEF Moves
  <2> QED BY <2>3, MovesBudget
<1> QED BY <1>2, <1>3

LEMMA CallMoves ==
  ASSUME IInv, InvokeDirect \/ Preflight \/ AssertText \/ PollOption PROVE Moves
<1>1. stack # <<>> /\ Top.fn = "tool" /\ UNCHANGED stepVars
  BY DEF InvokeDirect, Preflight, AssertText, PollOption, Running, Quiet
<1>2. UNCHANGED <<solves, found>>
  BY DEF InvokeDirect, Preflight, AssertText, PollOption, Quiet, ghosts, Did
<1>3. \/ \E r : Return(r)
      \/ \E p \in ToolPositions : Jump(p)
      \/ Top.n > 1 /\ Goto([Top EXCEPT !.n = @ - 1])
  <2>1. CASE InvokeDirect \/ Preflight \/ AssertText
    BY <2>1 DEF InvokeDirect, Preflight, AssertText, ToolPositions
  <2>2. CASE PollOption
    <3>1. Top.n \in Nat /\ Top.n >= 1
      BY <1>1, <2>2, TopFrame DEF FrameInv, Frame, PollOption, Running
    <3> QED BY <2>2, <3>1 DEF PollOption, ToolPositions
  <2> QED BY <2>1, <2>2
<1> QED BY <1>1, <1>2, <1>3, SameTool DEF Moves

LEMMA SolvedMoves ==
  ASSUME IInv, Solved \/ SubmitAfterSolve PROVE Moves
<1>1. stack # <<>> /\ Top.fn = "tool" /\ UNCHANGED stepVars
  BY DEF Solved, SubmitAfterSolve, Running, Resuming, Quiet
<1>2. UNCHANGED <<solves, found>>
  BY DEF Solved, SubmitAfterSolve, Quiet, ghosts, Did
<1>3. (\E r : Return(r)) \/ \E p \in ToolPositions : Jump(p)
  <2>1. CASE Solved
    <3>1. Top.op \in {"click", "type"}
      BY <2>1, TopFrame DEF Solved, Resuming, FrameInv, Intercepting
    <3> QED BY <2>1, <3>1 DEF Solved, ToolPositions
  <2>2. CASE SubmitAfterSolve
    BY <2>2 DEF SubmitAfterSolve, ToolPositions
  <2> QED BY <2>1, <2>2
<1> QED BY <1>1, <1>2, <1>3, SameTool DEF Moves

LEMMA MainMoves ==
  ASSUME IInv, InvokeMain \/ InvokeNth0 PROVE Moves
<1>1. stack # <<>> /\ Top.fn = "tool" /\ UNCHANGED <<stepVars, solves, found>>
  BY DidBudget DEF InvokeMain, InvokeNth0, Running, Did
<1>2. \/ \E r : Return(r)
      \/ Goto([Top EXCEPT !.pc = "nth0", !.nth = TRUE])
      \/ \E exc \in Failed : Heal(Top, exc)
  <2>1. CASE InvokeMain
    <3>1. PICK o \in CallOutcome :
            CASE o = "strict" /\ ~Top.nth -> Goto([Top EXCEPT !.pc = "nth0", !.nth = TRUE])
              [] o \in Healable /\ Top.op \in {"click", "type"} -> Heal(Top, o)
              [] OTHER -> Return(o)
      BY <2>1 DEF InvokeMain
    <3>2. CASE o = "strict" /\ ~Top.nth
      BY <3>1, <3>2 DEF Healable
    <3>3. CASE o \in Healable /\ Top.op \in {"click", "type"}
      <4>1. Heal(Top, o) /\ o \in Failed
        BY <3>1, <3>3 DEF Healable, Failed
      <4> QED BY <4>1
    <3>4. CASE ~(o = "strict" /\ ~Top.nth) /\ ~(o \in Healable /\ Top.op \in {"click", "type"})
      <4>1. Return(o)
        BY <3>1, <3>4
      <4> QED BY <4>1
    <3> QED BY <3>2, <3>3, <3>4
  <2>2. CASE InvokeNth0
    BY <2>2 DEF InvokeNth0
  <2> QED BY <2>1, <2>2
<1>3. "nth0" \in ToolPositions
  BY DEF ToolPositions
<1> QED BY <1>1, <1>2, <1>3, SameTool DEF Moves

LEMMA HealerMoves ==
  ASSUME IInv, PollDom \/ RetryAfterToggle \/ RetryToggleNth0 \/ RetryAfterSettle PROVE Moves
<1>1. stack # <<>> /\ Top.fn = "tool" /\ UNCHANGED stepVars
  BY DEF PollDom, RetryAfterToggle, RetryToggleNth0, RetryAfterSettle, Running
<1>2. UNCHANGED <<solves, found>>
  BY DEF PollDom, RetryAfterToggle, RetryToggleNth0, RetryAfterSettle, Did, ghosts
<1>3. \/ \E r : Return(r)
      \/ \E p \in ToolPositions : Jump(p)
      \/ Goto([Top EXCEPT !.pc = "toggleNth", !.nth = TRUE])
      \/ Top.n > 1 /\ Goto([Top EXCEPT !.n = @ - 1])
  <2>1. CASE PollDom
    BY <2>1 DEF PollDom, ToolPositions
  <2>2. CASE RetryAfterToggle
    BY <2>2 DEF RetryAfterToggle
  <2>3. CASE RetryToggleNth0
    BY <2>3 DEF RetryToggleNth0
  <2>4. CASE RetryAfterSettle
    <3>1. \E o \in CallOutcome, dispatched \in BOOLEAN :
             Return("ok") \/ Return("synthetic") \/ Return(Top.exc)
      BY <2>4 DEF RetryAfterSettle
    <3> QED BY <3>1
  <2> QED BY <2>1, <2>2, <2>3, <2>4
<1>4. "toggleNth" \in ToolPositions
  BY DEF ToolPositions
<1> QED BY <1>1, <1>2, <1>3, <1>4, SameTool DEF Moves

\* A frame calls another one, or meets the recursion limit.
LEMMA CallBudget ==
  ASSUME IInv, IInv', BudgetInv, stack # <<>>, NEW pc,
         NEW f, Call(pc, f), FrameInv(f), InLoop(f),
         NEW g, g = [Top EXCEPT !.pc = pc], FrameInv(g), InLoop(g), UNCHANGED stepVars,
         solves' + (Left(g) + Left(f)) + 3 * found <= solves + Left(Top) + 3 * found'
  PROVE  BudgetInv'
<1>1. stack \in Seq(Frame) /\ f \in Frame /\ g \in Frame /\ Len(stack) \in Nat
  BY TopFrame DEF IInv, FrameInv
<1>2. CASE Len(stack) < MaxDepth
  <2>1. /\ Len(stack') = Len(stack) + 1
        /\ stack'[Len(stack)] = g /\ stack'[Len(stack) + 1] = f
        /\ \A i \in 1..(Len(stack) - 1) : stack'[i] = stack[i]
    BY <1>1, <1>2, CallStack
  <2> QED BY <2>1, PushBudget
<1>3. CASE ~(Len(stack) < MaxDepth)
  <2>1. /\ Len(stack') = Len(stack) /\ stack'[Len(stack)] = g
        /\ \A i \in 1..(Len(stack) - 1) : stack'[i] = stack[i]
    BY <1>1, <1>3, RaiseStack
  <2>2. Left(f) \in Nat /\ Left(g) \in Nat /\ Left(Top) \in Nat
    BY LeftNat, TopSum
  <2>3. solves' \in Nat /\ solves \in Nat /\ found \in Nat /\ found' \in Nat
    BY DEF IInv, StepTypeOK
  <2>4. solves' + Left(g) + 3 * found <= solves + Left(Top) + 3 * found'
    BY <2>2, <2>3
  <2> QED BY <2>1, <2>4, ReplaceBudget
<1> QED BY <1>2, <1>3

LEMMA DetectBudget == ASSUME IInv, IInv', BudgetInv, Detect PROVE BudgetInv'
<1>1. /\ stack # <<>> /\ Top.fn = "tool" /\ Top.pc = "detect" /\ FrameInv(Top) /\ Top \in Frame
      /\ UNCHANGED <<stepVars, solves>> /\ Top.op \in {"click", "type"}
      /\ \/ Jump("main") /\ found' = found
         \/ Call("solving", SolveFrame(Top, InterceptRetries)) /\ found' = found + 1
  BY TopFrame DEF Detect, Running, FrameInv, Intercepting
<1>2. CASE Jump("main") /\ found' = found
  <2>1. "main" \in ToolPositions
    BY DEF ToolPositions
  <2>2. Moves
    BY <1>1, <1>2, <2>1, SameTool DEF Moves
  <2> QED BY <2>2, MovesBudget
<1>3. CASE Call("solving", SolveFrame(Top, InterceptRetries)) /\ found' = found + 1
  <2> DEFINE f == SolveFrame(Top, InterceptRetries)
             g == [Top EXCEPT !.pc = "solving"]
  <2>1. FrameInv(f) /\ f.fn = "solve" /\ f.pc = "snap"
    BY <1>1, NewSolveFrame DEF InterceptRetries
  <2>2. f.n = 0 /\ f.max = 3
    BY <1>1 DEF SolveFrame, InterceptRetries, Frame
  <2>3. "solving" \in ToolPositions \ {"options", "poll"} /\ "solving" \notin Polled
    BY DEF ToolPositions, Polled
  <2>4. FrameInv(g) /\ g.fn = "tool" /\ g.op = Top.op
    BY <1>1, <2>3, JumpFrame
  <2>5. Call("solving", f) /\ g = [Top EXCEPT !.pc = "solving"]
    BY <1>3
  <2> HIDE DEF f, g
  <2>6. InLoop(f) /\ Left(f) = 3
    BY <2>1, <2>2 DEF InLoop, Left
  <2>7. InLoop(g) /\ Left(g) = 0 /\ Left(Top) = 0
    BY <1>1, <2>4 DEF InLoop, Left
  <2>8. solves' + (Left(g) + Left(f)) + 3 * found <= solves + Left(Top) + 3 * found'
    BY <1>1, <1>3, <2>6, <2>7, TypesOf
  <2> QED BY <1>1, <2>1, <2>4, <2>5, <2>6, <2>7, <2>8, CallBudget
<1> QED BY <1>1, <1>2, <1>3

\* The attempts of the solver: what is left of each frame that runs one.
LEMMA TopAttempts ==
  ASSUME IInv, BudgetInv, stack # <<>>, Top.fn = "solve"
  PROVE  /\ FrameInv(Top) /\ Top \in Frame /\ Top.n \in Nat /\ Top.max \in Nat
         /\ Top.n < Top.max /\ solves \in Nat /\ found \in Nat
         /\ Top.pc = "snap" => Left(Top) = Top.max - Top.n
         /\ Top.pc # "snap" => Left(Top) = Top.max - Top.n - 1
         /\ Top.pc = "refreshing" => Top.n < Top.max - 1
<1>1. FrameInv(Top) /\ Top \in Frame
  BY TopFrame
<1>2. InLoop(Top)
  BY TopSum
<1>3. Top.n \in Nat /\ Top.max \in Nat
  BY <1>1 DEF Frame
<1> QED BY <1>1, <1>2, <1>3, TypesOf DEF InLoop, Left

LEMMA TopMoves ==
  ASSUME IInv, BudgetInv, stack # <<>>, Top.fn = "solve"
  PROVE  \A p \in SolvePositions, n \in Nat :
           /\ FrameInv(Moved(Top, p, n)) /\ Moved(Top, p, n).fn = "solve"
           /\ Moved(Top, p, n).pc = p /\ Moved(Top, p, n).n = n
           /\ Moved(Top, p, n).max = Top.max
<1>1. FrameInv(Top)
  BY TopAttempts
<1> QED BY <1>1, SolveFrameMoves

\* The next attempt of the loop.
LEMMA NextAttemptBudget ==
  ASSUME IInv, IInv', BudgetInv, stack # <<>>, Top.fn = "solve",
         Top.pc \in {"snap", "refreshing"}, Top.n < Top.max - 1,
         Goto(Moved(Top, "snap", Top.n + 1)), UNCHANGED <<stepVars, found>>,
         solves' \in {solves, solves + 1}, Top.pc = "refreshing" => solves' = solves
  PROVE  BudgetInv'
<1> DEFINE g == Moved(Top, "snap", Top.n + 1)
<1>1. "snap" \in SolvePositions /\ Top.n + 1 \in Nat
  BY TopAttempts DEF SolvePositions
<1>2. FrameInv(g) /\ g.fn = "solve" /\ g.pc = "snap" /\ g.n = Top.n + 1 /\ g.max = Top.max
  BY <1>1, TopMoves
<1>3. Goto(g)
  OBVIOUS
<1> HIDE DEF g
<1>4. InLoop(g) /\ Left(g) = Top.max - Top.n - 1
  <2>1. Top.n \in Nat /\ Top.max \in Nat
    BY TopAttempts
  <2>2. /\ g.n \in Nat /\ g.max \in Nat /\ g.n < g.max
        /\ g.max - g.n - 0 = Top.max - Top.n - 1
    BY <1>2, <2>1
  <2> QED BY <1>2, <2>2 DEF InLoop, Left
<1>5. /\ stack \in Seq(Frame) /\ g \in Frame
      /\ Len(stack') = Len(stack) /\ stack'[Len(stack)] = g
      /\ \A i \in 1..(Len(stack) - 1) : stack'[i] = stack[i]
  BY <1>2, <1>3, GotoStack DEF IInv, FrameInv
<1>6. solves' + Left(g) + 3 * found <= solves + Left(Top) + 3 * found'
  <2>1. Top.n \in Nat /\ Top.max \in Nat /\ solves \in Nat /\ found \in Nat /\ found' = found
    BY TopAttempts
  <2>2. CASE Top.pc = "snap"
    <3>1. Left(Top) = Top.max - Top.n
      BY <2>2, TopAttempts
    <3> QED BY <1>4, <2>1, <3>1
  <2>3. CASE Top.pc = "refreshing"
    <3>1. Left(Top) = Top.max - Top.n - 1 /\ solves' = solves
      BY <2>3, TopAttempts
    <3> QED BY <1>4, <2>1, <3>1
  <2> QED BY <2>2, <2>3
<1> QED BY <1>2, <1>4, <1>5, <1>6, ReplaceBudget

\* The loop calls a helper, for its refresh or its text.
LEMMA HelperBudget ==
  ASSUME IInv, IInv', BudgetInv, stack # <<>>, Top.fn = "solve", Top.pc = "snap",
         NEW pc \in {"typing", "refreshing"}, pc = "refreshing" => Top.n < Top.max - 1,
         NEW f, Call(pc, f), FrameInv(f), f.fn = "tool", f.op # "solve",
         UNCHANGED <<stepVars, found>>, solves' \in {solves, solves + 1}
  PROVE  BudgetInv'
<1> DEFINE g == Moved(Top, pc, Top.n)
<1>1. pc \in SolvePositions /\ pc # "snap"
  BY DEF SolvePositions
<1>2. FrameInv(g) /\ g.fn = "solve" /\ g.pc = pc /\ g.n = Top.n /\ g.max = Top.max
  <2>1. Top.n \in Nat
    BY TopAttempts
  <2> QED BY <1>1, <2>1, TopMoves
<1>3. g = [Top EXCEPT !.pc = pc]
  BY TopAttempts, OneField
<1> HIDE DEF g
<1>4. InLoop(g) /\ Left(g) = Top.max - Top.n - 1
  BY <1>1, <1>2, TopAttempts DEF InLoop, Left
<1>5. InLoop(f) /\ Left(f) = 0
  BY DEF InLoop, Left
<1>6. solves' + (Left(g) + Left(f)) + 3 * found <= solves + Left(Top) + 3 * found'
  <2>1. /\ Top.n \in Nat /\ Top.max \in Nat /\ solves \in Nat /\ found \in Nat /\ found' = found
        /\ Left(Top) = Top.max - Top.n
    BY TopAttempts
  <2> QED BY <1>4, <1>5, <2>1
<1> QED BY <1>2, <1>3, <1>4, <1>5, <1>6, CallBudget

LEMMA AttemptFailedBudget ==
  ASSUME IInv, IInv', BudgetInv, stack # <<>>, Top.fn = "solve", Top.pc = "snap",
         NEW r, AttemptFailed(r), UNCHANGED <<stepVars, found>>,
         solves' \in {solves, solves + 1}
  PROVE  BudgetInv'
<1>1. /\ Top \in Frame /\ Top.n \in Nat /\ Top.max \in Nat /\ Top.n < Top.max
      /\ solves \in Nat /\ Left(Top) = Top.max - Top.n
  BY TopAttempts
<1>2. CASE Top.n < Top.max - 1 /\ setup.refresh # "no"
  <2> DEFINE f == ToolFrame("click", setup.refresh = "captcha", FALSE, Top.solver)
  <2>1. FrameInv(f) /\ f.fn = "tool"
    BY <1>1, HelperFrames
  <2>2. f.op = "click"
    BY DEF ToolFrame
  <2>3. Call("refreshing", f)
    BY <1>2 DEF AttemptFailed
  <2> HIDE DEF f
  <2> QED BY <1>2, <2>1, <2>2, <2>3, HelperBudget
<1>3. CASE Top.n < Top.max - 1 /\ setup.refresh = "no"
  <2>1. Goto([Top EXCEPT !.n = Top.n + 1])
    BY <1>3 DEF AttemptFailed
  <2>2. [Top EXCEPT !.n = Top.n + 1] = Moved(Top, "snap", Top.n + 1)
    BY <1>1, OneField
  <2>3. Goto(Moved(Top, "snap", Top.n + 1))
    BY <2>1, <2>2
  <2> QED BY <1>3, <2>3, NextAttemptBudget
<1>4. CASE ~(Top.n < Top.max - 1)
  <2>1. Return(r)
    BY <1>4 DEF AttemptFailed
  <2>2. solves' <= solves + Left(Top)
    BY <1>1
  <2> QED BY <2>1, <2>2, PopBudget
<1> QED BY <1>2, <1>3, <1>4

LEMMA SolveAttemptBudget == ASSUME IInv, IInv', BudgetInv, SolveAttempt PROVE BudgetInv'
<1>1. /\ stack # <<>> /\ Top.fn = "solve" /\ Top.pc = "snap" /\ UNCHANGED <<stepVars, found>>
  BY DEF SolveAttempt, Running
<1>2. CASE Call("typing", ToolFrame("type", FALSE, FALSE, Top.solver)) /\ solves' \in {solves, solves + 1}
  <2> DEFINE f == ToolFrame("type", FALSE, FALSE, Top.solver)
  <2>1. FrameInv(f) /\ f.fn = "tool"
    BY <1>1, TopAttempts, HelperFrames
  <2>2. f.op = "type"
    BY DEF ToolFrame
  <2>3. Call("typing", f)
    BY <1>2
  <2> HIDE DEF f
  <2> QED BY <1>1, <1>2, <2>1, <2>2, <2>3, HelperBudget
<1>3. ASSUME NEW r, AttemptFailed(r), solves' \in {solves, solves + 1} PROVE BudgetInv'
  BY <1>1, <1>3, AttemptFailedBudget
<1> QED BY <1>2, <1>3 DEF SolveAttempt

LEMMA RefreshedBudget == ASSUME IInv, IInv', BudgetInv, Refreshed PROVE BudgetInv'
<1>1. /\ stack # <<>> /\ Top.fn = "solve" /\ Top.pc = "refreshing"
      /\ UNCHANGED <<stepVars, found, solves>>
      /\ Goto([Top EXCEPT !.pc = "snap", !.n = @ + 1])
  BY DEF Refreshed, Resuming, Quiet, ghosts
<1>2. Goto(Moved(Top, "snap", Top.n + 1)) /\ Top.n < Top.max - 1
  BY <1>1, TopAttempts DEF Moved
<1> QED BY <1>1, <1>2, NextAttemptBudget

LEMMA TypedBudget == ASSUME IInv, IInv', BudgetInv, Typed PROVE BudgetInv'
<1>1. /\ stack # <<>> /\ UNCHANGED <<stepVars, found, solves>>
      /\ Return(IF ret \in Returned THEN "ok" ELSE ret)
  BY DEF Typed, Resuming, Quiet, ghosts
<1>2. solves' <= solves + Left(Top)
  BY <1>1, TopSum, TypesOf
<1> QED BY <1>1, <1>2, PopBudget

\* The steps outside the stack: a tool starts with nothing called, an assertion
\* has nothing to call, a retry starts over.
LEMMA SingleFrame ==
  ASSUME IInv, IInv', stack' \in Seq(Frame), Len(stack') = 1,
         stack'[1].fn = "tool", UNCHANGED setup,
         solves' + Left(stack'[1]) <= Granted', stage' # "parse"
  PROVE  BudgetInv'
<1>1. 1 \in 1..Len(stack') /\ FrameInv(stack'[1]) /\ InLoop(stack'[1])
  BY DEF IInv, InLoop
<1>2. Left(stack'[1]) \in Nat
  BY <1>1, LeftNat
<1> DEFINE t == [i \in 0..1 |-> IF i = 0 THEN 0 ELSE Left(stack'[1])]
<1>3. t \in [0..1 -> Nat] /\ t[0] = 0 /\ t[1] = Left(stack'[1])
  BY <1>2
<1> HIDE DEF t
<1>4. t[1] = t[0] + Left(stack'[1])
  BY <1>2, <1>3
<1>5. Sums(t, stack')
  BY <1>3, <1>4 DEF Sums
<1>6. solves' + t[Len(stack')] <= Granted'
  BY <1>3
<1> QED BY <1>1, <1>5, <1>6 DEF BudgetInv

LEMMA NoFrame ==
  ASSUME stack' = <<>>, stage' = "parse" => solves' = 0,
         solves' \in Nat, solves' <= Granted'
  PROVE  BudgetInv'
<1> DEFINE t == [i \in 0..0 |-> 0]
<1>1. Len(stack') = 0
  OBVIOUS
<1>2. Sums(t, stack') /\ t[Len(stack')] = 0
  BY <1>1 DEF Sums
<1> HIDE DEF t
<1> QED BY <1>1, <1>2 DEF BudgetInv

LEMMA Spent == ASSUME IInv, BudgetInv PROVE solves <= Granted
<1>1. PICK s : Sums(s, stack) /\ solves + s[Len(stack)] <= Granted
  BY DEF BudgetInv
<1>2. Len(stack) \in Nat /\ Len(stack) \in 0..Len(stack)
  BY DEF IInv
<1>3. s[Len(stack)] \in Nat
  BY <1>1, <1>2 DEF Sums
<1> QED BY <1>1, <1>3, GrantedNat

LEMMA ParseBudget == ASSUME IInv, IInv', BudgetInv, ParseOrTranslate PROVE BudgetInv'
<1>1. /\ stage = "parse" /\ UNCHANGED <<setup, found, solves>> /\ solves = 0
      /\ Granted' = Granted /\ Granted \in Nat
  BY GrantedNat DEF ParseOrTranslate, ghosts, BudgetInv, Granted, OwnRetries
<1>2. CASE /\ stage' = "tool"
           /\ stack' = <<ToolFrame(setup.op, setup.hint, setup.nth, setup.solver)>>
  <2> DEFINE f == ToolFrame(setup.op, setup.hint, setup.nth, setup.solver)
  <2>1. f.fn = "tool" /\ f.op = setup.op
    BY DEF ToolFrame
  <2>2. stack' = <<f>>
    BY <1>2
  <2> HIDE DEF f
  <2>3. stack' \in Seq(Frame) /\ Len(stack') = 1 /\ stack'[1] = f
    BY <2>2 DEF IInv
  <2>4. Left(f) = OwnRetries
    BY <2>1 DEF Left, OwnRetries, AtLeastOne
  <2>5. OwnRetries \in Nat /\ Granted = OwnRetries + 3 * found /\ found \in Nat
    BY GrantedNat DEF Granted
  <2>6. solves' + Left(stack'[1]) <= Granted'
    BY <1>1, <2>3, <2>4, <2>5
  <2>7. stage' # "parse" /\ stack'[1].fn = "tool"
    BY <1>2, <2>1, <2>3
  <2> QED BY <1>1, <2>3, <2>6, <2>7, SingleFrame
<1>3. CASE stage' = "ended" /\ UNCHANGED stack
  <2>1. stack' = <<>>
    BY <1>1, <1>3, NoFrames
  <2>2. solves' \in Nat /\ solves' <= Granted'
    BY <1>1
  <2> QED BY <1>3, <2>1, <2>2, NoFrame
<1> QED BY <1>2, <1>3 DEF ParseOrTranslate

LEMMA ReturnedBudget ==
  ASSUME IInv, IInv', BudgetInv, ToolReturned \/ AssertionReturned PROVE BudgetInv'
<1>1. /\ stack = <<>> /\ UNCHANGED <<setup, found, solves>> /\ Granted' = Granted
      /\ stage \in {"tool", "assert"}
  BY DEF ToolReturned, AssertionReturned, ghosts, Granted, OwnRetries
<1>2. solves' \in Nat /\ solves' <= Granted'
  BY <1>1, Spent, GrantedNat
<1>3. RunAssertion \/ \E r : Finish(r)
  <2>1. setup.asserts \in Nat
    BY StepAssumption DEF IInv, StepTypeOK, Setups
  <2>2. stage = "assert" => checked \in Nat /\ checked < setup.asserts
    BY <2>1 DEF IInv, StepTypeOK, StageInv
  <2>3. CASE ToolReturned
    <3>1. setup.asserts = 0 \/ setup.asserts > 0
      BY <2>1
    <3> QED BY <2>3, <3>1 DEF ToolReturned
  <2>4. CASE AssertionReturned
    <3>1. checked' = setup.asserts \/ checked' < setup.asserts
      BY <2>1, <2>2, <2>4 DEF AssertionReturned
    <3> QED BY <2>4, <3>1 DEF AssertionReturned
  <2> QED BY <2>3, <2>4
<1>4. CASE RunAssertion
  <2> DEFINE f == ToolFrame("other", FALSE, FALSE, FALSE)
  <2>1. f.fn = "tool" /\ f.op = "other"
    BY DEF ToolFrame
  <2>2. stack' = <<f>> /\ stage' = "assert"
    BY <1>4 DEF RunAssertion
  <2> HIDE DEF f
  <2>3. stack' \in Seq(Frame) /\ Len(stack') = 1 /\ stack'[1] = f
    BY <2>2 DEF IInv
  <2>4. Left(f) = 0
    BY <2>1 DEF Left
  <2>5. solves' + Left(stack'[1]) <= Granted'
    BY <1>2, <2>3, <2>4
  <2>6. stage' # "parse" /\ stack'[1].fn = "tool"
    BY <2>1, <2>2, <2>3
  <2> QED BY <1>1, <2>3, <2>5, <2>6, SingleFrame
<1>5. CASE \E r : Finish(r)
  <2>1. stack' = <<>> /\ stage' = "ended"
    BY <1>1, <1>5 DEF Finish
  <2> QED BY <1>2, <2>1, NoFrame
<1> QED BY <1>3, <1>4, <1>5

LEMMA GrantedIsNat ==
  ASSUME NEW a \in Nat, NEW b \in Nat
  PROVE  a + 3 * b \in Nat /\ 0 <= a + 3 * b
OBVIOUS

LEMMA EndBudget ==
  ASSUME IInv, IInv', BudgetInv, ProposeRepair \/ PersistRepair \/ PersistCaptcha
  PROVE  BudgetInv'
<1>1. /\ stage \in {"ended", "retried"} /\ UNCHANGED <<setup, stack>>
      /\ \/ solves' = 0 /\ stage' = "parse"
         \/ UNCHANGED <<found, solves>> /\ stage' \in {"retried", "done"}
  BY DEF ProposeRepair, RetryRepaired, PersistRepair, PersistCaptcha, ghosts
<1>2. stack' = <<>>
  BY <1>1, NoFrames
<1>3. CASE solves' = 0 /\ stage' = "parse"
  <2>1. OwnRetries' = OwnRetries /\ OwnRetries \in Nat /\ found' \in Nat
    BY <1>1, GrantedNat DEF OwnRetries, IInv, StepTypeOK
  <2>2. Granted' = OwnRetries + 3 * found'
    BY <2>1 DEF Granted, InterceptRetries
  <2>3. Granted' \in Nat /\ 0 <= Granted'
    BY <2>1, <2>2, GrantedIsNat
  <2> QED BY <1>2, <1>3, <2>3, NoFrame
<1>4. CASE UNCHANGED <<found, solves>> /\ stage' \in {"retried", "done"}
  <2>1. Granted' = Granted /\ solves \in Nat
    BY <1>1, <1>4, GrantedNat DEF Granted, OwnRetries
  <2> QED BY <1>2, <1>4, <2>1, Spent, NoFrame
<1> QED BY <1>1, <1>3, <1>4

LEMMA BudgetInit == Init => BudgetInv
<1> SUFFICES ASSUME Init PROVE BudgetInv
  OBVIOUS
<1>1. stack = <<>> /\ solves = 0 /\ found = 0 /\ Len(stack) = 0
  BY DEF Init
<1>2. Granted \in Nat
  BY <1>1, StepAssumption DEF Granted, OwnRetries, InterceptRetries
<1> DEFINE t == [i \in 0..0 |-> 0]
<1>3. Sums(t, stack) /\ t[Len(stack)] = 0
  BY <1>1 DEF Sums
<1> HIDE DEF t
<1> QED BY <1>1, <1>2, <1>3 DEF BudgetInv

LEMMA BudgetStep == IInv /\ IInv' /\ BudgetInv /\ [Next]_vars => BudgetInv'
<1> SUFFICES ASSUME IInv, IInv', BudgetInv, [Next]_vars PROVE BudgetInv'
  OBVIOUS
<1>1. CASE UNCHANGED vars
  <2>1. Granted' = Granted /\ stack' = stack /\ solves' = solves /\ stage' = stage
    BY <1>1 DEF vars, Granted, OwnRetries
  <2> QED BY <2>1 DEF BudgetInv, Sums
<1>2. CASE Coroutine
  BY <1>2, StartToolBudget, CallMoves, SolvedMoves, MainMoves, HealerMoves, MovesBudget,
     DetectBudget, SolveAttemptBudget, RefreshedBudget, TypedBudget, ParseBudget,
     ReturnedBudget, EndBudget DEF Coroutine
<1> QED BY <1>1, <1>2 DEF Next, Done

\* SolverBudget, for any step, any nesting of solves in refreshes and any
\* recursion limit: a workspace pays at most max_retries vision calls for an
\* explicit solve step, and three for every captcha an interception found.
THEOREM SolverWithinBudget == Spec => []SolverBudget
<1>1. IInv /\ BudgetInv => SolverBudget
  BY Spent DEF SolverBudget, Granted
<1> QED BY <1>1, IInvInit, IInvStep, BudgetInit, BudgetStep, PTL DEF Spec
=============================================================================
