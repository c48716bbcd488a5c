-------------------------- MODULE NtbDevice_proofs --------------------------
(***************************************************************************)
(* Proofs about the register file, for any guests, messages and doorbells. *)
(***************************************************************************)
EXTENDS NtbDevice, TLAPS

-----------------------------------------------------------------------------
(* Facts about the operators the handlers are built from.                  *)

\* There are two ends, each the peer of the other.
LEMMA Peers ==
  /\ \A v \in VM : Peer(v) \in VM /\ Peer(v) # v /\ Peer(Peer(v)) = v
  /\ \A v, w \in VM : w = v \/ w = Peer(v)
BY DEF VM, Peer

\* The bits of MSGSTS are distinct.
LEMMA Bits ==
  /\ \A i \in MsgIdx : In(i) \in StsBits /\ Out(i) \in StsBits
  /\ \A i, j \in MsgIdx : In(i) # Out(j)
  /\ \A i, j \in MsgIdx : In(i) = In(j) => i = j
  /\ \A i, j \in MsgIdx : Out(i) = Out(j) => i = j
BY MsgIdxAssumption DEF In, Out, StsBits

\* The register a write names tells its operands.
LEMMA Shapes ==
  /\ \A c \in OutmsgWrites : c.idx \in MsgIdx /\ c.val \in MsgVals /\ c.reg = "OUTMSG"
  /\ \A c \in RegisterWrites :
       /\ c.reg = "OUTMSG" => c \in OutmsgWrites
       /\ c.reg \in StatusRegs => c \in ClearWrites
       /\ c.reg \in {"INDBELLMSK", "INDBELLSTS", "OUTDBELLSET"} => c.bits \subseteq DbBits
       /\ c.reg \in {"MSGSTSMSK", "MSGSTS"} => c.bits \subseteq StsBits
       /\ c.reg \in {"NTINTMSK", "NTINTSTS"} => c.bits \subseteq IntBits
       /\ c.reg \in {"SEGSIGSTS"} => c.bits \subseteq Partitions
  /\ \A c \in ClearWrites : c.reg \in StatusRegs /\ c \in RegisterWrites
  /\ \A v \in VM : \A c \in Commands[v] : c \in RegisterWrites
BY CommandsAssumption
   DEF RegisterWrites, OutmsgWrites, DbellWrites, SignalWrites, MaskWrites, ClearWrites, StatusRegs

-----------------------------------------------------------------------------
(* What a step of one handler does to the control state.                   *)

Words == DbBits \cup StsBits \cup IntBits \cup Partitions

\* The other handler stands still.
Alone(v) ==
  \A w \in VM : w # v => pc'[w] = pc[w] /\ req'[w] = req[w] /\ snap'[w] = snap[w]

LEMMA StepMoves ==
  ASSUME TypeOK, NEW v \in VM, NEW l, NEW m \in Steps, Step(v, l, m)
  PROVE  /\ pc' \in [VM -> Steps]
         /\ req' \in [VM -> RegisterWrites \cup {NoCmd}]
         /\ pc[v] = l /\ pc'[v] = m
         /\ m # "idle" => req'[v] = req[v]
         /\ \A w \in VM : w # v => pc'[w] = pc[w] /\ req'[w] = req[w]
BY DEF TypeOK, Step

LEMMA TrapMoves ==
  ASSUME TypeOK, NEW v \in VM, NEW c \in Commands[v], NEW m \in Steps, Trap(v, c, m)
  PROVE  /\ pc' \in [VM -> Steps]
         /\ req' \in [VM -> RegisterWrites \cup {NoCmd}]
         /\ pc[v] = "idle" /\ pc'[v] = m
         /\ m # "idle" => req'[v] = c
         /\ \A w \in VM : w # v => pc'[w] = pc[w] /\ req'[w] = req[w]
<1>1. c \in RegisterWrites
  BY Shapes
<1>. QED BY <1>1 DEF TypeOK, Trap

LEMMA LoadMoves ==
  ASSUME TypeOK, NEW v \in VM, NEW word \in SUBSET Words, Load(v, word)
  PROVE  /\ snap' \in [VM -> SUBSET Words]
         /\ snap'[v] = word
         /\ \A w \in VM : w # v => snap'[w] = snap[w]
BY DEF TypeOK, Load, Words

LEMMA ForgetMoves ==
  ASSUME TypeOK, NEW v \in VM, Forget(v)
  PROVE  /\ snap' \in [VM -> SUBSET Words]
         /\ snap'[v] = {}
         /\ \A w \in VM : w # v => snap'[w] = snap[w]
BY DEF TypeOK, Forget, Words

-----------------------------------------------------------------------------
(* Typing.                                                                 *)

LEMMA TypeInit == Init => TypeOK /\ HandlerOK
BY DEF Init, TypeOK, HandlerOK, Fits, Steps, OutmsgSteps, RaiseSteps

\* The words a handler may load.
LEMMA WordsTyped ==
  ASSUME TypeOK, NEW v \in VM
  PROVE  /\ {msgsts[v], msgsts[Peer(v)], intsts[v], intsts[Peer(v)]} \subseteq SUBSET Words
         /\ db[v] \in SUBSET Words /\ segsigsts \in SUBSET Words
BY Peers DEF TypeOK, Words

\* A step of v leaves the handler of its peer as it was.
LEMMA OthersFit ==
  ASSUME HandlerOK, NEW v \in VM, Alone(v), Fits(v)'
  PROVE  HandlerOK'
<1>. SUFFICES ASSUME NEW w \in VM, w # v PROVE Fits(w)'
  BY DEF HandlerOK
<1>1. pc'[w] = pc[w] /\ req'[w] = req[w] /\ snap'[w] = snap[w] /\ Fits(w)
  BY DEF Alone, HandlerOK
<1>. QED BY <1>1 DEF Fits

\* While OUTMSG is served, req is a write to OUTMSG.
LEMMA OutmsgShape ==
  ASSUME HandlerOK, NEW v \in VM, pc[v] \in OutmsgSteps
  PROVE  /\ req[v] \in OutmsgWrites /\ req[v].reg = "OUTMSG"
         /\ req[v].idx \in MsgIdx /\ req[v].val \in MsgVals
BY Shapes DEF HandlerOK, Fits

\* A message status with one more bit is a message status.
LEMMA OneMoreBit ==
  ASSUME NEW S, S \subseteq StsBits, NEW i \in MsgIdx
  PROVE  S \cup {In(i)} \in SUBSET StsBits /\ S \cup {Out(i)} \in SUBSET StsBits
<1>1. In(i) \in StsBits /\ Out(i) \in StsBits
  BY Bits
<1>. QED BY <1>1

LEMMA TypeStep == TypeOK /\ HandlerOK /\ [Next]_vars => TypeOK'
<1>. SUFFICES ASSUME TypeOK, HandlerOK, [Next]_vars PROVE TypeOK'
  OBVIOUS
<1>. USE Peers, Bits, Shapes DEF TypeOK, Steps, regs, link, irq, cpu, Words
<1>1. ASSUME NEW v \in VM, WriteDbMask(v) PROVE TypeOK'
  BY <1>1, TrapMoves DEF WriteDbMask
<1>2. ASSUME NEW v \in VM, WriteMsgMask(v) PROVE TypeOK'
  BY <1>2, TrapMoves DEF WriteMsgMask
<1>3. ASSUME NEW v \in VM, WriteIntMask(v) PROVE TypeOK'
  BY <1>3, TrapMoves DEF WriteIntMask
<1>4. ASSUME NEW v \in VM, ClearLoad(v) PROVE TypeOK'
  <2>1. PICK c \in Commands[v] :
          c.reg \in StatusRegs /\ Trap(v, c, "clearStore") /\ Load(v, Status(v, c.reg))
    BY <1>4 DEF ClearLoad
  <2>2. Status(v, c.reg) \in SUBSET Words
    BY <2>1, WordsTyped DEF Status, StatusRegs
  <2>. QED BY <1>4, <2>1, <2>2, TrapMoves, LoadMoves DEF ClearLoad
<1>5. ASSUME NEW v \in VM, ClearDb(v) PROVE TypeOK'
  BY <1>5, StepMoves, ForgetMoves DEF ClearDb, Cleared, HandlerOK, Fits
<1>6. ASSUME NEW v \in VM, ClearMsgsts(v) PROVE TypeOK'
  BY <1>6, StepMoves, ForgetMoves DEF ClearMsgsts, Cleared, HandlerOK, Fits
<1>7. ASSUME NEW v \in VM, ClearIntsts(v) PROVE TypeOK'
  BY <1>7, StepMoves, ForgetMoves DEF ClearIntsts, Cleared, HandlerOK, Fits
<1>8. ASSUME NEW v \in VM, ClearSegsigsts(v) PROVE TypeOK'
  BY <1>8, StepMoves, ForgetMoves DEF ClearSegsigsts, Cleared, HandlerOK, Fits
<1>9. ASSUME NEW v \in VM, OutmsgCheck(v) PROVE TypeOK'
  <2>1. PICK c \in Commands[v] :
          c.reg = "OUTMSG" /\ Trap(v, c, IF Pending(v, c.idx) THEN "refuseLoad" ELSE "put")
    BY <1>9 DEF OutmsgCheck
  <2>2. pc' \in [VM -> Steps] /\ req' \in [VM -> RegisterWrites \cup {NoCmd}]
    BY <2>1, TrapMoves
  <2>. QED BY <1>9, <2>1, <2>2 DEF OutmsgCheck
<1>10. ASSUME NEW v \in VM, RefuseLoad(v) PROVE TypeOK'
  BY <1>10, StepMoves, LoadMoves, WordsTyped DEF RefuseLoad
<1>11. ASSUME NEW v \in VM, RefuseStore(v) PROVE TypeOK'
  <2>1. pc[v] = "refuseStore" /\ pc[v] \in OutmsgSteps
    BY <1>11 DEF RefuseStore, Step, OutmsgSteps
  <2>2. snap[v] \subseteq StsBits /\ req[v].idx \in MsgIdx
    BY <2>1, OutmsgShape DEF HandlerOK, Fits
  <2>3. snap[v] \cup {Out(req[v].idx)} \in SUBSET StsBits
    BY <2>2, OneMoreBit
  <2>. QED BY <1>11, StepMoves, ForgetMoves, <2>3 DEF RefuseStore
<1>12. ASSUME NEW v \in VM, RefuseMask(v) PROVE TypeOK'
  BY <1>12, StepMoves DEF RefuseMask
<1>13. ASSUME NEW v \in VM, SelfLoad(v) PROVE TypeOK'
  BY <1>13, StepMoves, LoadMoves, WordsTyped DEF SelfLoad
<1>14. ASSUME NEW v \in VM, SelfStore(v) PROVE TypeOK'
  BY <1>14, StepMoves, ForgetMoves DEF SelfStore, IntBits, HandlerOK, Fits
<1>15. ASSUME NEW v \in VM, PutMsg(v) PROVE TypeOK'
  BY <1>15, StepMoves DEF PutMsg, OutmsgSteps, HandlerOK, Fits
<1>16. ASSUME NEW v \in VM, StsLoad(v) PROVE TypeOK'
  BY <1>16, StepMoves, LoadMoves, WordsTyped DEF StsLoad
<1>17. ASSUME NEW v \in VM, StsStore(v) PROVE TypeOK'
  <2>1. pc[v] = "stsStore" /\ pc[v] \in OutmsgSteps
    BY <1>17 DEF StsStore, Step, OutmsgSteps
  <2>2. snap[v] \subseteq StsBits /\ req[v].idx \in MsgIdx
    BY <2>1, OutmsgShape DEF HandlerOK, Fits
  <2>3. snap[v] \cup {In(req[v].idx)} \in SUBSET StsBits
    BY <2>2, OneMoreBit
  <2>. QED BY <1>17, StepMoves, ForgetMoves, <2>3 DEF StsStore
<1>18. ASSUME NEW v \in VM, MsgMask(v) PROVE TypeOK'
  BY <1>18, StepMoves DEF MsgMask
<1>19. ASSUME NEW v \in VM, DbRing(v) PROVE TypeOK'
  BY <1>19, TrapMoves DEF DbRing
<1>20. ASSUME NEW v \in VM, SigLoad(v) PROVE TypeOK'
  BY <1>20, TrapMoves, LoadMoves, WordsTyped DEF SigLoad
<1>21. ASSUME NEW v \in VM, SigStore(v) PROVE TypeOK'
  BY <1>21, StepMoves, ForgetMoves DEF SigStore, HandlerOK, Fits
<1>22. ASSUME NEW v \in VM, IntMask(v) PROVE TypeOK'
  BY <1>22, StepMoves DEF IntMask
<1>23. ASSUME NEW v \in VM, RaiseLoad(v) PROVE TypeOK'
  BY <1>23, StepMoves, LoadMoves, WordsTyped DEF RaiseLoad
<1>24. ASSUME NEW v \in VM, RaiseStore(v) PROVE TypeOK'
  BY <1>24, StepMoves, ForgetMoves DEF RaiseStore, Cause, CauseOf, IntBits, RaiseSteps, HandlerOK, Fits
<1>25. ASSUME NEW v \in VM, Notify(v) PROVE TypeOK'
  BY <1>25, StepMoves DEF Notify, HostVector, Vectors
<1>26. ASSUME NEW v \in VM, NotifyNobody(v) PROVE TypeOK'
  BY <1>26, StepMoves DEF NotifyNobody
<1>27. ASSUME NEW v \in VM, Realize(v) PROVE TypeOK'
  BY <1>27 DEF Realize, IntBits
<1>28. ASSUME NEW v \in VM, InitVmIds(v) PROVE TypeOK'
  BY <1>28 DEF InitVmIds, Vectors
<1>29. ASSUME NEW v \in VM, VmIdEvent(v) PROVE TypeOK'
  BY <1>29 DEF VmIdEvent
<1>30. ASSUME NEW v \in VM, InterruptEvent(v) PROVE TypeOK'
  BY <1>30 DEF InterruptEvent
<1>31. ASSUME NEW v \in VM, TakeInterrupt(v) PROVE TypeOK'
  BY <1>31 DEF TakeInterrupt
<1>32. ASSUME UNCHANGED vars PROVE TypeOK'
  BY <1>32 DEF vars
<1>33. ASSUME NEW v \in VM, Connect(v) PROVE TypeOK'
  BY <1>33 DEF Connect
<1>34. ASSUME NEW v \in VM, SigAbort(v) PROVE TypeOK'
  BY <1>34, TrapMoves DEF SigAbort
<1>. HIDE DEF TypeOK
<1>. QED
  BY <1>1, <1>2, <1>3, <1>4, <1>5, <1>6, <1>7, <1>8, <1>9, <1>10, <1>11, <1>12,
     <1>13, <1>14, <1>15, <1>16, <1>17, <1>18, <1>19, <1>20, <1>21, <1>22, <1>23, <1>24,
     <1>25, <1>26, <1>27, <1>28, <1>29, <1>30, <1>31, <1>32, <1>33, <1>34
  DEF Next, Continue, Write, Event, Start

LEMMA HandlerStep == TypeOK /\ HandlerOK /\ [Next]_vars => HandlerOK'
<1>. SUFFICES ASSUME TypeOK, HandlerOK, [Next]_vars PROVE HandlerOK'
  OBVIOUS
<1>. USE Peers, Bits, Shapes DEF Steps, OutmsgSteps, RaiseSteps
<1>1. ASSUME NEW v \in VM, WriteDbMask(v) PROVE HandlerOK'
  <2>1. Alone(v)
    BY <1>1, TrapMoves DEF WriteDbMask, Alone
  <2>2. Fits(v)'
    BY <1>1, TrapMoves DEF WriteDbMask, HandlerOK, Fits, CauseOf
  <2>. QED BY <2>1, <2>2, OthersFit
<1>2. ASSUME NEW v \in VM, WriteMsgMask(v) PROVE HandlerOK'
  <2>1. Alone(v)
    BY <1>2, TrapMoves DEF WriteMsgMask, Alone
  <2>2. Fits(v)'
    BY <1>2, TrapMoves DEF WriteMsgMask, HandlerOK, Fits, CauseOf
  <2>. QED BY <2>1, <2>2, OthersFit
<1>3. ASSUME NEW v \in VM, WriteIntMask(v) PROVE HandlerOK'
  <2>1. Alone(v)
    BY <1>3, TrapMoves DEF WriteIntMask, Alone
  <2>2. Fits(v)'
    BY <1>3, TrapMoves DEF WriteIntMask, HandlerOK, Fits, CauseOf
  <2>. QED BY <2>1, <2>2, OthersFit
<1>4. ASSUME NEW v \in VM, ClearLoad(v) PROVE HandlerOK'
  <2>1. PICK c \in Commands[v] :
          c.reg \in StatusRegs /\ Trap(v, c, "clearStore") /\ Load(v, Status(v, c.reg))
    BY <1>4 DEF ClearLoad
  <2>2. Status(v, c.reg) \in SUBSET Words
    BY <2>1, WordsTyped DEF Status, StatusRegs
  <2>3. /\ pc'[v] = "clearStore" /\ req'[v] = c /\ snap'[v] = Status(v, c.reg)
        /\ Alone(v)
    BY <2>1, <2>2, TrapMoves, LoadMoves DEF Alone
  <2>4. Fits(v)'
    BY <2>1, <2>3 DEF Fits, Status, StatusRegs, TypeOK
  <2>. QED BY <2>3, <2>4, OthersFit
<1>5. ASSUME NEW v \in VM, ClearDb(v) PROVE HandlerOK'
  <2>1. Alone(v)
    BY <1>5, StepMoves, ForgetMoves DEF ClearDb, Alone
  <2>2. Fits(v)'
    BY <1>5, StepMoves, ForgetMoves DEF ClearDb, HandlerOK, Fits, CauseOf
  <2>. QED BY <2>1, <2>2, OthersFit
<1>6. ASSUME NEW v \in VM, ClearMsgsts(v) PROVE HandlerOK'
  <2>1. Alone(v)
    BY <1>6, StepMoves, ForgetMoves DEF ClearMsgsts, Alone
  <2>2. Fits(v)'
    BY <1>6, StepMoves, ForgetMoves DEF ClearMsgsts, HandlerOK, Fits, CauseOf
  <2>. QED BY <2>1, <2>2, OthersFit
<1>7. ASSUME NEW v \in VM, ClearIntsts(v) PROVE HandlerOK'
  <2>1. Alone(v)
    BY <1>7, StepMoves, ForgetMoves DEF ClearIntsts, Alone
  <2>2. Fits(v)'
    BY <1>7, StepMoves, ForgetMoves DEF ClearIntsts, HandlerOK, Fits, CauseOf
  <2>. QED BY <2>1, <2>2, OthersFit
<1>8. ASSUME NEW v \in VM, ClearSegsigsts(v) PROVE HandlerOK'
  <2>1. Alone(v)
    BY <1>8, StepMoves, ForgetMoves DEF ClearSegsigsts, Alone
  <2>2. Fits(v)'
    BY <1>8, StepMoves, ForgetMoves DEF ClearSegsigsts, HandlerOK, Fits, CauseOf
  <2>. QED BY <2>1, <2>2, OthersFit
<1>9. ASSUME NEW v \in VM, OutmsgCheck(v) PROVE HandlerOK'
  <2>1. Alone(v)
    BY <1>9, TrapMoves DEF OutmsgCheck, Alone
  <2>2. Fits(v)'
    BY <1>9, TrapMoves DEF OutmsgCheck, HandlerOK, Fits, CauseOf
  <2>. QED BY <2>1, <2>2, OthersFit
<1>10. ASSUME NEW v \in VM, RefuseLoad(v) PROVE HandlerOK'
  <2>1. /\ pc'[v] = "refuseStore" /\ req'[v] = req[v] /\ snap'[v] = msgsts[v]
        /\ Alone(v) /\ pc[v] = "refuseLoad"
    BY <1>10, StepMoves, LoadMoves, WordsTyped DEF RefuseLoad, Alone
  <2>2. Fits(v)'
    BY <2>1 DEF HandlerOK, Fits, CauseOf, TypeOK
  <2>. QED BY <2>1, <2>2, OthersFit
<1>11. ASSUME NEW v \in VM, RefuseStore(v) PROVE HandlerOK'
  <2>1. Alone(v)
    BY <1>11, StepMoves, ForgetMoves DEF RefuseStore, Alone
  <2>2. Fits(v)'
    BY <1>11, StepMoves, ForgetMoves DEF RefuseStore, HandlerOK, Fits, CauseOf
  <2>. QED BY <2>1, <2>2, OthersFit
<1>12. ASSUME NEW v \in VM, RefuseMask(v) PROVE HandlerOK'
  <2>1. Alone(v)
    BY <1>12, StepMoves DEF RefuseMask, Alone
  <2>2. Fits(v)'
    BY <1>12, StepMoves DEF RefuseMask, HandlerOK, Fits, CauseOf
  <2>. QED BY <2>1, <2>2, OthersFit
<1>13. ASSUME NEW v \in VM, SelfLoad(v) PROVE HandlerOK'
  <2>1. /\ pc'[v] = "selfStore" /\ req'[v] = req[v] /\ snap'[v] = intsts[v]
        /\ Alone(v) /\ pc[v] = "selfLoad"
    BY <1>13, StepMoves, LoadMoves, WordsTyped DEF SelfLoad, Alone
  <2>2. Fits(v)'
    BY <2>1 DEF HandlerOK, Fits, CauseOf, TypeOK
  <2>. QED BY <2>1, <2>2, OthersFit
<1>14. ASSUME NEW v \in VM, SelfStore(v) PROVE HandlerOK'
  <2>1. Alone(v)
    BY <1>14, StepMoves, ForgetMoves DEF SelfStore, Alone
  <2>2. Fits(v)'
    BY <1>14, StepMoves, ForgetMoves DEF SelfStore, HandlerOK, Fits, CauseOf
  <2>. QED BY <2>1, <2>2, OthersFit
<1>15. ASSUME NEW v \in VM, PutMsg(v) PROVE HandlerOK'
  <2>1. Alone(v)
    BY <1>15, StepMoves DEF PutMsg, Alone
  <2>2. Fits(v)'
    BY <1>15, StepMoves DEF PutMsg, HandlerOK, Fits, CauseOf
  <2>. QED BY <2>1, <2>2, OthersFit
<1>16. ASSUME NEW v \in VM, StsLoad(v) PROVE HandlerOK'
  <2>1. /\ pc'[v] = "stsStore" /\ req'[v] = req[v] /\ snap'[v] = msgsts[Peer(v)]
        /\ Alone(v) /\ pc[v] = "stsLoad"
    BY <1>16, StepMoves, LoadMoves, WordsTyped DEF StsLoad, Alone
  <2>2. Fits(v)'
    BY <2>1 DEF HandlerOK, Fits, CauseOf, TypeOK
  <2>. QED BY <2>1, <2>2, OthersFit
<1>17. ASSUME NEW v \in VM, StsStore(v) PROVE HandlerOK'
  <2>1. Alone(v)
    BY <1>17, StepMoves, ForgetMoves DEF StsStore, Alone
  <2>2. Fits(v)'
    BY <1>17, StepMoves, ForgetMoves DEF StsStore, HandlerOK, Fits, CauseOf
  <2>. QED BY <2>1, <2>2, OthersFit
<1>18. ASSUME NEW v \in VM, MsgMask(v) PROVE HandlerOK'
  <2>1. Alone(v)
    BY <1>18, StepMoves DEF MsgMask, Alone
  <2>2. Fits(v)'
    BY <1>18, StepMoves DEF MsgMask, HandlerOK, Fits, CauseOf
  <2>. QED BY <2>1, <2>2, OthersFit
<1>19. ASSUME NEW v \in VM, DbRing(v) PROVE HandlerOK'
  <2>1. Alone(v)
    BY <1>19, TrapMoves DEF DbRing, Alone
  <2>2. Fits(v)'
    BY <1>19, TrapMoves DEF DbRing, HandlerOK, Fits, CauseOf
  <2>. QED BY <2>1, <2>2, OthersFit
<1>20. ASSUME NEW v \in VM, SigLoad(v) PROVE HandlerOK'
  <2>1. /\ pc'[v] = "sigStore" /\ req'[v].reg = "NTGSIGNAL" /\ snap'[v] = segsigsts
        /\ Alone(v) 
    BY <1>20, TrapMoves, LoadMoves, WordsTyped DEF SigLoad, Alone
  <2>2. Fits(v)'
    BY <2>1 DEF HandlerOK, Fits, CauseOf, TypeOK
  <2>. QED BY <2>1, <2>2, OthersFit
<1>21. ASSUME NEW v \in VM, SigStore(v) PROVE HandlerOK'
  <2>1. Alone(v)
    BY <1>21, StepMoves, ForgetMoves DEF SigStore, Alone
  <2>2. Fits(v)'
    BY <1>21, StepMoves, ForgetMoves DEF SigStore, HandlerOK, Fits, CauseOf
  <2>. QED BY <2>1, <2>2, OthersFit
<1>22. ASSUME NEW v \in VM, IntMask(v) PROVE HandlerOK'
  <2>1. Alone(v)
    BY <1>22, StepMoves DEF IntMask, Alone
  <2>2. Fits(v)'
    BY <1>22, StepMoves DEF IntMask, HandlerOK, Fits, CauseOf
  <2>. QED BY <2>1, <2>2, OthersFit
<1>23. ASSUME NEW v \in VM, RaiseLoad(v) PROVE HandlerOK'
  <2>1. /\ pc'[v] = "raiseStore" /\ req'[v] = req[v] /\ snap'[v] = intsts[Peer(v)]
        /\ Alone(v) /\ pc[v] = "raiseLoad"
    BY <1>23, StepMoves, LoadMoves, WordsTyped DEF RaiseLoad, Alone
  <2>2. Fits(v)'
    BY <2>1 DEF HandlerOK, Fits, CauseOf, TypeOK
  <2>. QED BY <2>1, <2>2, OthersFit
<1>24. ASSUME NEW v \in VM, RaiseStore(v) PROVE HandlerOK'
  <2>1. Alone(v)
    BY <1>24, StepMoves, ForgetMoves DEF RaiseStore, Alone
  <2>2. Fits(v)'
    BY <1>24, StepMoves, ForgetMoves DEF RaiseStore, HandlerOK, Fits, CauseOf
  <2>. QED BY <2>1, <2>2, OthersFit
<1>25. ASSUME NEW v \in VM, Notify(v) PROVE HandlerOK'
  <2>1. Alone(v)
    BY <1>25, StepMoves DEF Notify, Alone
  <2>2. Fits(v)'
    BY <1>25, StepMoves DEF Notify, HandlerOK, Fits, CauseOf
  <2>. QED BY <2>1, <2>2, OthersFit
<1>26. ASSUME NEW v \in VM, NotifyNobody(v) PROVE HandlerOK'
  <2>1. Alone(v)
    BY <1>26, StepMoves DEF NotifyNobody, Alone
  <2>2. Fits(v)'
    BY <1>26, StepMoves DEF NotifyNobody, HandlerOK, Fits, CauseOf
  <2>. QED BY <2>1, <2>2, OthersFit
<1>27. ASSUME NEW v \in VM, Realize(v) PROVE HandlerOK'
  BY <1>27 DEF Realize, cpu, HandlerOK, Fits
<1>28. ASSUME NEW v \in VM, InitVmIds(v) PROVE HandlerOK'
  BY <1>28 DEF InitVmIds, cpu, HandlerOK, Fits
<1>29. ASSUME NEW v \in VM, VmIdEvent(v) PROVE HandlerOK'
  BY <1>29 DEF VmIdEvent, cpu, HandlerOK, Fits
<1>30. ASSUME NEW v \in VM, InterruptEvent(v) PROVE HandlerOK'
  BY <1>30 DEF InterruptEvent, cpu, HandlerOK, Fits
<1>31. ASSUME NEW v \in VM, TakeInterrupt(v) PROVE HandlerOK'
  BY <1>31 DEF TakeInterrupt, cpu, HandlerOK, Fits
<1>32. ASSUME UNCHANGED vars PROVE HandlerOK'
  BY <1>32 DEF vars, cpu, HandlerOK, Fits
<1>33. ASSUME NEW v \in VM, Connect(v) PROVE HandlerOK'
  BY <1>33 DEF Connect, cpu, HandlerOK, Fits
<1>34. ASSUME NEW v \in VM, SigAbort(v) PROVE HandlerOK'
  <2>1. Alone(v) /\ pc'[v] = "dead"
    BY <1>34, TrapMoves DEF SigAbort, Alone
  <2>2. Fits(v)'
    BY <2>1 DEF Fits, OutmsgSteps, RaiseSteps
  <2>. QED BY <2>1, <2>2, OthersFit
<1>. QED
  BY <1>1, <1>2, <1>3, <1>4, <1>5, <1>6, <1>7, <1>8, <1>9, <1>10, <1>11, <1>12,
     <1>13, <1>14, <1>15, <1>16, <1>17, <1>18, <1>19, <1>20, <1>21, <1>22, <1>23, <1>24,
     <1>25, <1>26, <1>27, <1>28, <1>29, <1>30, <1>31, <1>32, <1>33, <1>34
  DEF Next, Continue, Write, Event, Start

-----------------------------------------------------------------------------
(* The mailboxes.                                                          *)

MailParts ==
  FreeWhilePutting /\ SnapshotsBracket /\ FlaggedIsWritten /\ RefusedIsWritten

LEMMA MailPartsInit == Init => MailParts
<1>. SUFFICES ASSUME Init PROVE MailParts
  OBVIOUS
<1>1. \A v \in VM : pc[v] = "idle" /\ msgsts[v] = {} /\ msgsts[Peer(v)] = {}
  BY Peers DEF Init
<1>. QED BY <1>1 DEF MailParts, FreeWhilePutting, SnapshotsBracket, FlaggedIsWritten,
                   RefusedIsWritten, OwnStatus

\* The steps at which a handler deals with a message or a message status.
MailSteps == {"put", "refuseLoad", "refuseStore", "stsLoad", "stsStore"}

\* A step elsewhere keeps the mailboxes.
LEMMA QuietStep ==
  ASSUME MailParts, NEW v \in VM, Alone(v), msgsts' = msgsts, msg' = msg,
         pc'[v] \notin MailSteps,
         pc'[v] = "clearStore" => req'[v].reg # "MSGSTS"
  PROVE  MailParts'
<1>1. FreeWhilePutting'
  BY DEF MailParts, FreeWhilePutting, Alone, MailSteps
<1>2. SnapshotsBracket'
  BY DEF MailParts, SnapshotsBracket, Alone, MailSteps, OwnStatus
<1>3. FlaggedIsWritten'
  BY DEF MailParts, FlaggedIsWritten, Alone, MailSteps, Written
<1>4. RefusedIsWritten'
  BY DEF MailParts, RefusedIsWritten, Alone, MailSteps, Written, OwnStatus
<1>. QED BY <1>1, <1>2, <1>3, <1>4 DEF MailParts

\* A step that changes neither a handler nor the mailboxes keeps them.
LEMMA IdleStep ==
  ASSUME MailParts, UNCHANGED <<pc, req, snap, msgsts, msg>>
  PROVE  MailParts'
BY DEF MailParts, FreeWhilePutting, SnapshotsBracket, FlaggedIsWritten,
       RefusedIsWritten, OwnStatus, Written

LEMMA StsStoreMail ==
  ASSUME TypeOK, HandlerOK, MailParts, NEW v \in VM, StsStore(v)
  PROVE  MailParts'
<1>1. /\ pc[v] = "stsStore" /\ pc'[v] = "msgMask" /\ Alone(v)
      /\ req[v].idx \in MsgIdx /\ msg' = msg /\ msgsts'[v] = msgsts[v]
      /\ msgsts'[Peer(v)] = snap[v] \cup {In(req[v].idx)}
  BY StepMoves, ForgetMoves, OutmsgShape, Peers DEF StsStore, Steps, Alone, TypeOK, OutmsgSteps
<1>2. FreeWhilePutting'
  <2>1. ASSUME NEW w \in VM, w # v, pc[w] = "put" PROVE In(req[w].idx) \notin msgsts'[Peer(w)]
    BY <1>1, <2>1, Peers DEF MailParts, FreeWhilePutting
  <2>. QED BY <1>1, <2>1 DEF FreeWhilePutting, Alone
<1>3. SnapshotsBracket'
  <2>1. ASSUME NEW w \in VM, w # v, NEW i \in MsgIdx, OwnStatus(w), In(i) \in snap[w]
        PROVE  In(i) \in msgsts'[w]
    BY <1>1, <2>1, Peers DEF MailParts, SnapshotsBracket
  <2>2. ASSUME NEW w \in VM, w # v, NEW i \in MsgIdx, pc[w] = "stsStore", In(i) \in msgsts[v]
        PROVE  In(i) \in snap[w]
    BY <1>1, <2>2, Peers DEF MailParts, SnapshotsBracket
  <2>. QED BY <1>1, <2>1, <2>2, Peers DEF SnapshotsBracket, Alone, OwnStatus
<1>4. FlaggedIsWritten'
  <2>1. ASSUME NEW i \in MsgIdx, In(i) \in msgsts'[Peer(v)] PROVE Written(Peer(v), i)
    BY <1>1, <2>1, Bits DEF MailParts, FlaggedIsWritten
  <2>. QED BY <1>1, <2>1, Peers DEF MailParts, FlaggedIsWritten, Alone, Written
<1>5. RefusedIsWritten'
  <2>1. ASSUME NEW i \in MsgIdx, Out(i) \in msgsts'[Peer(v)] PROVE Written(v, i)
    BY <1>1, <2>1, Bits DEF MailParts, RefusedIsWritten
  <2>. QED BY <1>1, <2>1, Peers DEF MailParts, RefusedIsWritten, Alone, Written, OwnStatus
<1>. QED BY <1>2, <1>3, <1>4, <1>5 DEF MailParts

\* v stores its own status: it may only drop flags, and report written registers.
LEMMA StoredOwn ==
  ASSUME MailParts, NEW v \in VM, Alone(v), msg' = msg,
         pc'[v] \in {"idle", "refuseMask"}, msgsts'[Peer(v)] = msgsts[Peer(v)],
         \A i \in MsgIdx : In(i) \in msgsts'[v] => In(i) \in msgsts[v],
         \A i \in MsgIdx : Out(i) \in msgsts'[v] => Written(Peer(v), i),
         \A w \in VM : pc[w] \in OutmsgSteps => req[w].idx \in MsgIdx
  PROVE  MailParts'
<1>1. FreeWhilePutting'
  <2>1. ASSUME NEW w \in VM, w # v, pc[w] = "put" PROVE In(req[w].idx) \notin msgsts'[Peer(w)]
    BY <2>1, Peers DEF MailParts, FreeWhilePutting, OutmsgSteps
  <2>. QED BY <2>1 DEF FreeWhilePutting, Alone
<1>2. SnapshotsBracket'
  BY Peers DEF MailParts, SnapshotsBracket, Alone, OwnStatus
<1>3. FlaggedIsWritten'
  BY Peers DEF MailParts, FlaggedIsWritten, Alone, Written
<1>4. RefusedIsWritten'
  BY Peers DEF MailParts, RefusedIsWritten, Alone, Written, OwnStatus
<1>. QED BY <1>1, <1>2, <1>3, <1>4 DEF MailParts

\* v loads its own status.
LEMMA LoadedOwn ==
  ASSUME MailParts, NEW v \in VM, Alone(v), msg' = msg, msgsts' = msgsts,
         pc'[v] \in {"clearStore", "refuseStore"}, snap'[v] = msgsts[v],
         pc'[v] = "refuseStore" => Written(Peer(v), req'[v].idx)
  PROVE  MailParts'
<1>1. FreeWhilePutting'
  BY DEF MailParts, FreeWhilePutting, Alone
<1>2. SnapshotsBracket'
  BY DEF MailParts, SnapshotsBracket, Alone, OwnStatus
<1>3. FlaggedIsWritten'
  BY DEF MailParts, FlaggedIsWritten, Alone, Written
<1>4. RefusedIsWritten'
  BY DEF MailParts, RefusedIsWritten, Alone, Written, OwnStatus
<1>. QED BY <1>1, <1>2, <1>3, <1>4 DEF MailParts

LEMMA RefuseStoreMail ==
  ASSUME TypeOK, HandlerOK, MailParts, NEW v \in VM, RefuseStore(v)
  PROVE  MailParts'
<1>1. /\ pc[v] = "refuseStore" /\ pc'[v] = "refuseMask" /\ Alone(v)
      /\ req[v].idx \in MsgIdx /\ msg' = msg /\ msgsts'[Peer(v)] = msgsts[Peer(v)]
      /\ msgsts'[v] = snap[v] \cup {Out(req[v].idx)}
  BY StepMoves, ForgetMoves, OutmsgShape, Peers DEF RefuseStore, Steps, Alone, TypeOK, OutmsgSteps
<1>2. ASSUME NEW i \in MsgIdx, In(i) \in msgsts'[v] PROVE In(i) \in msgsts[v]
  BY <1>1, <1>2, Bits DEF MailParts, SnapshotsBracket, OwnStatus
<1>3. ASSUME NEW i \in MsgIdx, Out(i) \in msgsts'[v] PROVE Written(Peer(v), i)
  BY <1>1, <1>3, Bits DEF MailParts, RefusedIsWritten, OwnStatus
<1>. QED BY <1>1, <1>2, <1>3, StoredOwn, OutmsgShape

LEMMA ClearMsgstsMail ==
  ASSUME TypeOK, HandlerOK, MailParts, NEW v \in VM, ClearMsgsts(v)
  PROVE  MailParts'
<1>1. /\ OwnStatus(v) /\ pc'[v] = "idle" /\ Alone(v)
      /\ msg' = msg /\ msgsts'[Peer(v)] = msgsts[Peer(v)]
      /\ msgsts'[v] = Cleared(v)
  BY StepMoves, ForgetMoves, Peers DEF ClearMsgsts, Steps, Alone, TypeOK, OwnStatus
<1>2. ASSUME NEW i \in MsgIdx, In(i) \in msgsts'[v] PROVE In(i) \in msgsts[v]
  BY <1>1, <1>2 DEF MailParts, SnapshotsBracket, Cleared
<1>3. ASSUME NEW i \in MsgIdx, Out(i) \in msgsts'[v] PROVE Written(Peer(v), i)
  BY <1>1, <1>3 DEF MailParts, RefusedIsWritten, Cleared
<1>. QED BY <1>1, <1>2, <1>3, StoredOwn, OutmsgShape

LEMMA RefuseLoadMail ==
  ASSUME TypeOK, HandlerOK, MailParts, NEW v \in VM, RefuseLoad(v)
  PROVE  MailParts'
<1>1. /\ pc[v] = "refuseLoad" /\ pc'[v] = "refuseStore" /\ Alone(v) /\ req'[v] = req[v]
      /\ snap'[v] = msgsts[v] /\ msg' = msg /\ msgsts' = msgsts
  BY StepMoves, LoadMoves, WordsTyped DEF RefuseLoad, Steps, Alone, regs
<1>2. Written(Peer(v), req[v].idx)
  BY <1>1, OutmsgShape DEF MailParts, RefusedIsWritten, OutmsgSteps
<1>. QED BY <1>1, <1>2, LoadedOwn

LEMMA StsLoadMail ==
  ASSUME TypeOK, HandlerOK, MailParts, NEW v \in VM, StsLoad(v)
  PROVE  MailParts'
<1>1. /\ pc[v] = "stsLoad" /\ pc'[v] = "stsStore" /\ Alone(v) /\ req'[v] = req[v]
      /\ snap'[v] = msgsts[Peer(v)] /\ msg' = msg /\ msgsts' = msgsts
  BY StepMoves, LoadMoves, WordsTyped DEF StsLoad, Steps, Alone, regs
<1>2. FreeWhilePutting'
  BY <1>1 DEF MailParts, FreeWhilePutting, Alone
<1>3. SnapshotsBracket'
  BY <1>1 DEF MailParts, SnapshotsBracket, Alone, OwnStatus
<1>4. FlaggedIsWritten'
  BY <1>1, Peers DEF MailParts, FlaggedIsWritten, Alone, Written
<1>5. RefusedIsWritten'
  BY <1>1, Peers DEF MailParts, RefusedIsWritten, Alone, Written, OwnStatus
<1>. QED BY <1>2, <1>3, <1>4, <1>5 DEF MailParts

LEMMA PutMsgMail ==
  ASSUME TypeOK, HandlerOK, MailParts, NEW v \in VM, PutMsg(v)
  PROVE  MailParts'
<1>1. /\ pc[v] = "put" /\ pc'[v] \in {"stsLoad", "idle"} /\ Alone(v)
      /\ pc'[v] = "stsLoad" => req'[v] = req[v]
      /\ msgsts' = msgsts
      /\ req[v].idx \in MsgIdx /\ req[v].val \in MsgVals
  BY StepMoves, OutmsgShape DEF PutMsg, Steps, Alone, OutmsgSteps
<1>2. msg' = [msg EXCEPT ![Peer(v)][req[v].idx] = req[v].val]
  BY DEF PutMsg
<1>3. ASSUME NEW w \in VM, NEW i \in MsgIdx, Written(w, i) PROVE Written(w, i)'
  <2>1. msg'[w][i] \in {msg[w][i], req[v].val}
    BY <1>1, <1>2, Peers DEF TypeOK
  <2>. QED BY <1>1, <1>3, <2>1, NoMsgAssumption DEF Written
<1>4. msg'[Peer(v)][req[v].idx] # NoMsg
  <2>1. msg'[Peer(v)][req[v].idx] = req[v].val
    BY <1>1, <1>2, Peers DEF TypeOK
  <2>. QED BY <1>1, <2>1, NoMsgAssumption
<1>5. FreeWhilePutting'
  BY <1>1 DEF MailParts, FreeWhilePutting, Alone
<1>6. SnapshotsBracket'
  BY <1>1 DEF MailParts, SnapshotsBracket, Alone, OwnStatus
<1>7. FlaggedIsWritten'
  <2>. SUFFICES ASSUME NEW w \in VM, NEW i \in MsgIdx
                PROVE  /\ In(i) \in msgsts'[w] => Written(w, i)'
                       /\ pc'[w] = "stsStore" /\ In(i) \in snap'[w] => Written(Peer(w), i)'
                       /\ pc'[w] \in {"stsLoad", "stsStore"} => Written(Peer(w), req[w].idx)'
    BY <1>1 DEF FlaggedIsWritten, Alone, Written
  <2>1. In(i) \in msgsts'[w] => Written(w, i)'
    BY <1>1, <1>3 DEF MailParts, FlaggedIsWritten
  <2>2. CASE w = v
    BY <1>1, <1>4, <2>1, <2>2 DEF Written
  <2>3. CASE w # v
    <3>1. pc'[w] \in {"stsLoad", "stsStore"} => req[w].idx \in MsgIdx
      BY <1>1, <2>3, OutmsgShape DEF Alone, OutmsgSteps
    <3>. QED BY <1>1, <1>3, <2>1, <2>3, <3>1, Peers DEF MailParts, FlaggedIsWritten, Alone
  <2>. QED BY <2>2, <2>3
<1>8. RefusedIsWritten'
  <2>. SUFFICES ASSUME NEW w \in VM, NEW i \in MsgIdx
                PROVE  /\ Out(i) \in msgsts'[w] => Written(Peer(w), i)'
                       /\ OwnStatus(w)' /\ Out(i) \in snap'[w] => Written(Peer(w), i)'
                       /\ pc'[w] = "stsStore" /\ Out(i) \in snap'[w] => Written(w, i)'
                       /\ pc'[w] \in {"refuseLoad", "refuseStore"} => Written(Peer(w), req[w].idx)'
    BY <1>1 DEF RefusedIsWritten, Alone, Written
  <2>1. Out(i) \in msgsts'[w] => Written(Peer(w), i)'
    BY <1>1, <1>3, Peers DEF MailParts, RefusedIsWritten
  <2>2. CASE w = v
    BY <1>1, <2>1, <2>2 DEF OwnStatus
  <2>3. CASE w # v
    <3>1. pc'[w] \in {"refuseLoad", "refuseStore"} => req[w].idx \in MsgIdx
      BY <1>1, <2>3, OutmsgShape DEF Alone, OutmsgSteps
    <3>. QED BY <1>1, <1>3, <2>1, <2>3, <3>1, Peers DEF MailParts, RefusedIsWritten, Alone, OwnStatus
  <2>. QED BY <2>2, <2>3
<1>. QED BY <1>5, <1>6, <1>7, <1>8 DEF MailParts

LEMMA OutmsgCheckMail ==
  ASSUME TypeOK, HandlerOK, MailParts, NEW v \in VM, OutmsgCheck(v)
  PROVE  MailParts'
<1>1. PICK c \in Commands[v] :
        c.reg = "OUTMSG" /\ Trap(v, c, IF Pending(v, c.idx) THEN "refuseLoad" ELSE "put")
  BY DEF OutmsgCheck
<1>2. c.idx \in MsgIdx
  BY <1>1, Shapes
<1>3. msgsts' = msgsts /\ msg' = msg /\ snap' = snap
  BY DEF OutmsgCheck, regs
<1>4. Alone(v) /\ req'[v] = c /\ pc'[v] = IF Pending(v, c.idx) THEN "refuseLoad" ELSE "put"
  BY <1>1, <1>3, TrapMoves DEF Steps, Alone
<1>5. FreeWhilePutting'
  BY <1>2, <1>3, <1>4 DEF MailParts, FreeWhilePutting, Alone, Pending
<1>6. SnapshotsBracket'
  BY <1>3, <1>4 DEF MailParts, SnapshotsBracket, Alone, OwnStatus
<1>7. FlaggedIsWritten'
  BY <1>3, <1>4 DEF MailParts, FlaggedIsWritten, Alone, Written
<1>8. RefusedIsWritten'
  <2>1. Pending(v, c.idx) => Written(Peer(v), c.idx)
    BY <1>2, Peers DEF MailParts, FlaggedIsWritten, Pending
  <2>. QED BY <1>3, <1>4, <2>1 DEF MailParts, RefusedIsWritten, Alone, Written, OwnStatus
<1>. QED BY <1>5, <1>6, <1>7, <1>8 DEF MailParts

LEMMA ClearLoadMail ==
  ASSUME TypeOK, HandlerOK, MailParts, NEW v \in VM, ClearLoad(v)
  PROVE  MailParts'
<1>1. PICK c \in Commands[v] :
        c.reg \in StatusRegs /\ Trap(v, c, "clearStore") /\ Load(v, Status(v, c.reg))
  BY DEF ClearLoad
<1>2. Status(v, c.reg) \in SUBSET Words
  BY <1>1, WordsTyped DEF Status, StatusRegs
<1>3. /\ pc'[v] = "clearStore" /\ req'[v] = c /\ snap'[v] = Status(v, c.reg)
      /\ Alone(v) /\ msgsts' = msgsts /\ msg' = msg
  BY <1>1, <1>2, TrapMoves, LoadMoves DEF ClearLoad, Steps, Alone, regs
<1>4. CASE c.reg # "MSGSTS"
  BY <1>3, <1>4, QuietStep DEF MailSteps
<1>5. CASE c.reg = "MSGSTS"
  <2>1. snap'[v] = msgsts[v]
    BY <1>3, <1>5 DEF Status
  <2>. QED BY <1>3, <2>1, LoadedOwn
<1>. QED BY <1>4, <1>5

LEMMA MailStep == TypeOK /\ HandlerOK /\ MailParts /\ [Next]_vars => MailParts'
<1>. SUFFICES ASSUME TypeOK, HandlerOK, MailParts, [Next]_vars PROVE MailParts'
  OBVIOUS
<1>1. ASSUME NEW v \in VM, WriteDbMask(v) PROVE MailParts'
  <2>1. Alone(v) /\ pc'[v] \notin MailSteps \cup {"clearStore"} /\ msgsts' = msgsts /\ msg' = msg
    BY <1>1, TrapMoves DEF WriteDbMask, Steps, Alone, MailSteps, regs
  <2>. QED BY <2>1, QuietStep
<1>2. ASSUME NEW v \in VM, WriteMsgMask(v) PROVE MailParts'
  <2>1. Alone(v) /\ pc'[v] \notin MailSteps \cup {"clearStore"} /\ msgsts' = msgsts /\ msg' = msg
    BY <1>2, TrapMoves DEF WriteMsgMask, Steps, Alone, MailSteps, regs
  <2>. QED BY <2>1, QuietStep
<1>3. ASSUME NEW v \in VM, WriteIntMask(v) PROVE MailParts'
  <2>1. Alone(v) /\ pc'[v] \notin MailSteps \cup {"clearStore"} /\ msgsts' = msgsts /\ msg' = msg
    BY <1>3, TrapMoves DEF WriteIntMask, Steps, Alone, MailSteps, regs
  <2>. QED BY <2>1, QuietStep
<1>4. ASSUME NEW v \in VM, ClearLoad(v) PROVE MailParts'
  BY <1>4, ClearLoadMail
<1>5. ASSUME NEW v \in VM, ClearDb(v) PROVE MailParts'
  <2>1. Alone(v) /\ pc'[v] \notin MailSteps \cup {"clearStore"} /\ msgsts' = msgsts /\ msg' = msg
    BY <1>5, StepMoves, ForgetMoves DEF ClearDb, Steps, Alone, MailSteps, regs
  <2>. QED BY <2>1, QuietStep
<1>6. ASSUME NEW v \in VM, ClearMsgsts(v) PROVE MailParts'
  BY <1>6, ClearMsgstsMail
<1>7. ASSUME NEW v \in VM, ClearIntsts(v) PROVE MailParts'
  <2>1. Alone(v) /\ pc'[v] \notin MailSteps \cup {"clearStore"} /\ msgsts' = msgsts /\ msg' = msg
    BY <1>7, StepMoves, ForgetMoves DEF ClearIntsts, Steps, Alone, MailSteps, regs
  <2>. QED BY <2>1, QuietStep
<1>8. ASSUME NEW v \in VM, ClearSegsigsts(v) PROVE MailParts'
  <2>1. Alone(v) /\ pc'[v] \notin MailSteps \cup {"clearStore"} /\ msgsts' = msgsts /\ msg' = msg
    BY <1>8, StepMoves, ForgetMoves DEF ClearSegsigsts, Steps, Alone, MailSteps, regs
  <2>. QED BY <2>1, QuietStep
<1>9. ASSUME NEW v \in VM, OutmsgCheck(v) PROVE MailParts'
  BY <1>9, OutmsgCheckMail
<1>10. ASSUME NEW v \in VM, RefuseLoad(v) PROVE MailParts'
  BY <1>10, RefuseLoadMail
<1>11. ASSUME NEW v \in VM, RefuseStore(v) PROVE MailParts'
  BY <1>11, RefuseStoreMail
<1>12. ASSUME NEW v \in VM, RefuseMask(v) PROVE MailParts'
  <2>1. Alone(v) /\ pc'[v] \notin MailSteps \cup {"clearStore"} /\ msgsts' = msgsts /\ msg' = msg
    BY <1>12, StepMoves DEF RefuseMask, Steps, Alone, MailSteps, regs
  <2>. QED BY <2>1, QuietStep
<1>13. ASSUME NEW v \in VM, SelfLoad(v) PROVE MailParts'
  <2>1. Alone(v) /\ pc'[v] \notin MailSteps \cup {"clearStore"} /\ msgsts' = msgsts /\ msg' = msg
    BY <1>13, StepMoves, LoadMoves, WordsTyped DEF SelfLoad, Steps, Alone, MailSteps, regs
  <2>. QED BY <2>1, QuietStep
<1>14. ASSUME NEW v \in VM, SelfStore(v) PROVE MailParts'
  <2>1. Alone(v) /\ pc'[v] \notin MailSteps \cup {"clearStore"} /\ msgsts' = msgsts /\ msg' = msg
    BY <1>14, StepMoves, ForgetMoves DEF SelfStore, Steps, Alone, MailSteps, regs
  <2>. QED BY <2>1, QuietStep
<1>15. ASSUME NEW v \in VM, PutMsg(v) PROVE MailParts'
  BY <1>15, PutMsgMail
<1>16. ASSUME NEW v \in VM, StsLoad(v) PROVE MailParts'
  BY <1>16, StsLoadMail
<1>17. ASSUME NEW v \in VM, StsStore(v) PROVE MailParts'
  BY <1>17, StsStoreMail
<1>18. ASSUME NEW v \in VM, MsgMask(v) PROVE MailParts'
  <2>1. Alone(v) /\ pc'[v] \notin MailSteps \cup {"clearStore"} /\ msgsts' = msgsts /\ msg' = msg
    BY <1>18, StepMoves DEF MsgMask, Steps, Alone, MailSteps, regs
  <2>. QED BY <2>1, QuietStep
<1>19. ASSUME NEW v \in VM, DbRing(v) PROVE MailParts'
  <2>1. Alone(v) /\ pc'[v] \notin MailSteps \cup {"clearStore"} /\ msgsts' = msgsts /\ msg' = msg
    BY <1>19, TrapMoves DEF DbRing, Steps, Alone, MailSteps, regs
  <2>. QED BY <2>1, QuietStep
<1>20. ASSUME NEW v \in VM, SigLoad(v) PROVE MailParts'
  <2>1. Alone(v) /\ pc'[v] \notin MailSteps \cup {"clearStore"} /\ msgsts' = msgsts /\ msg' = msg
    BY <1>20, TrapMoves, LoadMoves, WordsTyped DEF SigLoad, Steps, Alone, MailSteps, regs
  <2>. QED BY <2>1, QuietStep
<1>21. ASSUME NEW v \in VM, SigStore(v) PROVE MailParts'
  <2>1. Alone(v) /\ pc'[v] \notin MailSteps \cup {"clearStore"} /\ msgsts' = msgsts /\ msg' = msg
    BY <1>21, StepMoves, ForgetMoves DEF SigStore, Steps, Alone, MailSteps, regs
  <2>. QED BY <2>1, QuietStep
<1>22. ASSUME NEW v \in VM, IntMask(v) PROVE MailParts'
  <2>1. Alone(v) /\ pc'[v] \notin MailSteps \cup {"clearStore"} /\ msgsts' = msgsts /\ msg' = msg
    BY <1>22, StepMoves DEF IntMask, Steps, Alone, MailSteps, regs
  <2>. QED BY <2>1, QuietStep
<1>23. ASSUME NEW v \in VM, RaiseLoad(v) PROVE MailParts'
  <2>1. Alone(v) /\ pc'[v] \notin MailSteps \cup {"clearStore"} /\ msgsts' = msgsts /\ msg' = msg
    BY <1>23, StepMoves, LoadMoves, WordsTyped DEF RaiseLoad, Steps, Alone, MailSteps, regs
  <2>. QED BY <2>1, QuietStep
<1>24. ASSUME NEW v \in VM, RaiseStore(v) PROVE MailParts'
  <2>1. Alone(v) /\ pc'[v] \notin MailSteps \cup {"clearStore"} /\ msgsts' = msgsts /\ msg' = msg
    BY <1>24, StepMoves, ForgetMoves DEF RaiseStore, Steps, Alone, MailSteps, regs
  <2>. QED BY <2>1, QuietStep
<1>25. ASSUME NEW v \in VM, Notify(v) PROVE MailParts'
  <2>1. Alone(v) /\ pc'[v] \notin MailSteps \cup {"clearStore"} /\ msgsts' = msgsts /\ msg' = msg
    BY <1>25, StepMoves DEF Notify, Steps, Alone, MailSteps, regs
  <2>. QED BY <2>1, QuietStep
<1>26. ASSUME NEW v \in VM, NotifyNobody(v) PROVE MailParts'
  <2>1. Alone(v) /\ pc'[v] \notin MailSteps \cup {"clearStore"} /\ msgsts' = msgsts /\ msg' = msg
    BY <1>26, StepMoves DEF NotifyNobody, Steps, Alone, MailSteps, regs
  <2>. QED BY <2>1, QuietStep
<1>27. ASSUME NEW v \in VM, Realize(v) PROVE MailParts'
  BY <1>27, IdleStep DEF Realize, regs, cpu
<1>28. ASSUME NEW v \in VM, InitVmIds(v) PROVE MailParts'
  BY <1>28, IdleStep DEF InitVmIds, regs, cpu
<1>29. ASSUME NEW v \in VM, VmIdEvent(v) PROVE MailParts'
  BY <1>29, IdleStep DEF VmIdEvent, regs, cpu
<1>30. ASSUME NEW v \in VM, InterruptEvent(v) PROVE MailParts'
  BY <1>30, IdleStep DEF InterruptEvent, regs, cpu
<1>31. ASSUME NEW v \in VM, TakeInterrupt(v) PROVE MailParts'
  BY <1>31, IdleStep DEF TakeInterrupt, regs, cpu
<1>32. ASSUME UNCHANGED vars PROVE MailParts'
  BY <1>32, IdleStep DEF vars, regs, cpu
<1>33. ASSUME NEW v \in VM, Connect(v) PROVE MailParts'
  BY <1>33, IdleStep DEF Connect, regs, cpu
<1>34. ASSUME NEW v \in VM, SigAbort(v) PROVE MailParts'
  <2>1. Alone(v) /\ pc'[v] \notin MailSteps \cup {"clearStore"} /\ msgsts' = msgsts /\ msg' = msg
    BY <1>34, TrapMoves DEF SigAbort, Steps, Alone, MailSteps, regs
  <2>. QED BY <2>1, QuietStep
<1>. QED
  BY <1>1, <1>2, <1>3, <1>4, <1>5, <1>6, <1>7, <1>8, <1>9, <1>10, <1>11, <1>12,
     <1>13, <1>14, <1>15, <1>16, <1>17, <1>18, <1>19, <1>20, <1>21, <1>22, <1>23, <1>24,
     <1>25, <1>26, <1>27, <1>28, <1>29, <1>30, <1>31, <1>32, <1>33, <1>34
  DEF Next, Continue, Write, Event, Start

-----------------------------------------------------------------------------
(* What holds of every behaviour.                                          *)

\* The invariant that carries the others, handlers midway included.
THEOREM MailInvariant == Spec => []MailInv
<1>1. Init => MailInv
  BY TypeInit, MailPartsInit DEF MailInv, MailParts
<1>2. MailInv /\ [Next]_vars => MailInv'
  BY TypeStep, HandlerStep, MailStep DEF MailInv, MailParts
<1>. QED BY <1>1, <1>2, PTL DEF Spec

\* Every register keeps its type: no handler stores into a status word a bit
\* that does not belong to it.
THEOREM TypeCorrect == Spec => []TypeOK
<1>1. MailInv => TypeOK
  BY DEF MailInv
<1>. QED BY <1>1, MailInvariant, PTL

\* A refusal is only ever reported for a register that has been written.
THEOREM RefusalsJustified == Spec => []RefusalJustified
<1>1. MailInv => RefusalJustified
  BY DEF MailInv, RefusedIsWritten, RefusalJustified, Written
<1>. QED BY <1>1, MailInvariant, PTL

\* Only the accepting handler changes a message register, and it still finds
\* the register free.
LEMMA MsgChange ==
  ASSUME MailInv, [Next]_vars, msg' # msg
  PROVE  \E v \in VM : PutMsg(v)
<1>1. CASE UNCHANGED vars
  BY <1>1 DEF vars, regs
<1>2. ASSUME NEW v \in VM, Continue(v) \/ Write(v) \/ Event(v) \/ Start(v) \/ TakeInterrupt(v)
      PROVE  PutMsg(v)
  BY <1>2 DEF Continue, Write, Event, Start, regs, ClearDb, ClearMsgsts, ClearIntsts,
     ClearSegsigsts, RefuseLoad, RefuseStore, RefuseMask, SelfLoad, SelfStore, StsLoad,
     StsStore, MsgMask, SigStore, IntMask, RaiseLoad, RaiseStore, Notify, NotifyNobody,
     WriteDbMask, WriteMsgMask, WriteIntMask, ClearLoad, OutmsgCheck, DbRing, SigLoad, SigAbort,
     VmIdEvent, InterruptEvent, Connect, Realize, InitVmIds, TakeInterrupt
<1>. QED BY <1>1, <1>2 DEF Next

LEMMA PutIsFree ==
  ASSUME MailInv, NEW v \in VM, PutMsg(v)
  PROVE  /\ req[v].idx \in MsgIdx /\ req[v].val \in MsgVals
         /\ In(req[v].idx) \notin msgsts[Peer(v)]
         /\ msg' = [msg EXCEPT ![Peer(v)][req[v].idx] = req[v].val]
         /\ msgsts' = msgsts
<1>1. pc[v] = "put"
  BY DEF PutMsg, Step
<1>. QED BY <1>1, OutmsgShape DEF PutMsg, MailInv, FreeWhilePutting, OutmsgSteps

\* The word under a flag does not change.
THEOREM PendingMessagesStable == Spec => PendingMessageStable
<1>1. MailInv /\ [Next]_vars =>
        [\A v \in VM, i \in MsgIdx : In(i) \in msgsts[v] => msg'[v][i] = msg[v][i]]_vars
  <2>. SUFFICES ASSUME MailInv, [Next]_vars, NEW w \in VM, NEW i \in MsgIdx,
                       In(i) \in msgsts[w]
                PROVE  msg'[w][i] = msg[w][i]
    OBVIOUS
  <2>1. CASE msg' = msg
    BY <2>1
  <2>2. CASE msg' # msg
    <3>1. PICK v \in VM : PutMsg(v)
      BY <2>2, MsgChange
    <3>2. ~(w = Peer(v) /\ i = req[v].idx)
      BY <3>1, PutIsFree
    <3>. QED BY <3>1, <3>2, PutIsFree, Peers DEF MailInv, TypeOK
  <2>. QED BY <2>1, <2>2
<1>. QED BY <1>1, MailInvariant, PTL DEF Spec, PendingMessageStable

\* Only four steps store a message status: two of the end that owns it, one of
\* its peer.
LEMMA StatusChange ==
  ASSUME [Next]_vars, msgsts' # msgsts
  PROVE  \E v \in VM : StsStore(v) \/ RefuseStore(v) \/ ClearMsgsts(v)
<1>1. CASE UNCHANGED vars
  BY <1>1 DEF vars, regs
<1>2. ASSUME NEW v \in VM, Continue(v) \/ Write(v) \/ Event(v) \/ Start(v) \/ TakeInterrupt(v)
      PROVE  StsStore(v) \/ RefuseStore(v) \/ ClearMsgsts(v)
  BY <1>2 DEF Continue, Write, Event, Start, regs, ClearDb, ClearIntsts,
     ClearSegsigsts, RefuseLoad, RefuseMask, SelfLoad, SelfStore, PutMsg, StsLoad,
     MsgMask, SigStore, IntMask, RaiseLoad, RaiseStore, Notify, NotifyNobody,
     WriteDbMask, WriteMsgMask, WriteIntMask, ClearLoad, OutmsgCheck, DbRing, SigLoad, SigAbort,
     VmIdEvent, InterruptEvent, Connect, Realize, InitVmIds, TakeInterrupt
<1>. QED BY <1>1, <1>2 DEF Next

\* The flags of v as a set of registers: what the mailboxes call full.
Full == [v \in VM |-> {i \in MsgIdx : In(i) \in msgsts[v]}]

LEMMA FullStored ==
  ASSUME TypeOK, NEW w \in VM, NEW S, msgsts' = [msgsts EXCEPT ![w] = S]
  PROVE  /\ msgsts'[w] = S
         /\ Full' = [Full EXCEPT ![w] = {i \in MsgIdx : In(i) \in msgsts'[w]}]
BY DEF Full, TypeOK

\* A store by v of its own status withdraws flags.
LEMMA StoreOwnWithdraws ==
  ASSUME MailInv, NEW v \in VM, msg' = msg, NEW S, msgsts' = [msgsts EXCEPT ![v] = S],
         \A i \in MsgIdx : In(i) \in S => In(i) \in msgsts[v]
  PROVE  Box!Withdraw(v)
<1>1. /\ msgsts'[v] = S
      /\ Full' = [Full EXCEPT ![v] = {i \in MsgIdx : In(i) \in msgsts'[v]}]
  BY FullStored DEF MailInv
<1>2. {i \in MsgIdx : In(i) \in msgsts'[v]} \in SUBSET Full[v]
  BY <1>1 DEF Full
<1>. QED BY <1>1, <1>2 DEF Box!Withdraw, Full

\* The message registers are mailboxes, whatever both ends do at once: a word
\* enters a free register, only the sender flags, only the owner withdraws.
THEOREM RegistersAreMailboxes == Spec => MailboxSpec
<1>1. Init => Box!Init
  BY DEF Init, Box!Init
<1>2. MailInv /\ MailInv' /\ [Next]_vars => [Box!Next]_(Box!vars)
  <2>. SUFFICES ASSUME MailInv, MailInv', [Next]_vars,
                       msg' # msg \/ msgsts' # msgsts
                PROVE  Box!Next
    BY DEF Box!vars
  <2>1. CASE msg' # msg
    <3>1. PICK v \in VM : PutMsg(v)
      BY <2>1, MsgChange
    <3>2. req[v].idx \notin Full[Peer(v)] /\ Full' = Full
      BY <3>1, PutIsFree, Peers DEF Full
    <3>3. Box!Deposit(Peer(v), req[v].idx, req[v].val)
      BY <3>1, <3>2, PutIsFree DEF Box!Deposit, Full
    <3>. QED BY <3>1, <3>3, PutIsFree, Peers DEF Box!Next
  <2>2. CASE msgsts' # msgsts
    <3>1. PICK v \in VM : StsStore(v) \/ RefuseStore(v) \/ ClearMsgsts(v)
      BY <2>2, StatusChange
    <3>2. CASE StsStore(v)
      <4>1. /\ pc[v] = "stsStore" /\ req[v].idx \in MsgIdx /\ msg' = msg
            /\ msgsts' = [msgsts EXCEPT ![Peer(v)] = snap[v] \cup {In(req[v].idx)}]
        BY <3>2, OutmsgShape DEF StsStore, Step, MailInv, OutmsgSteps
      <4>2. Full' = [Full EXCEPT ![Peer(v)] = {i \in MsgIdx : In(i) \in msgsts'[Peer(v)]}]
        BY <4>1, Peers, FullStored DEF MailInv
      <4>3. Full[Peer(v)] \subseteq {i \in MsgIdx : In(i) \in msgsts'[Peer(v)]}
        BY <4>1, Peers DEF Full, MailInv, TypeOK, SnapshotsBracket
      <4>4. \A i \in MsgIdx : In(i) \in msgsts'[Peer(v)] => msg[Peer(v)][i] # NoMsg
        BY <4>1, Peers DEF MailInv, FlaggedIsWritten, Written
      <4>5. Box!Publish(Peer(v))
        BY <4>1, <4>2, <4>3, <4>4 DEF Box!Publish, Full
      <4>. QED BY <4>5, Peers DEF Box!Next
    <3>3. CASE RefuseStore(v)
      <4>1. /\ pc[v] = "refuseStore" /\ req[v].idx \in MsgIdx /\ msg' = msg
            /\ msgsts' = [msgsts EXCEPT ![v] = snap[v] \cup {Out(req[v].idx)}]
        BY <3>3, OutmsgShape DEF RefuseStore, Step, MailInv, OutmsgSteps
      <4>2. \A i \in MsgIdx : In(i) \in snap[v] \cup {Out(req[v].idx)} => In(i) \in msgsts[v]
        BY <4>1, Bits DEF MailInv, TypeOK, SnapshotsBracket, OwnStatus
      <4>3. Box!Withdraw(v)
        BY <4>1, <4>2, StoreOwnWithdraws
      <4>. QED BY <4>3 DEF Box!Next
    <3>4. CASE ClearMsgsts(v)
      <4>1. /\ OwnStatus(v) /\ msg' = msg
            /\ msgsts' = [msgsts EXCEPT ![v] = Cleared(v)]
        BY <3>4 DEF ClearMsgsts, Step, OwnStatus
      <4>2. \A i \in MsgIdx : In(i) \in Cleared(v) => In(i) \in msgsts[v]
        BY <4>1 DEF MailInv, TypeOK, SnapshotsBracket, Cleared
      <4>3. Box!Withdraw(v)
        BY <4>1, <4>2, StoreOwnWithdraws
      <4>. QED BY <4>3 DEF Box!Next
    <3>. QED BY <3>1, <3>2, <3>3, <3>4
  <2>. QED BY <2>1, <2>2
<1>. QED BY <1>1, <1>2, MailInvariant, PTL DEF Spec, MailboxSpec, Box!Spec

-----------------------------------------------------------------------------
(* Every interrupt has a cause.                                            *)

LEMMA CauseInit == Init => CauseStored
BY Peers DEF Init, CauseStored, Interrupting, NoCmd

\* A step that leaves the interrupt status alone, brings no handler of v's own
\* that clears it, and raises nothing that was not already on its way.
LEMMA CauseKept ==
  ASSUME CauseStored, intsts' = intsts,
         \A v \in VM : Keeps(v) =>
           /\ req'[v].reg # "NTINTSTS"
           /\ Interrupting(v)' => Interrupting(v)
  PROVE  CauseStored'
BY DEF CauseStored, Keeps

\* A handler that goes on keeps the write it serves or is finished.
LEMMA KeepsRequest ==
  ASSUME TypeOK, CauseStored, NEW v \in VM, NEW l, NEW m \in Steps, Step(v, l, m)
  PROVE  \A w \in VM : Keeps(w) => req'[w].reg # "NTINTSTS"
BY DEF TypeOK, Step, CauseStored, NoCmd

\* A handler that begins serves a write of its guest's.
LEMMA TakesRequest ==
  ASSUME TypeOK, CauseStored, NEW v \in VM, NEW c \in Commands[v], NEW m \in Steps, Trap(v, c, m)
  PROVE  \A w \in VM : Keeps(w) => req'[w].reg # "NTINTSTS"
BY DEF TypeOK, Trap, CauseStored, Keeps, NoCmd

\* A handler of v that is not about to notify, and raises nothing, adds no
\* interrupt.
LEMMA QuietOn ==
  ASSUME TypeOK, NEW v \in VM, NEW m \in Steps \ {"notify"},
         pc' = [pc EXCEPT ![v] = m], UNCHANGED irq
  PROVE  \A w \in VM : Interrupting(w)' => Interrupting(w)
BY Peers DEF TypeOK, Interrupting, irq

\* The writes of a guest, and the steps of a handler that store no interrupt
\* status and do not notify.
LEMMA PlainStepCause ==
  ASSUME TypeOK, CauseStored, NEW v \in VM, NEW l, NEW m \in Steps \ {"notify"},
         Step(v, l, m), intsts' = intsts, UNCHANGED irq
  PROVE  CauseStored'
<1>1. \A w \in VM : Keeps(w) => req'[w].reg # "NTINTSTS"
  BY KeepsRequest
<1>2. \A w \in VM : Interrupting(w)' => Interrupting(w)
  BY QuietOn DEF Step
<1>. QED BY <1>1, <1>2, CauseKept

LEMMA WriteCause ==
  ASSUME TypeOK, CauseStored, NEW v \in VM, NEW c \in Commands[v],
         NEW m \in Steps \ {"notify"}, Trap(v, c, m), intsts' = intsts, UNCHANGED irq
  PROVE  CauseStored'
<1>1. \A w \in VM : Keeps(w) => req'[w].reg # "NTINTSTS"
  BY TakesRequest
<1>2. \A w \in VM : Interrupting(w)' => Interrupting(w)
  BY QuietOn DEF Trap
<1>. QED BY <1>1, <1>2, CauseKept

\* A store that leaves a bit in the status of u, by a step that raises an
\* interrupt of nobody but u.
LEMMA StoreCause ==
  ASSUME TypeOK, CauseStored, NEW v \in VM, NEW l, NEW m \in Steps, Step(v, l, m),
         NEW u \in VM, NEW S, S # {}, intsts' = [intsts EXCEPT ![u] = S],
         Interrupting(Peer(u))' => Interrupting(Peer(u))
  PROVE  CauseStored'
<1>1. \A w \in VM : Keeps(w) => req'[w].reg # "NTINTSTS"
  BY KeepsRequest
<1>2. intsts'[u] # {} /\ intsts'[Peer(u)] = intsts[Peer(u)]
  BY Peers DEF TypeOK
<1>. QED BY <1>1, <1>2, Peers DEF CauseStored, Keeps

LEMMA RaiseStoreCause ==
  ASSUME TypeOK, CauseStored, NEW v \in VM, RaiseStore(v)
  PROVE  CauseStored'
<1>1. Step(v, "raiseStore", "notify") /\ "notify" \in Steps
  BY DEF RaiseStore, Steps
<1>2. intsts' = [intsts EXCEPT ![Peer(v)] = snap[v] \cup {Cause(v)}] /\ UNCHANGED irq
  BY DEF RaiseStore
<1>3. pc'[Peer(v)] = pc[Peer(v)]
  BY <1>1, Peers DEF Step, TypeOK
<1>4. Interrupting(Peer(Peer(v)))' => Interrupting(Peer(Peer(v)))
  BY <1>2, <1>3, Peers DEF Interrupting, irq
<1>. QED BY <1>1, <1>2, <1>4, Peers, StoreCause

LEMMA SelfStoreCause ==
  ASSUME TypeOK, CauseStored, NEW v \in VM, SelfStore(v)
  PROVE  CauseStored'
<1>1. Step(v, "selfStore", "idle") /\ "idle" \in Steps
  BY DEF SelfStore, Steps
<1>2. /\ intsts' = [intsts EXCEPT ![v] = snap[v] \cup {MSG}]
      /\ msi' = [msi EXCEPT ![v] = TRUE] /\ eventfd' = eventfd
  BY DEF SelfStore
<1>3. pc'[v] = "idle" /\ msi'[Peer(v)] = msi[Peer(v)]
  BY <1>1, <1>2, Peers DEF Step, TypeOK
<1>4. Interrupting(Peer(v))' => Interrupting(Peer(v))
  BY <1>2, <1>3, Peers DEF Interrupting
<1>. QED BY <1>1, <1>2, <1>4, StoreCause

LEMMA ClearIntstsCause ==
  ASSUME TypeOK, CauseStored, NEW v \in VM, ClearIntsts(v)
  PROVE  CauseStored'
<1>1. Step(v, "clearStore", "idle") /\ "idle" \in Steps \ {"notify"}
  BY DEF ClearIntsts, Steps
<1>2. UNCHANGED irq /\ req[v].reg = "NTINTSTS"
  BY DEF ClearIntsts
<1>3. \A w \in VM : Keeps(w) => req'[w].reg # "NTINTSTS"
  BY <1>1, KeepsRequest
<1>4. \A w \in VM : Interrupting(w)' => Interrupting(w)
  BY <1>1, <1>2, QuietOn DEF Step
<1>5. ~Keeps(v) /\ \A w \in VM : w # v => intsts'[w] = intsts[w]
  BY <1>2 DEF CauseStored, ClearIntsts, TypeOK
<1>. QED BY <1>3, <1>4, <1>5 DEF CauseStored, Keeps

LEMMA NotifyCause ==
  ASSUME TypeOK, CauseStored, NEW v \in VM, Notify(v)
  PROVE  CauseStored'
<1>1. Step(v, "notify", "idle") /\ "idle" \in Steps
  BY DEF Notify, Steps
<1>2. \A w \in VM : Keeps(w) => req'[w].reg # "NTINTSTS"
  BY <1>1, KeepsRequest
<1>3. Interrupting(Peer(v))
  BY <1>1, Peers DEF Step, Interrupting
<1>4. /\ intsts' = intsts /\ msi' = msi
      /\ eventfd'[v] = eventfd[v] /\ pc'[Peer(v)] = pc[Peer(v)]
  BY <1>1, Peers DEF Notify, Step, TypeOK, regs
<1>5. \A w \in VM : Interrupting(w)' => Interrupting(w)
  BY <1>3, <1>4, Peers DEF Interrupting
<1>. QED BY <1>2, <1>4, <1>5, CauseKept

\* What is no handler touches neither the status nor the handlers, and only
\* passes an interrupt on.
LEMMA EventCause ==
  ASSUME TypeOK, CauseStored, NEW v \in VM, Event(v) \/ Start(v) \/ TakeInterrupt(v)
  PROVE  CauseStored'
<1>1. intsts' = intsts /\ req' = req /\ pc' = pc
  BY DEF Event, Start, VmIdEvent, InterruptEvent, Connect, Realize, InitVmIds, TakeInterrupt, regs, cpu
<1>2. ASSUME NEW w \in VM, Interrupting(w)' PROVE Interrupting(w)
  <2>1. CASE VmIdEvent(v) \/ Connect(v) \/ Realize(v) \/ InitVmIds(v)
    BY <1>1, <1>2, <2>1, Peers
       DEF Interrupting, TypeOK, irq, VmIdEvent, Connect, Realize, InitVmIds
  <2>2. CASE InterruptEvent(v) \/ TakeInterrupt(v)
    BY <1>1, <1>2, <2>2, Peers DEF Interrupting, TypeOK, irq, InterruptEvent, TakeInterrupt
  <2>. QED BY <2>1, <2>2 DEF Event, Start
<1>. QED BY <1>1, <1>2, CauseKept DEF CauseStored

LEMMA CauseStep == TypeOK /\ CauseStored /\ [Next]_vars => CauseStored'
<1>. SUFFICES ASSUME TypeOK, CauseStored, [Next]_vars PROVE CauseStored'
  OBVIOUS
<1>. USE DEF Steps
<1>1. CASE UNCHANGED vars
  BY <1>1 DEF vars, regs, irq, cpu, CauseStored, Interrupting
<1>2. ASSUME NEW v \in VM, Continue(v) PROVE CauseStored'
  <2>1. CASE RaiseStore(v) \/ SelfStore(v) \/ ClearIntsts(v) \/ Notify(v)
    BY <2>1, RaiseStoreCause, SelfStoreCause, ClearIntstsCause, NotifyCause
  <2>2. CASE ClearDb(v) \/ ClearMsgsts(v) \/ ClearSegsigsts(v)
    BY <2>2, PlainStepCause DEF ClearDb, ClearMsgsts, ClearSegsigsts
  <2>3. CASE RefuseLoad(v) \/ RefuseStore(v) \/ RefuseMask(v) \/ SelfLoad(v)
    <3>1. \E l, m \in Steps \ {"notify"} : Step(v, l, m)
      BY <2>3 DEF RefuseLoad, RefuseStore, RefuseMask, SelfLoad
    <3>2. intsts' = intsts /\ UNCHANGED irq
      BY <2>3 DEF RefuseLoad, RefuseStore, RefuseMask, SelfLoad, regs
    <3>. QED BY <3>1, <3>2, PlainStepCause
  <2>4. CASE PutMsg(v) \/ StsLoad(v) \/ StsStore(v) \/ MsgMask(v) \/ SigStore(v)
    <3>1. \E l, m \in Steps \ {"notify"} : Step(v, l, m)
      BY <2>4 DEF PutMsg, StsLoad, StsStore, MsgMask, SigStore
    <3>2. intsts' = intsts /\ UNCHANGED irq
      BY <2>4 DEF PutMsg, StsLoad, StsStore, MsgMask, SigStore, regs
    <3>. QED BY <3>1, <3>2, PlainStepCause
  <2>5. CASE IntMask(v) \/ RaiseLoad(v) \/ NotifyNobody(v)
    <3>1. \E l, m \in Steps : m # "notify" /\ Step(v, l, m)
      BY <2>5 DEF IntMask, RaiseLoad, NotifyNobody
    <3>2. intsts' = intsts /\ UNCHANGED irq
      BY <2>5 DEF IntMask, RaiseLoad, NotifyNobody, regs
    <3>. QED BY <3>1, <3>2, PlainStepCause
  <2>. QED BY <1>2, <2>1, <2>2, <2>3, <2>4, <2>5 DEF Continue
<1>3. ASSUME NEW v \in VM, Write(v) PROVE CauseStored'
  <2>1. \E c \in Commands[v] : \E m \in Steps \ {"notify"} : Trap(v, c, m)
    BY <1>3 DEF Write, WriteDbMask, WriteMsgMask, WriteIntMask, ClearLoad, OutmsgCheck,
       DbRing, SigLoad, SigAbort
  <2>2. intsts' = intsts /\ UNCHANGED irq
    BY <1>3 DEF Write, WriteDbMask, WriteMsgMask, WriteIntMask, ClearLoad, OutmsgCheck,
       DbRing, SigLoad, SigAbort, regs
  <2>. QED BY <2>1, <2>2, WriteCause
<1>. QED BY <1>1, <1>2, <1>3, EventCause DEF Next

\* From the moment a cause is stored for a guest that never clears NTINTSTS,
\* the register is not empty again, whichever stores race.
THEOREM CausesStored == Spec => []CauseStored
<1>1. Init => CauseStored
  BY CauseInit
<1>2. TypeOK /\ CauseStored /\ [Next]_vars => CauseStored'
  BY CauseStep
<1>. QED BY <1>1, <1>2, TypeCorrect, PTL DEF Spec

\* So an interrupted guest finds a cause.
THEOREM InterruptsHaveCause == Spec => []InterruptHasCause
<1>1. CauseStored => InterruptHasCause
  BY DEF CauseStored, InterruptHasCause, Keeps, Interrupting
<1>. QED BY <1>1, CausesStored, PTL

-----------------------------------------------------------------------------
(* The processes, ids, eventfds and signals are the link of PeerLink.      *)

LEMMA LinkInit == Init => LinkInv
BY DEF Init, LinkInv, VM

\* A step that is none of the link's leaves ids, eventfds and signals alone; it
\* is one of a running process, and ends none.
Plain ==
  /\ UNCHANGED <<up, known, wired, eventfd>>
  /\ \A v \in VM : /\ pc'[v] = "dead" <=> pc[v] = "dead"
                   /\ ~up[v] => pc'[v] = pc[v]

LEMMA PlainHandler ==
  ASSUME TypeOK, LinkInv, NEW v \in VM, NEW m \in Steps \ {"dead"}, up[v], pc[v] # "dead",
         pc' = [pc EXCEPT ![v] = m], UNCHANGED <<up, known, wired, eventfd>>
  PROVE  Plain
BY DEF TypeOK, Plain

\* The steps the link is made of.
Linking(v) ==
  \/ Realize(v) \/ Connect(v) \/ InitVmIds(v) \/ VmIdEvent(v) \/ InterruptEvent(v)
  \/ Notify(v) \/ NotifyNobody(v) \/ SigAbort(v)

LEMMA OtherStepsPlain ==
  ASSUME TypeOK, LinkInv, [Next]_vars
  PROVE  (\E v \in VM : Linking(v)) \/ Plain
<1>. USE DEF Steps
<1>1. CASE UNCHANGED vars
  BY <1>1 DEF vars, link, irq, cpu, Plain
<1>2. ASSUME NEW v \in VM, Continue(v), ~Notify(v), ~NotifyNobody(v) PROVE Plain
  <2>1. \E l, m \in Steps \ {"dead"} : Step(v, l, m) /\ l # "idle"
    <3>1. CASE ClearDb(v) \/ ClearMsgsts(v) \/ ClearIntsts(v) \/ ClearSegsigsts(v)
      BY <3>1 DEF ClearDb, ClearMsgsts, ClearIntsts, ClearSegsigsts
    <3>2. CASE RefuseLoad(v) \/ RefuseStore(v) \/ RefuseMask(v) \/ SelfLoad(v) \/ SelfStore(v)
      BY <3>2 DEF RefuseLoad, RefuseStore, RefuseMask, SelfLoad, SelfStore
    <3>3. CASE PutMsg(v) \/ StsLoad(v) \/ StsStore(v) \/ MsgMask(v) \/ SigStore(v)
      BY <3>3 DEF PutMsg, StsLoad, StsStore, MsgMask, SigStore
    <3>4. CASE IntMask(v) \/ RaiseLoad(v) \/ RaiseStore(v)
      BY <3>4 DEF IntMask, RaiseLoad, RaiseStore
    <3>. QED BY <1>2, <3>1, <3>2, <3>3, <3>4 DEF Continue
  <2>2. UNCHANGED <<up, known, wired, eventfd>>
    BY <1>2 DEF Continue, ClearDb, ClearMsgsts, ClearIntsts, ClearSegsigsts, RefuseLoad,
       RefuseStore, RefuseMask, SelfLoad, SelfStore, PutMsg, StsLoad, StsStore, MsgMask,
       SigStore, IntMask, RaiseLoad, RaiseStore, link, irq
  <2>. QED BY <2>1, <2>2, PlainHandler DEF Step, LinkInv
<1>3. ASSUME NEW v \in VM, Write(v), ~SigAbort(v) PROVE Plain
  <2>1. \E c \in Commands[v] : \E m \in Steps \ {"dead"} : Trap(v, c, m)
    BY <1>3 DEF Write, WriteDbMask, WriteMsgMask, WriteIntMask, ClearLoad, OutmsgCheck,
       DbRing, SigLoad
  <2>2. UNCHANGED <<up, known, wired, eventfd>>
    BY <1>3 DEF Write, WriteDbMask, WriteMsgMask, WriteIntMask, ClearLoad, OutmsgCheck,
       DbRing, SigLoad, link, irq
  <2>. QED BY <2>1, <2>2, PlainHandler DEF Trap
<1>4. ASSUME NEW v \in VM, TakeInterrupt(v) PROVE Plain
  BY <1>4 DEF TakeInterrupt, link, cpu, Plain
<1>. QED BY <1>1, <1>2, <1>3, <1>4 DEF Next, Linking, Event, Start

LEMMA LinkStep == TypeOK /\ LinkInv /\ [Next]_vars => LinkInv'
<1>. SUFFICES ASSUME TypeOK, LinkInv, [Next]_vars PROVE LinkInv'
  OBVIOUS
<1>1. CASE Plain
  BY <1>1 DEF Plain, LinkInv
<1>2. ASSUME NEW v \in VM, Realize(v) PROVE LinkInv'
  BY <1>2 DEF Realize, LinkInv, TypeOK, irq, cpu, VM
<1>3. ASSUME NEW v \in VM, Connect(v) PROVE LinkInv'
  BY <1>3 DEF Connect, LinkInv, TypeOK, irq, cpu, VM, Peer
<1>4. ASSUME NEW v \in VM, InitVmIds(v) PROVE LinkInv'
  BY <1>4 DEF InitVmIds, LinkInv, TypeOK, cpu, VM, Peer
<1>5. ASSUME NEW v \in VM, VmIdEvent(v) PROVE LinkInv'
  BY <1>5 DEF VmIdEvent, LinkInv, TypeOK, cpu, VM
<1>6. ASSUME NEW v \in VM, InterruptEvent(v) PROVE LinkInv'
  BY <1>6 DEF InterruptEvent, LinkInv, TypeOK, link, cpu, VM
<1>7. ASSUME NEW v \in VM, Notify(v) PROVE LinkInv'
  BY <1>7 DEF Notify, Reaches, Step, LinkInv, TypeOK, link, VM, Peer, HostVector
<1>8. ASSUME NEW v \in VM, NotifyNobody(v) PROVE LinkInv'
  BY <1>8 DEF NotifyNobody, Step, LinkInv, TypeOK, link, irq, VM
<1>9. ASSUME NEW v \in VM, SigAbort(v) PROVE LinkInv'
  BY <1>9 DEF SigAbort, Trap, LinkInv, TypeOK, link, irq, VM
<1>. QED BY <1>1, <1>2, <1>3, <1>4, <1>5, <1>6, <1>7, <1>8, <1>9, OtherStepsPlain DEF Linking

\* The link as the registers' processes have it.
Ups    == {v \in VM : Alive(v)}
Knows  == {v \in VM : Meet /\ known[v]}
Wires  == {v \in VM : Meet /\ wired[v]}

\* A step of v that ends nobody leaves the others' lives alone.
LEMMA SameLives ==
  ASSUME UNCHANGED up, \A v \in VM : pc'[v] = "dead" <=> pc[v] = "dead"
  PROVE  Ups' = Ups /\ Meet' = Meet /\ \A v \in VM : Alive(v)' = Alive(v)
BY DEF Ups, Meet, Alive, VM

LEMMA PlainStutters == Plain => UNCHANGED <<Ups, Knows, Wires, Notified("VM_ID"), Notified("INTERRUPT_HOST")>>
BY SameLives DEF Plain, Knows, Wires, Notified, Alive, Meet, VM

LEMMA StartLinks ==
  ASSUME TypeOK, LinkInv, NEW v \in VM, Realize(v)
  PROVE  Link!Start(v)
<1>1. ~Alive(v) /\ Alive(v)' /\ ~Meet /\ eventfd[v] = {}
  BY DEF Realize, LinkInv, TypeOK, Alive, Meet, cpu, VM
<1>2. /\ \A w \in VM : w # v => Alive(w)' = Alive(w)
      /\ \A w \in VM : ~known[w] /\ ~wired[w]
      /\ UNCHANGED <<known, wired, eventfd>>
  BY DEF Realize, LinkInv, TypeOK, Alive, irq, cpu, VM
<1>3. v \notin Ups /\ Ups' = Ups \cup {v}
  BY <1>1, <1>2 DEF Ups
<1>4. Knows = {} /\ Knows' = {} /\ Wires = {} /\ Wires' = {}
  BY <1>2 DEF Knows, Wires
<1>5. \A k : Notified(k)' = Notified(k)
  BY <1>1, <1>2 DEF Notified
<1>. QED BY <1>3, <1>4, <1>5 DEF Link!Start, Ups, Knows, Wires

LEMMA ConnectLinks ==
  ASSUME TypeOK, LinkInv, NEW v \in VM, Connect(v)
  PROVE  Link!Wire(v) \/ UNCHANGED Link!vars
<1>1. /\ UNCHANGED <<up, known, eventfd, pc>> /\ wired'[v]
      /\ \A w \in VM : w # v => wired'[w] = wired[w]
  BY DEF Connect, TypeOK, irq, cpu
<1>2. Ups' = Ups /\ Meet' = Meet /\ Knows' = Knows /\ \A k : Notified(k)' = Notified(k)
  BY <1>1, SameLives DEF Knows, Notified
<1>3. CASE Meet
  <2>1. Wires' = Wires \cup {v}
    BY <1>1, <1>2, <1>3 DEF Wires
  <2>2. VM \subseteq Ups
    BY <1>3 DEF Meet, Ups, VM
  <2>. QED BY <1>2, <2>1, <2>2 DEF Link!Wire, Link!VM, VM, Ups, Knows, Wires
<1>4. CASE ~Meet
  <2>1. Wires' = Wires
    BY <1>2, <1>4 DEF Wires
  <2>. QED BY <1>2, <2>1 DEF Link!vars, Ups, Knows, Wires
<1>. QED BY <1>3, <1>4

LEMMA AnnounceLinks ==
  ASSUME TypeOK, LinkInv, NEW v \in VM, InitVmIds(v)
  PROVE  Link!Announce \/ UNCHANGED Link!vars
<1>1. /\ v = 1 /\ Peer(v) = 0 /\ wired[1] /\ up[0] /\ up[1] /\ pc[1] = "idle"
      /\ UNCHANGED <<up, wired, pc>> /\ known'[1] /\ known'[0] = known[0]
      /\ eventfd'[0] = eventfd[0] \cup {"VM_ID"} /\ eventfd'[1] = eventfd[1]
  BY DEF InitVmIds, LinkInv, TypeOK, cpu, VM, Peer
<1>2. Ups' = Ups /\ Meet' = Meet /\ Wires' = Wires /\ \A w \in VM : Alive(w)' = Alive(w)
  BY <1>1, SameLives DEF Wires
<1>3. Notified("INTERRUPT_HOST")' = Notified("INTERRUPT_HOST")
  BY <1>1, <1>2 DEF Notified, VM
<1>4. CASE Meet
  <2>1. 1 \in Wires /\ Knows' = Knows \cup {1}
    BY <1>1, <1>2, <1>4 DEF Wires, Knows, VM
  <2>2. Notified("VM_ID")' = Notified("VM_ID") \cup {0}
    BY <1>1, <1>2, <1>4 DEF Notified, Meet, VM
  <2>. QED BY <1>2, <1>3, <2>1, <2>2
       DEF Link!Announce, Link!Announcer, Link!Peer, Ups, Knows, Wires
<1>5. CASE ~Meet
  <2>1. Knows' = Knows
    BY <1>2, <1>5 DEF Knows
  <2>2. Notified("VM_ID")' = Notified("VM_ID")
    BY <1>1, <1>2, <1>5 DEF Notified, Meet, Alive, VM
  <2>. QED BY <1>2, <1>3, <2>1, <2>2 DEF Link!vars, Ups, Knows, Wires
<1>. QED BY <1>4, <1>5

LEMMA HearLinks ==
  ASSUME TypeOK, LinkInv, NEW v \in VM, VmIdEvent(v)
  PROVE  Link!Hear(v)
<1>0. "VM_ID" \in eventfd[v] /\ pc[v] = "idle" /\ v = 0 /\ known[1]
  BY DEF VmIdEvent, LinkInv
<1>1. /\ v = 0 /\ known[1] /\ up[0] /\ up[1] /\ pc[0] = "idle" /\ "VM_ID" \in eventfd[0]
      /\ UNCHANGED <<up, wired, pc>> /\ known'[0] /\ known'[1] = known[1]
      /\ eventfd'[0] = eventfd[0] \ {"VM_ID"} /\ eventfd'[1] = eventfd[1]
  <2>1. up[0] /\ up[1]
    BY <1>0 DEF LinkInv, VM
  <2>2. 0 \in VM /\ 1 \in VM
    BY DEF VM
  <2>3. known' = [known EXCEPT ![0] = TRUE] /\ known \in [VM -> BOOLEAN]
    BY <1>0 DEF VmIdEvent, TypeOK
  <2>4. known'[0] /\ known'[1] = known[1]
    BY <2>2, <2>3
  <2>5. eventfd' = [eventfd EXCEPT ![0] = @ \ {"VM_ID"}] /\ eventfd \in [VM -> SUBSET Vectors]
    BY <1>0 DEF VmIdEvent, TypeOK
  <2>6. eventfd'[0] = eventfd[0] \ {"VM_ID"} /\ eventfd'[1] = eventfd[1]
    BY <2>2, <2>5
  <2>7. UNCHANGED <<up, wired, pc>>
    BY DEF VmIdEvent, cpu
  <2>. QED BY <1>0, <2>1, <2>4, <2>6, <2>7
<1>2. Ups' = Ups /\ Meet' = Meet /\ Wires' = Wires /\ \A w \in VM : Alive(w)' = Alive(w)
  BY <1>1, SameLives DEF Wires
<1>3. Notified("INTERRUPT_HOST")' = Notified("INTERRUPT_HOST")
  BY <1>1, <1>2 DEF Notified, VM
<1>4. 0 \in Notified("VM_ID") /\ Notified("VM_ID")' = Notified("VM_ID") \ {0}
  BY <1>1, <1>2 DEF Notified, Alive, VM
<1>5. Knows' = IF 1 \in Knows THEN Knows \cup {0} ELSE Knows
  BY <1>1, <1>2 DEF Knows, VM
<1>. QED BY <1>1, <1>2, <1>3, <1>4, <1>5 DEF Link!Hear, Link!Peer, Ups, Knows, Wires

LEMMA TakeLinks ==
  ASSUME TypeOK, LinkInv, NEW v \in VM, InterruptEvent(v)
  PROVE  Link!Take(v)
<1>1. /\ Alive(v) /\ "INTERRUPT_HOST" \in eventfd[v] /\ UNCHANGED <<up, known, wired, pc>>
      /\ eventfd'[v] = eventfd[v] \ {"INTERRUPT_HOST"}
      /\ \A w \in VM : w # v => eventfd'[w] = eventfd[w]
  BY DEF InterruptEvent, LinkInv, TypeOK, link, cpu, Alive
<1>2. /\ Ups' = Ups /\ Knows' = Knows /\ Wires' = Wires
      /\ \A w \in VM : Alive(w)' = Alive(w)
  BY <1>1, SameLives DEF Wires, Knows
<1>3. Notified("VM_ID")' = Notified("VM_ID")
  BY <1>1, <1>2 DEF Notified
<1>4. /\ v \in Notified("INTERRUPT_HOST")
      /\ Notified("INTERRUPT_HOST")' = Notified("INTERRUPT_HOST") \ {v}
  BY <1>1, <1>2 DEF Notified
<1>. QED BY <1>2, <1>3, <1>4 DEF Link!Take, Ups, Knows, Wires

LEMMA RingLinks ==
  ASSUME TypeOK, LinkInv, NEW v \in VM, Notify(v)
  PROVE  Link!Ring(v) \/ UNCHANGED Link!vars
<1>1. /\ known[v] /\ wired[v] /\ Alive(v) /\ UNCHANGED <<up, known, wired>>
      /\ \A w \in VM : pc'[w] = "dead" <=> pc[w] = "dead"
      /\ eventfd'[Peer(v)] = eventfd[Peer(v)] \cup {"INTERRUPT_HOST"} /\ eventfd'[v] = eventfd[v]
  BY Peers DEF Notify, Reaches, Step, LinkInv, TypeOK, link, Alive, HostVector
<1>2. /\ Ups' = Ups /\ Meet' = Meet /\ Knows' = Knows /\ Wires' = Wires
      /\ \A w \in VM : Alive(w)' = Alive(w)
  BY <1>1, SameLives DEF Wires, Knows
<1>3. Notified("VM_ID")' = Notified("VM_ID")
  BY <1>1, <1>2, Peers DEF Notified
<1>4. CASE Meet
  <2>1. v \in Knows \cap Wires
    BY <1>1, <1>4 DEF Knows, Wires
  <2>2. Alive(Peer(v))
    BY <1>4, Peers DEF Meet, VM
  <2>3. Notified("INTERRUPT_HOST")' = Notified("INTERRUPT_HOST") \cup {Peer(v)}
    BY <1>1, <1>2, <2>2, Peers DEF Notified
  <2>. QED BY <1>2, <1>3, <2>1, <2>3 DEF Link!Ring, Link!Peer, Peer, Ups, Knows, Wires
<1>5. CASE ~Meet
  <2>1. ~Alive(Peer(v))
    BY <1>1, <1>5 DEF Meet, VM, Peer
  <2>2. Notified("INTERRUPT_HOST")' = Notified("INTERRUPT_HOST")
    BY <1>1, <1>2, <2>1, Peers DEF Notified
  <2>. QED BY <1>2, <1>3, <2>2 DEF Link!vars, Ups, Knows, Wires
<1>. QED BY <1>4, <1>5

LEMMA EndLinks ==
  ASSUME TypeOK, LinkInv, NEW v \in VM, NotifyNobody(v) \/ SigAbort(v)
  PROVE  Link!End(v) \/ UNCHANGED Link!vars
<1>1. /\ Alive(v) /\ UNCHANGED <<up, known, wired, eventfd>>
      /\ \A w \in VM : w # v => pc'[w] = pc[w]
      /\ pc[v] # "dead" /\ pc'[v] \in {"idle", "dead"}
  BY DEF NotifyNobody, SigAbort, Step, Trap, LinkInv, TypeOK, link, irq, Alive
<1>2. CASE pc'[v] = "dead"
  <2>1. ~Alive(v)' /\ ~Meet' /\ \A w \in VM : w # v => Alive(w)' = Alive(w)
    BY <1>1, <1>2 DEF Alive, Meet, VM
  <2>2. v \in Ups /\ Ups' = Ups \ {v}
    BY <1>1, <2>1 DEF Ups
  <2>3. Knows' = {} /\ Wires' = {}
    BY <2>1 DEF Knows, Wires
  <2>4. \A k : Notified(k)' = Notified(k) \ {v}
    BY <1>1, <2>1 DEF Notified
  <2>. QED BY <2>2, <2>3, <2>4 DEF Link!End, Ups, Knows, Wires
<1>3. CASE pc'[v] = "idle"
  <2>1. Plain
    BY <1>1, <1>3 DEF Plain, Alive
  <2>. QED BY <2>1, PlainStutters DEF Link!vars, Ups, Knows, Wires
<1>. QED BY <1>1, <1>2, <1>3

\* Nothing a process learns, holds or is signalled by goes beyond the link of
\* PeerLink: a start or an end takes no more away, a notification goes only to a
\* known peer whose eventfds are held, and an interrupt is taken once.
THEOREM RegistersKeepLink == Spec => PeerLinkSpec
<1>1. Init => LinkInv
  BY LinkInit
<1>2. TypeOK /\ LinkInv /\ [Next]_vars => LinkInv'
  BY LinkStep
<1>3. Init => Link!Init
  BY DEF Init, Link!Init, Alive, Meet, Notified, VM
<1>4. TypeOK /\ LinkInv /\ [Next]_vars => [Link!Next]_(Link!vars)
  <2>. SUFFICES ASSUME TypeOK, LinkInv, [Next]_vars
                PROVE  Link!Next \/ UNCHANGED Link!vars
    OBVIOUS
  <2>1. CASE Plain
    BY <2>1, PlainStutters DEF Link!vars, Ups, Knows, Wires
  <2>2. ASSUME NEW v \in VM, Linking(v) PROVE Link!Next \/ UNCHANGED Link!vars
    <3>1. v \in Link!VM
      BY DEF VM, Link!VM
    <3>. QED BY <2>2, <3>1, StartLinks, ConnectLinks, AnnounceLinks, HearLinks, TakeLinks,
                RingLinks, EndLinks DEF Linking, Link!Next
  <2>. QED BY <2>1, <2>2, OtherStepsPlain
<1>. QED BY <1>1, <1>2, <1>3, <1>4, TypeCorrect, PTL DEF Spec, PeerLinkSpec, Link!Spec

=============================================================================
