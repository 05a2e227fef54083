-------------------------- MODULE KernelEntryProofs --------------------------
(***************************************************************************)
(* What holds of the way into the kernel and out of it again, for every    *)
(* number of contexts and of entries, and of what is copied of the boot    *)
(* loader's information, whatever it is.                                   *)
(***************************************************************************)
EXTENDS KernelEntry, FiniteSetTheorems, WellFoundedInduction, SequenceTheorems, TLAPS

(* A sequence, of words and of frames of many kinds.                       *)
IsSeq(s) == Len(s) \in Nat /\ s = [k \in 1 .. Len(s) |-> s[k]]

(* Registers that are in the frame as they were.                           *)
Plain == RegisterNames \ {"cr2", "esp", "ss"}

KernelContexts == {Boot} \cup KernelThreads

(* The words of a frame of the kernel: two of the layout are not pushed.   *)
KernelWords == 18

(* A TrapFrame on the stack s holds the registers of the kernel that were  *)
(* interrupted when the stack ended right below it.                        *)
KernelFrame(s, e) ==
  /\ e.at \in KernelWords .. Len(s)
  /\ \A k \in 1 .. KernelWords :
       Layout[k] \in Plain => s[e.at - k + 1] = e.regs[Layout[k]]
  /\ e.regs = [r \in RegisterNames |-> e.regs[r]]
  /\ e.regs.cs = KernelCode /\ e.regs.ss = KernelData /\ e.regs.esp = Number(e.at - KernelWords)

(* Frames do not overlap, and of whoever is not running, the last one is   *)
(* where the stack ends.                                                   *)
KernelStackInv(c) ==
  /\ IsSeq(stack[c]) /\ IsSeq(suspended[c])
  /\ \A i \in 1 .. Len(suspended[c]) : KernelFrame(stack[c], suspended[c][i])
  /\ \A i, j \in 1 .. Len(suspended[c]) :
       i < j => suspended[c][i].at <= suspended[c][j].at - KernelWords
  /\ IF c = running
       THEN calling = "none" <=> suspended[c] = << >>
       ELSE suspended[c] # << >> /\ Len(stack[c]) = Last(suspended[c]).at

(* There is no way back into the kernel from user mode, so that a user has *)
(* the frame that somebody made up until it is left.                       *)
UserStackInv(u) ==
  IF u = running
    THEN suspended[u] = << >> /\ calling = "none"
    ELSE /\ suspended[u] = << [at |-> Len(Layout), regs |-> NewThread(u)] >>
         /\ stack[u] = NewFrame(NewThread(u))

StackInv ==
  /\ running \in Contexts
  /\ stack = [c \in Contexts |-> stack[c]] /\ suspended = [c \in Contexts |-> suspended[c]]
  /\ \A c \in KernelContexts : KernelStackInv(c)
  /\ \A u \in UserThreads : UserStackInv(u)

Stages == {"StartPrecursor", "translate", "kmain", "exceptions", "interrupts", "idle"}

HasTables == boot # "StartPrecursor"

RegsInv ==
  /\ regs = [r \in RegisterNames |-> regs[r]]
  /\ ~ HasTables => regs.cs.rpl = 0
  /\ HasTables /\ running \in KernelContexts =>
       regs.cs = KernelCode /\ regs.ss = KernelData /\ regs.esp = Number(Len(stack[running]))
  /\ running \in UserThreads => regs.cs = UserCode

(* Before the idle loop, only exceptions come, and they do not return.     *)
BootInv ==
  /\ boot \in Stages
  /\ boot # "idle" =>
       running = Boot /\ calling # "interrupt" /\ ~ regs.eflags.interruptFlag
  /\ ~ HasTables => suspended[Boot] = << >> /\ stack[Boot] = << >>

TablesInv ==
  /\ idtIsLoaded = HasTables
  /\ HasTables =>
       /\ gdt = InitGdt /\ idt = InitIdt
       /\ tss = [esp0 |-> tss.esp0, ss0 |-> KernelCode]
  /\ boot \in {"translate", "kmain"} => \A v \in Vectors : dispatchTable[v] = "default"
  /\ boot \in {"exceptions", "interrupts", "idle"} =>
       \A v \in Vectors \ (32 .. 47) :
         dispatchTable[v] = IF v \in Deliverable THEN "deliverable" ELSE "unrecoverable"
  /\ boot \in {"interrupts", "idle"} => \A v \in 32 .. 47 : dispatchTable[v] = "interrupt"

(* What the handler of an exception finds in the frame is what the         *)
(* processor had as the cause.                                             *)
ToldTruth ==
  LET s == stack[running]
      e == Last(suspended[running])
  IN
  /\ Field(s, e.at, "interruptVectorNumber") = Number(cause.vector)
  /\ Field(s, e.at, "errorCode") = cause.error
  /\ Field(s, e.at, "cr2") = IF cause.vector = 14 THEN e.regs.cr2 ELSE Number(0)
  /\ Field(s, e.at, "esp") = Number(e.regs.esp.number + 5)
  /\ cause.assertion = IF calling = "deliverable" /\ cause.vector = 3
                         THEN AssertionInfo(s, e.at) ELSE << >>

CauseInv ==
  /\ calling \in {"none", "default", "deliverable", "unrecoverable", "interrupt"}
  /\ calling = "default" => cause # << >> /\ boot \in {"translate", "kmain"}
  /\ calling \in {"deliverable", "unrecoverable"} => ToldTruth
  /\ machine = "running" => report = << >>

ProcessorInv ==
  /\ StackInv /\ RegsInv /\ BootInv /\ TablesInv /\ CauseInv
  /\ ResetsOnlyUnprepared /\ ReportTellsTruth
-----------------------------------------------------------------------------
(* Sequences                                                               *)

(* What is a sequence is one of its elements, and of any superset.         *)
LEMMA SeqOfElements ==
  ASSUME NEW s, IsSeq(s), NEW S, \A k \in 1 .. Len(s) : s[k] \in S
  PROVE  s \in Seq(S)
<1>1. s \in [1 .. Len(s) -> S]
  BY DEF IsSeq
<1> QED BY <1>1 DEF IsSeq

LEMMA SeqIsSeq ==
  ASSUME NEW S, NEW s \in Seq(S)
  PROVE  IsSeq(s)
BY LenProperties DEF IsSeq

LEMMA Joined ==
  ASSUME NEW s, NEW t, IsSeq(s), IsSeq(t)
  PROVE  /\ IsSeq(s \o t) /\ Len(s \o t) = Len(s) + Len(t)
         /\ \A k \in 1 .. Len(s) : (s \o t)[k] = s[k]
         /\ \A k \in 1 .. Len(t) : (s \o t)[Len(s) + k] = t[k]
<1> DEFINE S == {s[k] : k \in 1 .. Len(s)} \cup {t[k] : k \in 1 .. Len(t)}
<1>1. s \in Seq(S) /\ t \in Seq(S)
  BY SeqOfElements
<1>2. Len(s) \in Nat /\ Len(t) \in Nat
  BY DEF IsSeq
<1> HIDE DEF S
<1>3. /\ s \o t \in Seq(S) /\ Len(s \o t) = Len(s) + Len(t)
      /\ \A i \in 1 .. Len(s) + Len(t) :
           (s \o t)[i] = IF i <= Len(s) THEN s[i] ELSE t[i - Len(s)]
  BY <1>1, ConcatProperties
<1>4. IsSeq(s \o t)
  BY <1>3, SeqIsSeq
<1>5. ASSUME NEW k \in 1 .. Len(s) PROVE (s \o t)[k] = s[k]
  BY <1>2, <1>3
<1>6. ASSUME NEW k \in 1 .. Len(t) PROVE (s \o t)[Len(s) + k] = t[k]
  <2>1. Len(s) + k \in 1 .. Len(s) + Len(t) /\ ~ (Len(s) + k <= Len(s))
        /\ Len(s) + k - Len(s) = k
    BY <1>2
  <2> QED BY <1>3, <2>1
<1> QED BY <1>3, <1>4, <1>5, <1>6

(* The beginning of a sequence.                                            *)
LEMMA Shortened ==
  ASSUME NEW s, IsSeq(s), NEW n \in 0 .. Len(s)
  PROVE  /\ IsSeq(SubSeq(s, 1, n)) /\ Len(SubSeq(s, 1, n)) = n
         /\ \A k \in 1 .. n : SubSeq(s, 1, n)[k] = s[k]
<1> DEFINE S == {s[k] : k \in 1 .. Len(s)}
<1>1. n \in Int /\ 1 \in Int /\ \A i \in 1 .. n : s[i] \in S
  BY DEF IsSeq
<1> HIDE DEF S
<1>2. /\ SubSeq(s, 1, n) \in Seq(S)
      /\ Len(SubSeq(s, 1, n)) = IF 1 <= n THEN n - 1 + 1 ELSE 0
      /\ \A i \in 1 .. n - 1 + 1 : SubSeq(s, 1, n)[i] = s[1 + i - 1]
  BY <1>1, SubSeqProperties
<1>3. n - 1 + 1 = n /\ \A i \in 1 .. n : 1 + i - 1 = i
  BY DEF IsSeq
<1>4. \A k \in 1 .. n : SubSeq(s, 1, n)[k] = s[k]
  BY <1>2, <1>3
<1>5. Len(SubSeq(s, 1, n)) = n
  BY <1>2 DEF IsSeq
<1> QED BY <1>2, <1>4, <1>5, SeqIsSeq

LEMMA Appended ==
  ASSUME NEW s, IsSeq(s), NEW e
  PROVE  /\ IsSeq(Append(s, e)) /\ Len(Append(s, e)) = Len(s) + 1
         /\ \A k \in 1 .. Len(s) : Append(s, e)[k] = s[k]
         /\ Append(s, e)[Len(s) + 1] = e
<1> DEFINE S == {s[k] : k \in 1 .. Len(s)} \cup {e}
<1>1. s \in Seq(S) /\ e \in S
  BY SeqOfElements
<1> HIDE DEF S
<1>2. Append(s, e) \in Seq(S)
  BY <1>1, AppendProperties
<1>3. /\ Len(Append(s, e)) = Len(s) + 1
      /\ \A k \in 1 .. Len(s) : Append(s, e)[k] = s[k]
      /\ Append(s, e)[Len(s) + 1] = e
  BY ONLY <1>1, AppendProperties
<1> QED BY <1>2, <1>3, SeqIsSeq
-----------------------------------------------------------------------------
(* The TrapFrame                                                           *)

LEMMA LayoutFacts ==
  /\ Len(Layout) = 20
  /\ Layout[1] = "gs" /\ Layout[2] = "fs" /\ Layout[3] = "es" /\ Layout[4] = "ds"
  /\ Layout[5] = "cr2" /\ Layout[6] = "edi" /\ Layout[7] = "esi" /\ Layout[8] = "ebp"
  /\ Layout[9] = "esp" /\ Layout[10] = "ebx" /\ Layout[11] = "edx" /\ Layout[12] = "ecx"
  /\ Layout[13] = "eax" /\ Layout[14] = "interruptVectorNumber" /\ Layout[15] = "errorCode"
  /\ Layout[16] = "eip" /\ Layout[17] = "cs" /\ Layout[18] = "eflags"
  /\ Layout[19] = "esp3" /\ Layout[20] = "ss3"
BY DEF Layout

(* The words that are pushed between an interrupt and EnterKernel, of the  *)
(* kernel, by the places of the layout.                                    *)
FrameWord(r, v, errorCode, stackLength, name) ==
  CASE name = "cr2" -> IF v = 14 THEN r.cr2 ELSE Number(0)
    [] name = "esp" -> Number(stackLength + 5)
    [] name = "interruptVectorNumber" -> Number(v)
    [] name = "errorCode" -> IF v \in HasErrorCode THEN errorCode ELSE Number(0)
    [] OTHER -> r[name]

LEMMA FrameWords ==
  ASSUME NEW r, NEW v, NEW errorCode, NEW n
  PROVE  LET W(name) == FrameWord(r, v, errorCode, n, name) IN
         /\ W("gs") = r["gs"] /\ W("fs") = r["fs"] /\ W("es") = r["es"]
         /\ W("ds") = r["ds"] /\ W("edi") = r["edi"] /\ W("esi") = r["esi"]
         /\ W("ebp") = r["ebp"] /\ W("ebx") = r["ebx"] /\ W("edx") = r["edx"]
         /\ W("ecx") = r["ecx"] /\ W("eax") = r["eax"] /\ W("eip") = r["eip"]
         /\ W("cs") = r["cs"] /\ W("eflags") = r["eflags"]
         /\ W("cr2") = (IF v = 14 THEN r.cr2 ELSE Number(0)) /\ W("esp") = Number(n + 5)
         /\ W("interruptVectorNumber") = Number(v)
         /\ W("errorCode") = (IF v \in HasErrorCode THEN errorCode ELSE Number(0))
BY DEF FrameWord

(* The words in the order in which they are pushed.                        *)
Pushed(p, n, r, v, errorCode) ==
  /\ p[n + 1] = r.eflags /\ p[n + 2] = r.cs /\ p[n + 3] = r.eip
  /\ p[n + 4] = (IF v \in HasErrorCode THEN errorCode ELSE Number(0))
  /\ p[n + 5] = Number(v)
  /\ p[n + 6] = r.eax /\ p[n + 7] = r.ecx
  /\ p[n + 8] = r.edx /\ p[n + 9] = r.ebx
  /\ p[n + 10] = Number(n + 5) /\ p[n + 11] = r.ebp
  /\ p[n + 12] = r.esi /\ p[n + 13] = r.edi
  /\ p[n + 14] = (IF v = 14 THEN r.cr2 ELSE Number(0))
  /\ p[n + 15] = r.ds /\ p[n + 16] = r.es
  /\ p[n + 17] = r.fs /\ p[n + 18] = r.gs

(* They are those of the layout, from its end.                             *)
LEMMA WordsByLayout ==
  ASSUME NEW r, NEW v, NEW errorCode, NEW n \in Nat, NEW p,
         Pushed(p, n, r, v, errorCode),
         NEW k \in 1 .. KernelWords
  PROVE  p[n + (19 - k)] = FrameWord(r, v, errorCode, n, Layout[k])
<1> DEFINE w == [j \in 1 .. 18 |-> FrameWord(r, v, errorCode, n, Layout[j])]
<1>1. k \in {1, 2, 3, 4, 5, 6, 7, 8, 9, 10, 11, 12, 13, 14, 15, 16, 17, 18}
  BY DEF KernelWords
<1>2. /\ w[1] = r.gs /\ w[2] = r.fs /\ w[3] = r.es /\ w[4] = r.ds
      /\ w[6] = r.edi /\ w[7] = r.esi /\ w[8] = r.ebp
      /\ w[10] = r.ebx /\ w[11] = r.edx /\ w[12] = r.ecx /\ w[13] = r.eax
      /\ w[16] = r.eip /\ w[17] = r.cs /\ w[18] = r.eflags
  BY LayoutFacts, FrameWords
<1>3. /\ w[5] = (IF v = 14 THEN r.cr2 ELSE Number(0)) /\ w[9] = Number(n + 5)
      /\ w[14] = Number(v) /\ w[15] = (IF v \in HasErrorCode THEN errorCode ELSE Number(0))
  BY LayoutFacts, FrameWords
<1>4. w[k] = FrameWord(r, v, errorCode, n, Layout[k])
  BY DEF KernelWords
<1> HIDE DEF w
<1> USE DEF Pushed
<1> SUFFICES p[n + (19 - k)] = w[k]
  BY <1>4
<1>5. CASE k \in {1, 2, 3, 4}
  BY <1>2, <1>5
<1>6. CASE k \in {6, 7, 8}
  BY <1>2, <1>6
<1>7. CASE k \in {10, 11, 12, 13}
  BY <1>2, <1>7
<1>8. CASE k \in {16, 17, 18}
  BY <1>2, <1>8
<1>9. CASE k \in {5, 9, 14, 15}
  BY <1>3, <1>9
<1> QED BY <1>1, <1>5, <1>6, <1>7, <1>8, <1>9

LEMMA FourWords ==
  ASSUME NEW a, NEW b, NEW c, NEW d
  PROVE  /\ IsSeq(<<a, b, c, d>>) /\ Len(<<a, b, c, d>>) = 4
         /\ <<a, b, c, d>>[1] = a /\ <<a, b, c, d>>[2] = b
         /\ <<a, b, c, d>>[3] = c /\ <<a, b, c, d>>[4] = d
BY DEF IsSeq

LEMMA ThreeWords ==
  ASSUME NEW a, NEW b, NEW c
  PROVE  /\ IsSeq(<<a, b, c>>) /\ Len(<<a, b, c>>) = 3
         /\ <<a, b, c>>[1] = a /\ <<a, b, c>>[2] = b /\ <<a, b, c>>[3] = c
BY DEF IsSeq

LEMMA TwoWords ==
  ASSUME NEW a, NEW b
  PROVE  IsSeq(<<a, b>>) /\ Len(<<a, b>>) = 2 /\ <<a, b>>[1] = a /\ <<a, b>>[2] = b
BY DEF IsSeq

LEMMA OneWord ==
  ASSUME NEW a
  PROVE  IsSeq(<<a>>) /\ Len(<<a>>) = 1 /\ <<a>>[1] = a
BY DEF IsSeq

LEMMA NoWords == IsSeq(<< >>) /\ Len(<< >>) = 0
BY DEF IsSeq

(* What the stub adds to what the processor pushed: two words in all.      *)
LEMMA ErrorAndVector ==
  ASSUME NEW s, IsSeq(s), NEW v, NEW errorCode
  PROVE  LET q == (s \o (IF v \in HasErrorCode THEN <<errorCode>> ELSE << >>)) \o PushVector(v) IN
         /\ IsSeq(q) /\ Len(q) = Len(s) + 2 /\ \A k \in 1 .. Len(s) : q[k] = s[k]
         /\ q[Len(s) + 1] = IF v \in HasErrorCode THEN errorCode ELSE Number(0)
         /\ q[Len(s) + 2] = Number(v)
<1> DEFINE q == (s \o (IF v \in HasErrorCode THEN <<errorCode>> ELSE << >>)) \o PushVector(v)
<1> SUFFICES /\ IsSeq(q) /\ Len(q) = Len(s) + 2 /\ \A k \in 1 .. Len(s) : q[k] = s[k]
             /\ q[Len(s) + 1] = IF v \in HasErrorCode THEN errorCode ELSE Number(0)
             /\ q[Len(s) + 2] = Number(v)
  OBVIOUS
<1>1. Len(s) \in Nat
  BY DEF IsSeq
<1>2. CASE v \in HasErrorCode
  <2> DEFINE p == s \o <<errorCode>>
  <2>1. /\ IsSeq(p) /\ Len(p) = Len(s) + 1 /\ p[Len(s) + 1] = errorCode
        /\ \A k \in 1 .. Len(s) : p[k] = s[k]
    BY Joined, OneWord
  <2>2. q = p \o <<Number(v)>>
    BY <1>2 DEF PushVector, HasErrorCode, ErrorIntHandlers
  <2> HIDE DEF p
  <2> DEFINE w == <<Number(v)>>
  <2>a. IsSeq(w) /\ Len(w) = 1 /\ w[1] = Number(v)
    BY OneWord
  <2>b. q = p \o w
    BY <2>2
  <2> HIDE DEF w
  <2>3. /\ IsSeq(p \o w) /\ Len(p \o w) = Len(p) + Len(w)
        /\ \A k \in 1 .. Len(p) : (p \o w)[k] = p[k]
        /\ \A k \in 1 .. Len(w) : (p \o w)[Len(p) + k] = w[k]
    <3>1. IsSeq(p) /\ IsSeq(w)
      BY <2>1, <2>a
    <3> QED BY ONLY <3>1, Joined
  <2>4. /\ IsSeq(q) /\ Len(q) = Len(p) + Len(w) /\ \A k \in 1 .. Len(p) : q[k] = p[k]
        /\ \A k \in 1 .. Len(w) : q[Len(p) + k] = w[k]
    BY ONLY <2>3, <2>b, Zenon
  <2> HIDE DEF q
  <2> QED BY <1>1, <1>2, <2>1, <2>a, <2>4
<1>3. CASE v \notin HasErrorCode
  <2>1. q = (s \o << >>) \o <<Number(0), Number(v)>>
    BY <1>3 DEF PushVector, HasErrorCode, ErrorIntHandlers
  <2>2. /\ IsSeq(s \o << >>) /\ Len(s \o << >>) = Len(s)
        /\ \A k \in 1 .. Len(s) : (s \o << >>)[k] = s[k]
    BY <1>1, Joined, NoWords
  <2> DEFINE p == s \o << >>
  <2> HIDE DEF p
  <2> DEFINE w == <<Number(0), Number(v)>>
  <2>a. IsSeq(w) /\ Len(w) = 2 /\ w[1] = Number(0) /\ w[2] = Number(v)
    BY TwoWords
  <2>b. q = p \o w
    BY <2>1 DEF p
  <2> HIDE DEF w
  <2>c. IsSeq(p) /\ Len(p) = Len(s) /\ \A k \in 1 .. Len(s) : p[k] = s[k]
    BY <2>2 DEF p
  <2>3. /\ IsSeq(p \o w) /\ Len(p \o w) = Len(p) + Len(w)
        /\ \A k \in 1 .. Len(p) : (p \o w)[k] = p[k]
        /\ \A k \in 1 .. Len(w) : (p \o w)[Len(p) + k] = w[k]
    <3>1. IsSeq(p) /\ IsSeq(w)
      BY <2>a, <2>c
    <3> QED BY ONLY <3>1, Joined
  <2>4. /\ IsSeq(q) /\ Len(q) = Len(p) + Len(w) /\ \A k \in 1 .. Len(p) : q[k] = p[k]
        /\ \A k \in 1 .. Len(w) : q[Len(p) + k] = w[k]
    BY ONLY <2>3, <2>b, Zenon
  <2> HIDE DEF q
  <2> QED BY <1>1, <1>3, <2>a, <2>c, <2>4
<1> QED BY <1>2, <1>3

LEMMA EightWords ==
  ASSUME NEW r, NEW n
  PROVE  LET p == Pushad(r, n) IN
         /\ IsSeq(p) /\ Len(p) = 8
         /\ p[1] = r.eax /\ p[2] = r.ecx /\ p[3] = r.edx /\ p[4] = r.ebx
         /\ p[5] = Number(n) /\ p[6] = r.ebp /\ p[7] = r.esi /\ p[8] = r.edi
BY DEF Pushad, IsSeq

(* The words on a kernel stack, in the order of the layout, and below them *)
(* what was there before.                                                  *)
LEMMA FrameOfKernel ==
  ASSUME NEW s, IsSeq(s), NEW r, r.cs = KernelCode, NEW v, NEW errorCode
  PROVE  LET saved == EnterKernel(Interrupted(s, r, v, errorCode), r, v) IN
         /\ IsSeq(saved) /\ Len(saved) = Len(s) + KernelWords
         /\ \A k \in 1 .. Len(s) : saved[k] = s[k]
         /\ \A k \in 1 .. KernelWords :
              saved[Len(saved) - k + 1] = FrameWord(r, v, errorCode, Len(s), Layout[k])
<1> DEFINE w1 == <<r.eflags, r.cs, r.eip>>
           p1 == s \o w1
           q  == (p1 \o (IF v \in HasErrorCode THEN <<errorCode>> ELSE << >>)) \o PushVector(v)
           w2 == Pushad(r, Len(q))
           p2 == q \o w2
           w3 == <<IF v = 14 THEN r.cr2 ELSE Number(0)>>
           p3 == p2 \o w3
           w4 == <<r.ds, r.es, r.fs, r.gs>>
           p4 == p3 \o w4
<1>1. EnterKernel(Interrupted(s, r, v, errorCode), r, v) = p4
  <2>1. r.cs.rpl # 3
    BY DEF KernelCode, SegmentSelector
  <2>2. s \o << >> = s
    <3> DEFINE S == {s[k] : k \in 1 .. Len(s)}
    <3>1. s \in Seq(S)
      BY SeqOfElements
    <3> HIDE DEF S
    <3> QED BY <3>1, ConcatEmptySeq
  <2>3. Interrupted(s, r, v, errorCode)
          = p1 \o (IF v \in HasErrorCode THEN <<errorCode>> ELSE << >>)
    BY <2>1, <2>2 DEF Interrupted
  <2> QED BY <2>3 DEF EnterKernel
<1>2. Len(s) \in Nat
  BY DEF IsSeq
<1>3. /\ IsSeq(p1) /\ Len(p1) = Len(s) + 3 /\ \A k \in 1 .. Len(s) : p1[k] = s[k]
      /\ p1[Len(s) + 1] = r.eflags /\ p1[Len(s) + 2] = r.cs /\ p1[Len(s) + 3] = r.eip
  <2>1. IsSeq(w1) /\ Len(w1) = 3 /\ w1[1] = r.eflags /\ w1[2] = r.cs /\ w1[3] = r.eip
    BY ThreeWords
  <2> HIDE DEF w1
  <2>2. /\ IsSeq(p1) /\ Len(p1) = Len(s) + Len(w1) /\ \A k \in 1 .. Len(s) : p1[k] = s[k]
        /\ \A k \in 1 .. Len(w1) : p1[Len(s) + k] = w1[k]
    <3>1. IsSeq(s) /\ IsSeq(w1)
      BY <2>1, <1>2
    <3> QED BY ONLY <3>1, Joined
  <2> QED BY <2>1, <2>2
<1> HIDE DEF p1
<1>4. /\ IsSeq(q) /\ Len(q) = Len(p1) + 2 /\ \A k \in 1 .. Len(p1) : q[k] = p1[k]
      /\ q[Len(p1) + 1] = IF v \in HasErrorCode THEN errorCode ELSE Number(0)
      /\ q[Len(p1) + 2] = Number(v)
  <2>1. IsSeq(p1)
    BY <1>3
  <2> QED BY ONLY <2>1, ErrorAndVector
<1> HIDE DEF q
<1>5. /\ IsSeq(p2) /\ Len(p2) = Len(q) + 8 /\ \A k \in 1 .. Len(q) : p2[k] = q[k]
      /\ p2[Len(q) + 1] = r.eax /\ p2[Len(q) + 2] = r.ecx
      /\ p2[Len(q) + 3] = r.edx /\ p2[Len(q) + 4] = r.ebx
      /\ p2[Len(q) + 5] = Number(Len(q)) /\ p2[Len(q) + 6] = r.ebp
      /\ p2[Len(q) + 7] = r.esi /\ p2[Len(q) + 8] = r.edi
  <2>1. /\ IsSeq(w2) /\ Len(w2) = 8
        /\ w2[1] = r.eax /\ w2[2] = r.ecx /\ w2[3] = r.edx /\ w2[4] = r.ebx
        /\ w2[5] = Number(Len(q)) /\ w2[6] = r.ebp /\ w2[7] = r.esi /\ w2[8] = r.edi
    BY EightWords
  <2> HIDE DEF w2
  <2>2. /\ IsSeq(p2) /\ Len(p2) = Len(q) + Len(w2) /\ \A k \in 1 .. Len(q) : p2[k] = q[k]
        /\ \A k \in 1 .. Len(w2) : p2[Len(q) + k] = w2[k]
    <3>1. IsSeq(q) /\ IsSeq(w2)
      BY <2>1, <1>4
    <3> QED BY ONLY <3>1, Joined
  <2>3. \A k \in 1 .. 8 : p2[Len(q) + k] = w2[k]
    BY ONLY <2>1, <2>2
  <2>4. /\ p2[Len(q) + 1] = w2[1] /\ p2[Len(q) + 2] = w2[2] /\ p2[Len(q) + 3] = w2[3]
        /\ p2[Len(q) + 4] = w2[4] /\ p2[Len(q) + 5] = w2[5] /\ p2[Len(q) + 6] = w2[6]
        /\ p2[Len(q) + 7] = w2[7] /\ p2[Len(q) + 8] = w2[8]
    <3>1. /\ 1 \in 1 .. 8 /\ 2 \in 1 .. 8 /\ 3 \in 1 .. 8 /\ 4 \in 1 .. 8
          /\ 5 \in 1 .. 8 /\ 6 \in 1 .. 8 /\ 7 \in 1 .. 8 /\ 8 \in 1 .. 8
      OBVIOUS
    <3> QED BY ONLY <2>3, <3>1, Zenon
  <2> QED BY ONLY <2>1, <2>2, <2>4
<1> HIDE DEF p2
<1>6. /\ IsSeq(p3) /\ Len(p3) = Len(p2) + 1 /\ \A k \in 1 .. Len(p2) : p3[k] = p2[k]
      /\ p3[Len(p2) + 1] = IF v = 14 THEN r.cr2 ELSE Number(0)
  <2>1. IsSeq(w3) /\ Len(w3) = 1 /\ w3[1] = IF v = 14 THEN r.cr2 ELSE Number(0)
    BY OneWord
  <2> HIDE DEF w3
  <2>2. /\ IsSeq(p3) /\ Len(p3) = Len(p2) + Len(w3) /\ \A k \in 1 .. Len(p2) : p3[k] = p2[k]
        /\ \A k \in 1 .. Len(w3) : p3[Len(p2) + k] = w3[k]
    <3>1. IsSeq(p2) /\ IsSeq(w3)
      BY <2>1, <1>5
    <3> QED BY ONLY <3>1, Joined
  <2> QED BY <2>1, <2>2
<1> HIDE DEF p3
<1>7. /\ IsSeq(p4) /\ Len(p4) = Len(p3) + 4 /\ \A k \in 1 .. Len(p3) : p4[k] = p3[k]
      /\ p4[Len(p3) + 1] = r.ds /\ p4[Len(p3) + 2] = r.es
      /\ p4[Len(p3) + 3] = r.fs /\ p4[Len(p3) + 4] = r.gs
  <2>1. /\ IsSeq(w4) /\ Len(w4) = 4
        /\ w4[1] = r.ds /\ w4[2] = r.es /\ w4[3] = r.fs /\ w4[4] = r.gs
    BY FourWords
  <2> HIDE DEF w4
  <2>2. /\ IsSeq(p4) /\ Len(p4) = Len(p3) + Len(w4) /\ \A k \in 1 .. Len(p3) : p4[k] = p3[k]
        /\ \A k \in 1 .. Len(w4) : p4[Len(p3) + k] = w4[k]
    <3>1. IsSeq(p3) /\ IsSeq(w4)
      BY <2>1, <1>6
    <3> QED BY ONLY <3>1, Joined
  <2> QED BY <2>1, <2>2
<1> HIDE DEF p4
<1>8. /\ Len(p1) = Len(s) + 3 /\ Len(q) = Len(s) + 5 /\ Len(p2) = Len(s) + 13
      /\ Len(p3) = Len(s) + 14 /\ Len(p4) = Len(s) + 18
  BY <1>2, <1>3, <1>4, <1>5, <1>6, <1>7
<1>9. \A k \in 1 .. Len(s) : p4[k] = s[k]
  BY SMTT(40), <1>2, <1>3, <1>4, <1>5, <1>6, <1>7, <1>8
<1>10. Pushed(p4, Len(s), r, v, errorCode)
  <2>1. /\ \A k \in 1 .. Len(s) + 3 : p4[k] = p1[k]
        /\ \A k \in 1 .. Len(s) + 5 : p4[k] = q[k]
        /\ \A k \in 1 .. Len(s) + 13 : p4[k] = p2[k]
        /\ \A k \in 1 .. Len(s) + 14 : p4[k] = p3[k]
    BY SMTT(40), <1>2, <1>4, <1>5, <1>6, <1>7, <1>8
  <2>2. /\ p4[Len(s) + 1] = r.eflags /\ p4[Len(s) + 2] = r.cs /\ p4[Len(s) + 3] = r.eip
    BY SMTT(40), <1>2, <1>3, <2>1
  <2>3. /\ p4[Len(s) + 4] = (IF v \in HasErrorCode THEN errorCode ELSE Number(0))
        /\ p4[Len(s) + 5] = Number(v)
    BY <1>2, <1>4, <1>8, <2>1
  <2>4. p4[Len(s) + 6] = r.eax /\ p4[Len(s) + 7] = r.ecx
    BY <1>2, <1>5, <1>8, <2>1
  <2>7. p4[Len(s) + 8] = r.edx /\ p4[Len(s) + 9] = r.ebx
    BY <1>2, <1>5, <1>8, <2>1
  <2>8. p4[Len(s) + 10] = Number(Len(s) + 5) /\ p4[Len(s) + 11] = r.ebp
    BY <1>2, <1>5, <1>8, <2>1
  <2>9. p4[Len(s) + 12] = r.esi /\ p4[Len(s) + 13] = r.edi
    BY <1>2, <1>5, <1>8, <2>1
  <2>5. p4[Len(s) + 14] = IF v = 14 THEN r.cr2 ELSE Number(0)
    BY <1>2, <1>6, <1>8, <2>1
  <2>6. /\ p4[Len(s) + 15] = r.ds /\ p4[Len(s) + 16] = r.es
        /\ p4[Len(s) + 17] = r.fs /\ p4[Len(s) + 18] = r.gs
    BY <1>2, <1>7, <1>8
  <2> QED BY <2>2, <2>3, <2>4, <2>5, <2>6, <2>7, <2>8, <2>9 DEF Pushed
<1>11. ASSUME NEW k \in 1 .. KernelWords
       PROVE  p4[Len(p4) - k + 1] = FrameWord(r, v, errorCode, Len(s), Layout[k])
  <2>1. Len(p4) - k + 1 = Len(s) + (19 - k)
    BY <1>2, <1>8 DEF KernelWords
  <2>2. p4[Len(s) + (19 - k)] = FrameWord(r, v, errorCode, Len(s), Layout[k])
    BY ZenonT(40), <1>2, <1>10, WordsByLayout
  <2> QED BY <2>1, <2>2
<1> QED BY <1>1, <1>7, <1>8, <1>9, <1>11 DEF KernelWords

-----------------------------------------------------------------------------
(* Fields of frames                                                        *)

LEMMA Names ==
  /\ Plain = {"eax", "ecx", "edx", "ebx", "ebp", "esi", "edi", "ds", "es", "fs", "gs", "cs", "eip",
              "eflags"}
  /\ RegisterNames = Plain \cup {"cr2", "esp", "ss"}
BY DEF Plain, RegisterNames, Gprs, DataSegs

(* A name that the layout has among the words of the kernel is found there.*)
LEMMA FieldPlace ==
  ASSUME NEW s, IsSeq(s), NEW at \in KernelWords .. Len(s), NEW name,
         \E k \in 1 .. KernelWords : Layout[k] = name
  PROVE  \E k \in 1 .. KernelWords : Layout[k] = name /\ Field(s, at, name) = s[at - k + 1]
<1> DEFINE k == CHOOSE j \in 1 .. Len(Layout) : Layout[j] = name
<1>1. \E j \in 1 .. Len(Layout) : Layout[j] = name
  BY SMTT(40), LayoutFacts DEF KernelWords
<1>2. k \in 1 .. Len(Layout) /\ Layout[k] = name
  BY <1>1
<1>3. name # "esp3" /\ name # "ss3"
  <2>1. PICK j \in 1 .. KernelWords : Layout[j] = name
    OBVIOUS
  <2>2. j \in {1, 2, 3, 4, 5, 6, 7, 8, 9, 10, 11, 12, 13, 14, 15, 16, 17, 18}
    BY DEF KernelWords
  <2>3. CASE j \in {1, 2, 3, 4, 5, 6}
    BY <2>1, <2>3, LayoutFacts
  <2>4. CASE j \in {7, 8, 9, 10, 11, 12}
    BY ZenonT(40), <2>1, <2>4, LayoutFacts
  <2>5. CASE j \in {13, 14, 15, 16, 17, 18}
    BY ZenonT(40), <2>1, <2>5, LayoutFacts
  <2> QED BY <2>2, <2>3, <2>4, <2>5
<1>4. Field(s, at, name) = Word(s, at, k)
  BY DEF Field
<1> HIDE DEF k
<1>5. k \in 1 .. KernelWords
  <2>1. k \in Int /\ 1 <= k /\ k <= 20 /\ k # 19 /\ k # 20
    BY SMTT(40), <1>2, <1>3, LayoutFacts
  <2> QED BY <2>1 DEF KernelWords
<1>6. Len(s) \in Nat /\ DOMAIN s = 1 .. Len(s)
  BY DEF IsSeq
<1>7. at - k + 1 \in DOMAIN s
  BY <1>5, <1>6 DEF KernelWords
<1>8. Word(s, at, k) = s[at - k + 1]
  BY <1>7 DEF Word
<1> QED BY <1>2, <1>4, <1>5, <1>8

LEMMA PlainPlaces ==
  ASSUME NEW name \in Plain
  PROVE  \E k \in 1 .. KernelWords : Layout[k] = name
<1>1. 1 \in 1 .. KernelWords /\ 2 \in 1 .. KernelWords /\ 3 \in 1 .. KernelWords
      /\ 4 \in 1 .. KernelWords /\ 6 \in 1 .. KernelWords /\ 7 \in 1 .. KernelWords
      /\ 8 \in 1 .. KernelWords /\ 10 \in 1 .. KernelWords /\ 11 \in 1 .. KernelWords
      /\ 12 \in 1 .. KernelWords /\ 13 \in 1 .. KernelWords /\ 16 \in 1 .. KernelWords
      /\ 17 \in 1 .. KernelWords /\ 18 \in 1 .. KernelWords
  BY DEF KernelWords
<1>2. CASE name \in {"eax", "ecx", "edx", "ebx", "ebp"}
  BY <1>1, <1>2, LayoutFacts
<1>3. CASE name \in {"esi", "edi", "ds", "es", "fs"}
  BY <1>1, <1>3, LayoutFacts
<1>4. CASE name \in {"gs", "cs", "eip", "eflags"}
  BY <1>1, <1>4, LayoutFacts
<1> QED BY <1>2, <1>3, <1>4, Names

LEMMA KernelFrameFields ==
  ASSUME NEW s, NEW e, IsSeq(s), KernelFrame(s, e)
  PROVE  /\ \A name \in Plain : Field(s, e.at, name) = e.regs[name]
         /\ IsKernelInterrupted(s, e.at)
<1>1. ASSUME NEW name \in Plain PROVE Field(s, e.at, name) = e.regs[name]
  <2>1. e.at \in KernelWords .. Len(s)
    BY DEF KernelFrame
  <2>2. PICK k \in 1 .. KernelWords :
          Layout[k] = name /\ Field(s, e.at, name) = s[e.at - k + 1]
    BY <2>1, PlainPlaces, FieldPlace
  <2> QED BY <2>2 DEF KernelFrame
<1>2. Field(s, e.at, "cs") = KernelCode
  <2>1. "cs" \in Plain
    BY Names
  <2> QED BY <1>1, <2>1 DEF KernelFrame
<1>3. IsKernelInterrupted(s, e.at)
  BY <1>2 DEF IsKernelInterrupted, KernelCode, SegmentSelector
<1> QED BY <1>1, <1>3

(* What LeaveKernel pops from a frame of the kernel.                       *)
LEMMA LeaveToKernel ==
  ASSUME NEW s, NEW e, IsSeq(s), KernelFrame(s, e)
  PROVE  LeaveKernel(s, e.at) = [e.regs EXCEPT !.cr2 = regs.cr2]
<1> DEFINE l == LeaveKernel(s, e.at)
           m == [e.regs EXCEPT !.cr2 = regs.cr2]
<1>1. l = [r \in RegisterNames |->
            CASE r = "cr2" -> regs.cr2
              [] r = "esp" -> Number(e.at - Len(Layout) + 2)
              [] r = "ss"  -> KernelData
              [] OTHER     -> Field(s, e.at, r)]
  BY KernelFrameFields DEF LeaveKernel
<1>2. e.regs = [r \in RegisterNames |-> e.regs[r]]
  BY DEF KernelFrame
<1>3. "cr2" \in RegisterNames /\ "esp" \in RegisterNames /\ "ss" \in RegisterNames
  BY Names
<1>4. DOMAIN m = RegisterNames /\ m = [r \in RegisterNames |-> m[r]]
  BY <1>2
<1>5. ASSUME NEW r \in RegisterNames PROVE l[r] = m[r]
  <2>1. CASE r = "cr2"
    BY <1>1, <1>2, <1>3, <2>1
  <2>2. CASE r = "esp"
    <3>1. e.regs["esp"] = Number(e.at - KernelWords) /\ e.at \in Int
      BY DEF KernelFrame, IsSeq, KernelWords
    <3>2. e.at - Len(Layout) + 2 = e.at - KernelWords
      BY <3>1, LayoutFacts DEF KernelWords
    <3>3. l["esp"] = Number(e.at - Len(Layout) + 2)
      BY <1>1, <1>3
    <3>4. m["esp"] = e.regs["esp"]
      BY <1>2, <1>3
    <3> QED BY <2>2, <3>1, <3>2, <3>3, <3>4
  <2>3. CASE r = "ss"
    <3>1. l["ss"] = KernelData
      BY <1>1, <1>3
    <3>2. m["ss"] = e.regs["ss"]
      BY <1>2, <1>3
    <3> QED BY <2>3, <3>1, <3>2 DEF KernelFrame
  <2>4. CASE r \notin {"cr2", "esp", "ss"}
    <3>1. r \in Plain
      BY <2>4, Names
    <3>2. l[r] = Field(s, e.at, r)
      BY <1>1, <2>4
    <3>3. m[r] = e.regs[r]
      BY <1>2, <2>4
    <3> QED BY <3>1, <3>2, <3>3, KernelFrameFields
  <2> QED BY <2>1, <2>2, <2>3, <2>4
<1>6. l = [r \in RegisterNames |-> l[r]]
  BY <1>1
<1> HIDE DEF l, m
<1> QED BY <1>4, <1>5, <1>6 DEF l, m

(* What happens above a frame does not matter to it.                       *)
LEMMA FrameKept ==
  ASSUME NEW s, NEW t, NEW e, KernelFrame(s, e), IsSeq(s), IsSeq(t), e.at <= Len(t),
         \A k \in 1 .. e.at : t[k] = s[k]
  PROVE  KernelFrame(t, e)
<1>1. e.at \in KernelWords .. Len(s) /\ Len(s) \in Nat /\ Len(t) \in Nat
  BY DEF KernelFrame, IsSeq
<1>2. e.at \in KernelWords .. Len(t)
  BY <1>1 DEF KernelWords
<1>3. \A k \in 1 .. KernelWords : e.at - k + 1 \in 1 .. e.at
  BY SMTT(40), <1>1 DEF KernelWords
<1>4. \A k \in 1 .. KernelWords : Layout[k] \in Plain => t[e.at - k + 1] = e.regs[Layout[k]]
  BY <1>3 DEF KernelFrame
<1> QED BY <1>2, <1>4 DEF KernelFrame

(* The frames that somebody made up.                                       *)
MadeUpWord(r, name) ==
  CASE name = "esp3" -> r.esp [] name = "ss3" -> r.ss
    [] name \in {"interruptVectorNumber", "errorCode", "cr2", "esp"} -> Number(0)
    [] OTHER -> r[name]

LEMMA NewFrameWords ==
  ASSUME NEW r
  PROVE  /\ IsSeq(NewFrame(r)) /\ Len(NewFrame(r)) = 20
         /\ \A k \in 1 .. 20 : NewFrame(r)[20 - k + 1] = MadeUpWord(r, Layout[k])
<1> DEFINE f == [k \in 1 .. Len(Layout) |-> MadeUpWord(r, Layout[k])]
<1>1. NewFrame(r) = Reverse(f)
  BY DEF NewFrame, MadeUpWord
<1>2. Len(Layout) = 20
  BY LayoutFacts
<1>3. Len(f) = 20
  BY <1>2
<1>4. Reverse(f) = [i \in 1 .. 20 |-> f[20 - i + 1]]
  <2> HIDE DEF f
  <2> QED BY <1>3 DEF Reverse
<1> DEFINE g == [i \in 1 .. 20 |-> f[20 - i + 1]]
<1>5. Len(g) = 20 /\ IsSeq(g)
  BY DEF IsSeq
<1>6. ASSUME NEW k \in 1 .. 20 PROVE g[20 - k + 1] = MadeUpWord(r, Layout[k])
  <2>1. 20 - k + 1 \in 1 .. 20 /\ 20 - (20 - k + 1) + 1 = k
    OBVIOUS
  <2>2. f[k] = MadeUpWord(r, Layout[k])
    BY <1>2
  <2> HIDE DEF f
  <2> QED BY <2>1, <2>2
<1> HIDE DEF f, g
<1>7. NewFrame(r) = g
  BY <1>1, <1>4 DEF g
<1> QED BY <1>5, <1>6, <1>7

LEMMA NewFrameFields ==
  ASSUME NEW r, NEW name, \E k \in 1 .. 20 : Layout[k] = name
  PROVE  Field(NewFrame(r), 20, name) = MadeUpWord(r, name)
<1> DEFINE s == NewFrame(r)
           k == CHOOSE j \in 1 .. Len(Layout) : Layout[j] = name
<1>1. k \in 1 .. 20 /\ Layout[k] = name
  BY LayoutFacts
<1>2. Field(s, 20, name) = Word(s, 20, k)
  BY DEF Field
<1>3. /\ IsSeq(s) /\ Len(s) = 20
      /\ \A j \in 1 .. 20 : s[20 - j + 1] = MadeUpWord(r, Layout[j])
  BY NewFrameWords
<1> HIDE DEF k, s
<1>4. 20 - k + 1 \in DOMAIN s
  BY <1>1, <1>3 DEF IsSeq
<1>5. Word(s, 20, k) = s[20 - k + 1]
  BY <1>4 DEF Word
<1> QED BY <1>1, <1>2, <1>3, <1>5 DEF s

LEMMA NewKernelFrame ==
  ASSUME NEW t \in KernelThreads
  PROVE  /\ IsSeq(NewFrame(NewThread(t))) /\ Len(NewFrame(NewThread(t))) = 20
         /\ KernelFrame(NewFrame(NewThread(t)), [at |-> Len(Layout), regs |-> NewThread(t)])
<1> DEFINE r == NewThread(t)
           s == NewFrame(r)
           e == [at |-> Len(Layout), regs |-> r]
<1>1. r = Registers(ByContext(t), KernelCode, KernelData, TRUE, Number(2))
  BY DEF NewThread
<1>3. e.at = 20 /\ e.regs = r
  BY LayoutFacts
<1> HIDE DEF r, e
<1>2. r = [n \in RegisterNames |-> r[n]] /\ r.cs = KernelCode /\ r.ss = KernelData
      /\ r.esp = Number(2)
  <2>1. {"cs", "ss", "esp"} \subseteq RegisterNames /\ "ss" \in DataSegs
        /\ "cs" \notin DataSegs /\ "esp" \notin DataSegs
    BY Names DEF DataSegs
  <2> QED BY <1>1, <2>1 DEF Registers
<1>4. /\ IsSeq(s) /\ Len(s) = 20
      /\ \A j \in 1 .. 20 : s[20 - j + 1] = MadeUpWord(r, Layout[j])
  BY NewFrameWords
<1> HIDE DEF s
<1>5. ASSUME NEW k \in 1 .. KernelWords, Layout[k] \in Plain
      PROVE  s[e.at - k + 1] = e.regs[Layout[k]]
  <2>1. k \in 1 .. 20
    BY DEF KernelWords
  <2>2. Layout[k] \notin {"esp3", "ss3", "interruptVectorNumber", "errorCode", "cr2", "esp"}
    BY <1>5, Names
  <2>3. MadeUpWord(r, Layout[k]) = r[Layout[k]]
    BY <2>2 DEF MadeUpWord
  <2> QED BY <1>3, <1>4, <2>1, <2>3
<1>6. KernelFrame(s, e)
  BY <1>2, <1>3, <1>4, <1>5 DEF KernelFrame, KernelWords
<1> QED BY <1>4, <1>6 DEF r, s, e

LEMMA LeaveToUser ==
  ASSUME NEW u \in UserThreads
  PROVE  /\ LeaveKernel(NewFrame(NewThread(u)), 20) = [NewThread(u) EXCEPT !.cr2 = regs.cr2]
         /\ ~ IsKernelInterrupted(NewFrame(NewThread(u)), 20)
         /\ NewThread(u).cs = UserCode
         /\ NewThread(u) = [n \in RegisterNames |-> NewThread(u)[n]]
<1> DEFINE r == NewThread(u)
           s == NewFrame(r)
           l == LeaveKernel(s, 20)
           m == [r EXCEPT !.cr2 = regs.cr2]
<1>1. u \notin KernelThreads
  BY ProcessorAssumption
<1>2. r = Registers(ByContext(u), UserCode, UserData, TRUE, Value("esp", ByContext(u)))
  BY <1>1 DEF NewThread
<1> HIDE DEF r
<1>3. r = [n \in RegisterNames |-> r[n]] /\ r.cs = UserCode
  <2>1. {"cs", "ss", "esp"} \subseteq RegisterNames /\ "ss" \in DataSegs
        /\ "cs" \notin DataSegs /\ "esp" \notin DataSegs
    BY Names DEF DataSegs
  <2> QED BY <1>2, <2>1 DEF Registers
<1>4. \A name : (\E k \in 1 .. 20 : Layout[k] = name) => Field(s, 20, name) = MadeUpWord(r, name)
  BY NewFrameFields
<1>5. ASSUME NEW name \in Plain PROVE Field(s, 20, name) = r[name]
  <2>1. \E k \in 1 .. 20 : Layout[k] = name
    BY PlainPlaces DEF KernelWords
  <2>2. MadeUpWord(r, name) = r[name]
    BY Names DEF MadeUpWord
  <2> QED BY <1>4, <2>1, <2>2
<1>6. Field(s, 20, "esp3") = r.esp /\ Field(s, 20, "ss3") = r.ss
  <2>1. /\ \E k \in 1 .. 20 : Layout[k] = "esp3"
        /\ \E k \in 1 .. 20 : Layout[k] = "ss3"
    BY LayoutFacts
  <2> QED BY <1>4, <2>1 DEF MadeUpWord
<1> HIDE DEF s
<1>7. ~ IsKernelInterrupted(s, 20)
  <2>1. Field(s, 20, "cs") = UserCode
    BY <1>3, <1>5, Names
  <2> QED BY <2>1 DEF IsKernelInterrupted, UserCode, SegmentSelector
<1>8. l = [n \in RegisterNames |->
            CASE n = "cr2" -> regs.cr2 [] n = "esp" -> r.esp [] n = "ss" -> r.ss
              [] OTHER -> Field(s, 20, n)]
  BY <1>6, <1>7 DEF LeaveKernel
<1>9. {"cr2", "esp", "ss"} \subseteq RegisterNames
  BY Names
<1>10. ASSUME NEW n \in RegisterNames PROVE l[n] = m[n]
  <2>1. CASE n = "cr2"
    BY <1>3, <1>8, <1>9, <2>1
  <2>2. CASE n = "esp" \/ n = "ss"
    BY <1>3, <1>8, <1>9, <2>2
  <2>3. CASE n \notin {"cr2", "esp", "ss"}
    <3>1. l[n] = Field(s, 20, n)
      BY <1>8, <2>3
    <3>2. m[n] = r[n]
      BY <1>3, <2>3
    <3> QED BY <1>5, <2>3, <3>1, <3>2, Names
  <2> QED BY <2>1, <2>2, <2>3
<1>11. l = [n \in RegisterNames |-> l[n]] /\ m = [n \in RegisterNames |-> m[n]]
  BY <1>3, <1>8
<1> HIDE DEF l, m
<1>12. l = m
  BY <1>10, <1>11
<1> QED BY <1>3, <1>7, <1>12 DEF l, m, s, r

-----------------------------------------------------------------------------
(* The tables                                                              *)

LEMMA WordSplit ==
  ASSUME NEW n \in Nat, NEW k \in Nat \ {0}
  PROVE  (n % k) + k * (n \div k) = n /\ n \div k \in Nat
OBVIOUS

LEMMA WordValuesType == WordValues \in Nat \ {0} /\ ByteValues \in Nat \ {0}
BY ByteAssumption DEF WordValues

(* The processor gets the address back that the code has cut into pieces.  *)
LEMMA GateRoundTrip ==
  ASSUME NEW v \in Vectors
  PROVE  /\ GateOffset(InitIdt[v]) = StubAddress[v]
         /\ IsInterruptGate(InitIdt[v]) /\ InitIdt[v].segSelector = KernelCode
         /\ (CHOOSE w \in Vectors : StubAddress[w] = GateOffset(InitIdt[v])) = v
<1> DEFINE o == StubAddress[v]
<1>1. InitIdt[v] = CreateInterruptGate(o, KernelCode)
  BY DEF InitIdt
<1>2. /\ InitIdt[v].offset0to15 = Low16(o) /\ InitIdt[v].offset16to31 = High16(o)
      /\ InitIdt[v].segSelector = KernelCode /\ InitIdt[v].type = 14 /\ InitIdt[v].present = 1
  BY <1>1 DEF CreateInterruptGate, ZeroInterruptGate
<1>3. o \in Nat
  BY ProcessorAssumption
<1> HIDE DEF o
<1>4. GateOffset(InitIdt[v]) = o
  BY <1>2, <1>3, WordSplit, WordValuesType DEF GateOffset, Low16, High16
<1>5. \A w \in Vectors : StubAddress[w] = StubAddress[v] => w = v
  BY ProcessorAssumption
<1> QED BY <1>2, <1>4, <1>5 DEF o, IsInterruptGate

LEMMA TssRoundTrip ==
  /\ IsTss(CreateTssDescriptor(TssAddress))
  /\ Base(CreateTssDescriptor(TssAddress)) = TssAddress
<1> DEFINE d == CreateTssDescriptor(TssAddress)
           n == TssAddress
<1>1. /\ d.base0to15 = Low16(n) /\ d.base16to23 = Low8(High16(n))
      /\ d.base24to31 = High8(High16(n)) /\ d.type0 = 1 /\ d.type2to3 = 2 /\ d.present = 1
      /\ d.segDescriptorType = 0 /\ d.busy = 0
  BY DEF CreateTssDescriptor, ZeroTssDescriptor
<1>2. n \in Nat
  BY ProcessorAssumption
<1> HIDE DEF n, d
<1>3. High16(n) \in Nat /\ Low16(n) + WordValues * High16(n) = n
  BY <1>2, WordSplit, WordValuesType DEF High16, Low16
<1>4. Low8(High16(n)) + ByteValues * High8(High16(n)) = High16(n)
  BY <1>3, WordSplit, WordValuesType DEF High8, Low8
<1>5. Base(d) = n
  BY <1>1, <1>3, <1>4 DEF Base
<1> QED BY <1>1, <1>5 DEF IsTss, d, n

LEMMA Selectors ==
  /\ TssSelector.index = 1 /\ KernelCode.index = 2 /\ KernelData.index = 3
  /\ UserCode.index = 4 /\ UserData.index = 5 /\ KernelCode.rpl = 0 /\ UserCode.rpl = 3
  /\ KernelCode # UserCode
BY DEF TssSelector, KernelCode, KernelData, UserCode, UserData, SegmentSelector

LEMMA SegmentsFit ==
  /\ InitGdt[TssSelector.index] = CreateTssDescriptor(TssAddress)
  /\ IsCode(InitGdt[KernelCode.index], 0) /\ IsStack(InitGdt[KernelData.index], 0)
  /\ ~ IsStack(InitGdt[KernelCode.index], 0)
<1>1. /\ InitGdt[1] = CreateTssDescriptor(TssAddress)
      /\ InitGdt[2] = CreateCodeSegment(TRUE) /\ InitGdt[3] = CreateDataSegment(TRUE)
  BY Selectors DEF InitGdt
<1> DEFINE c == CreateCodeSegment(TRUE)
           d == CreateDataSegment(TRUE)
<1>2. /\ c.present = 1 /\ c.segDescriptorType = 1 /\ c.type3 = 1 /\ c.dpl = 0
      /\ c.defaultOperationSize = 1 /\ c.base0to15 = 0 /\ c.base16to23 = 0 /\ c.base24to31 = 0
  BY DEF CreateCodeSegment, ZeroCodeSegment
<1>3. /\ d.present = 1 /\ d.segDescriptorType = 1 /\ d.type3 = 0 /\ d.dpl = 0 /\ d.writable = 1
      /\ d.big = 1 /\ d.base0to15 = 0 /\ d.base16to23 = 0 /\ d.base24to31 = 0
  BY DEF CreateDataSegment, ZeroDataSegment
<1> HIDE DEF c, d
<1>4. IsCode(c, 0) /\ ~ IsStack(c, 0)
  BY <1>2, WordValuesType DEF IsCode, IsStack, IsFlat, Base
<1>5. IsStack(d, 0)
  BY <1>3, WordValuesType DEF IsStack, IsFlat, Base
<1> QED BY <1>1, <1>4, <1>5, Selectors DEF c, d

-----------------------------------------------------------------------------
(* The processor: the first state, and steps that leave the stacks alone   *)

LEMMA ContextFacts ==
  /\ KernelContexts \cap UserThreads = {} /\ KernelContexts \cup UserThreads = Contexts
  /\ Boot \in KernelContexts
BY ProcessorAssumption DEF KernelContexts, Contexts, Threads

LEMMA OneFrame ==
  ASSUME NEW e
  PROVE  IsSeq(<< e >>) /\ Len(<< e >>) = 1 /\ << e >>[1] = e /\ << e >> # << >>
BY DEF IsSeq

LEMMA InitStacks ==
  ASSUME ProcessorInit
  PROVE  StackInv
<1>1. /\ running = Boot /\ calling = "none"
      /\ stack = [c \in Contexts |-> IF c = Boot THEN << >> ELSE NewFrame(NewThread(c))]
      /\ suspended = [c \in Contexts |->
           IF c = Boot THEN << >> ELSE << [at |-> Len(Layout), regs |-> NewThread(c)] >>]
  BY DEF ProcessorInit
<1>2. KernelStackInv(Boot)
  <2>1. stack[Boot] = << >> /\ suspended[Boot] = << >>
    BY <1>1, ContextFacts
  <2>2. \A i \in 1 .. Len(<< >>) : FALSE
    OBVIOUS
  <2> QED BY <1>1, <2>1, <2>2, NoWords DEF KernelStackInv
<1>3. ASSUME NEW t \in KernelThreads PROVE KernelStackInv(t)
  <2> DEFINE e == [at |-> Len(Layout), regs |-> NewThread(t)]
             s == NewFrame(NewThread(t))
  <2>1. t # Boot /\ t \in Contexts
    BY ProcessorAssumption DEF Contexts, Threads
  <2>2. stack[t] = s /\ suspended[t] = << e >>
    BY <1>1, <2>1
  <2>3. IsSeq(s) /\ Len(s) = 20 /\ KernelFrame(s, e) /\ e.at = 20
    BY NewKernelFrame, LayoutFacts
  <2> HIDE DEF e, s
  <2>4. IsSeq(suspended[t]) /\ Len(suspended[t]) = 1 /\ suspended[t][1] = e /\ suspended[t] # << >>
    BY <2>2, OneFrame
  <2>5. Last(suspended[t]) = e
    BY <2>4 DEF Last
  <2>6. \A i \in 1 .. Len(suspended[t]) : i = 1
    BY <2>4
  <2>7. \A i \in 1 .. Len(suspended[t]) : KernelFrame(stack[t], suspended[t][i])
    BY <2>2, <2>3, <2>4, <2>6
  <2>8. \A i, j \in 1 .. Len(suspended[t]) : ~ (i < j)
    BY <2>6
  <2>9. suspended[t] # << >> /\ Len(stack[t]) = Last(suspended[t]).at /\ t # running
    BY <1>1, <2>1, <2>2, <2>3, <2>4, <2>5
  <2>10. IsSeq(stack[t]) /\ IsSeq(suspended[t])
    BY <2>2, <2>3, <2>4
  <2> QED BY <2>7, <2>8, <2>9, <2>10 DEF KernelStackInv
<1>4. ASSUME NEW u \in UserThreads PROVE UserStackInv(u)
  <2>1. u # Boot /\ u \in Contexts
    BY ProcessorAssumption DEF Contexts, Threads
  <2> QED BY <1>1, <2>1 DEF UserStackInv
<1>5. stack = [c \in Contexts |-> stack[c]] /\ suspended = [c \in Contexts |-> suspended[c]]
  BY <1>1
<1> QED BY <1>1, <1>2, <1>3, <1>4, <1>5, ContextFacts DEF StackInv, KernelContexts

LEMMA InitProcessor ==
  ASSUME Init
  PROVE  ProcessorInv
<1> USE DEF Init
<1>1. StackInv
  BY InitStacks
<1>2. /\ boot = "StartPrecursor" /\ running = Boot /\ calling = "none" /\ machine = "running"
      /\ report = << >> /\ idtIsLoaded = FALSE
      /\ regs = Registers(ByContext(Boot), SegmentSelector(1, 0), SegmentSelector(2, 0), FALSE,
                          Number(0))
  BY DEF ProcessorInit
<1>3. regs = [r \in RegisterNames |-> regs[r]] /\ regs.cs = SegmentSelector(1, 0)
      /\ regs.eflags = [by |-> ByContext(Boot), interruptFlag |-> FALSE]
  <2>1. {"cs", "eflags"} \subseteq RegisterNames /\ "cs" \notin DataSegs /\ "eflags" \notin DataSegs
    BY Names DEF DataSegs
  <2> QED BY <1>2, <2>1 DEF Registers
<1>4. RegsInv
  <2>1. running \notin UserThreads
    BY <1>2, ContextFacts
  <2>2. regs.cs.rpl = 0
    BY <1>3 DEF SegmentSelector
  <2> QED BY <1>2, <1>3, <2>1, <2>2 DEF RegsInv, HasTables
<1>5. BootInv
  <2>1. suspended[Boot] = << >> /\ stack[Boot] = << >>
    BY ContextFacts DEF ProcessorInit
  <2>2. ~ regs.eflags.interruptFlag
    BY <1>3
  <2> QED BY <1>2, <2>1, <2>2 DEF BootInv, Stages
<1>6. TablesInv
  BY <1>2 DEF TablesInv, HasTables
<1>7. CauseInv /\ ResetsOnlyUnprepared /\ ReportTellsTruth
  BY <1>2 DEF CauseInv, ResetsOnlyUnprepared, ReportTellsTruth
<1> QED BY <1>1, <1>4, <1>5, <1>6, <1>7 DEF ProcessorInv

LEMMA SameStacks ==
  ASSUME StackInv, UNCHANGED <<stack, suspended, running, calling>>
  PROVE  StackInv'
BY DEF StackInv, KernelStackInv, UserStackInv

LEMMA SameTold ==
  ASSUME ToldTruth, UNCHANGED <<stack, suspended, running, calling, cause>>
  PROVE  ToldTruth'
BY DEF ToldTruth

(* While the machine runs there is nothing to say of its end.              *)
LEMMA StillRunning ==
  ASSUME machine' = "running"
  PROVE  ResetsOnlyUnprepared' /\ ReportTellsTruth'
BY DEF ResetsOnlyUnprepared, ReportTellsTruth

LEMMA ProcessorStutters ==
  ASSUME ProcessorInv, UNCHANGED <<processorVars, boot>>
  PROVE  ProcessorInv'
<1> USE DEF processorVars, tables, ProcessorInv
<1>1. StackInv'
  BY SameStacks
<1>2. RegsInv' /\ BootInv'
  BY DEF RegsInv, BootInv, HasTables
<1>3. TablesInv'
  BY DEF TablesInv, HasTables
<1>4. CauseInv'
  BY SameTold DEF CauseInv
<1>5. ResetsOnlyUnprepared'
  BY DEF ResetsOnlyUnprepared
<1>6. ReportTellsTruth'
  BY DEF ReportTellsTruth
<1> QED BY <1>1, <1>2, <1>3, <1>4, <1>5, <1>6

LEMMA CallTranslateStep ==
  ASSUME ProcessorInv, CallTranslate
  PROVE  ProcessorInv'
<1>1. /\ boot = "translate" /\ boot' \in {"translate", "kmain"} /\ running = Boot
      /\ calling = "none" /\ machine = "running" /\ UNCHANGED processorVars
  BY DEF CallTranslate, At
<1> USE <1>1 DEF processorVars, tables, ProcessorInv
<1>2. StackInv'
  BY SameStacks
<1>3. RegsInv' /\ BootInv'
  BY DEF RegsInv, BootInv, HasTables, Stages
<1>4. TablesInv'
  BY DEF TablesInv, HasTables
<1>5. CauseInv'
  BY DEF CauseInv
<1> QED BY <1>2, <1>3, <1>4, <1>5, StillRunning

LEMMA InitPrimaryStep ==
  ASSUME ProcessorInv, CallInitPrimary
  PROVE  ProcessorInv'
<1>1. /\ boot = "StartPrecursor" /\ boot' = "translate" /\ running = Boot
      /\ calling = "none" /\ machine = "running" /\ InitPrimary
  BY DEF CallInitPrimary, At
<1>2. /\ gdt' = InitGdt /\ idt' = InitIdt /\ tss' = InitTss /\ idtIsLoaded' = TRUE
      /\ dispatchTable' = [v \in Vectors |-> "default"]
      /\ regs' = Registers(ByContext(Boot), KernelCode, KernelData, FALSE, Number(0))
      /\ UNCHANGED <<stack, running, suspended, calling, traps, cause, report>>
  BY <1>1 DEF InitPrimary
<1>3. machine' = "running"
  <2>1. /\ IsTss(gdt'[TssSelector.index]) /\ Base(gdt'[TssSelector.index]) = TssAddress
        /\ IsCode(gdt'[KernelCode.index], 0) /\ IsStack(gdt'[KernelData.index], 0)
    BY <1>2, SegmentsFit, TssRoundTrip
  <2> QED BY <1>1, <2>1 DEF InitPrimary
<1> USE DEF ProcessorInv
<1>4. StackInv'
  BY <1>2, SameStacks
<1>5. /\ regs' = [r \in RegisterNames |-> regs'[r]]
      /\ regs'.cs = KernelCode /\ regs'.ss = KernelData /\ regs'.esp = Number(0)
      /\ regs'.eflags = [by |-> ByContext(Boot), interruptFlag |-> FALSE]
  <2>1. /\ {"cs", "ss", "esp", "eflags"} \subseteq RegisterNames /\ "ss" \in DataSegs
        /\ "cs" \notin DataSegs /\ "esp" \notin DataSegs /\ "eflags" \notin DataSegs
    BY Names DEF DataSegs
  <2> QED BY <1>2, <2>1 DEF Registers
<1>6. stack[Boot] = << >> /\ suspended[Boot] = << >>
  BY <1>1 DEF BootInv, HasTables
<1>7. RegsInv'
  <2>1. running' \notin UserThreads
    BY <1>1, <1>2, ContextFacts
  <2>2. regs'.esp = Number(Len(stack'[running']))
    BY <1>1, <1>2, <1>5, <1>6, NoWords
  <2> QED BY <1>1, <1>5, <2>1, <2>2 DEF RegsInv, HasTables
<1>8. BootInv'
  <2>1. ~ regs'.eflags.interruptFlag
    BY <1>5
  <2> QED BY <1>1, <1>2, <2>1 DEF BootInv, HasTables, Stages
<1>9. TablesInv'
  <2>1. tss' = [esp0 |-> tss'.esp0, ss0 |-> KernelCode]
    BY <1>2 DEF InitTss, ZeroTaskStateSegment
  <2> QED BY <1>1, <1>2, <2>1 DEF TablesInv, HasTables
<1>10. CauseInv'
  BY <1>1, <1>2 DEF CauseInv
<1> QED BY <1>3, <1>4, <1>7, <1>8, <1>9, <1>10, StillRunning

(* Each vector has a handler in the end.                                   *)
LEMMA EveryVectorHandled ==
  /\ Vectors \ (32 .. 47) = Deliverable \cup Unrecoverable
  /\ Deliverable \cap Unrecoverable = {}
  /\ 32 .. 47 \subseteq Vectors
BY DEF Vectors, Deliverable, Unrecoverable

LEMMA InitExceptionDispatcherStep ==
  ASSUME ProcessorInv, InitExceptionDispatcher
  PROVE  ProcessorInv'
<1>1. /\ boot = "kmain" /\ boot' = "exceptions" /\ running = Boot
      /\ calling = "none" /\ machine = "running" /\ OnlyTables
      /\ dispatchTable' =
           RegisterHandler(RegisterHandler(dispatchTable, Deliverable, "deliverable"),
                           Unrecoverable, "unrecoverable")
  BY DEF InitExceptionDispatcher, At, RegisterExceptionHandlers
<1> USE <1>1 DEF OnlyTables, ProcessorInv
<1>2. StackInv'
  BY SameStacks
<1>3. RegsInv' /\ BootInv'
  BY DEF RegsInv, BootInv, HasTables, Stages
<1>4. TablesInv'
  <2>1. \A v \in Vectors \ (32 .. 47) :
          dispatchTable'[v] = IF v \in Deliverable THEN "deliverable" ELSE "unrecoverable"
    BY EveryVectorHandled DEF RegisterHandler
  <2> QED BY <2>1 DEF TablesInv, HasTables
<1>5. CauseInv'
  BY DEF CauseInv
<1> QED BY <1>2, <1>3, <1>4, <1>5, StillRunning

LEMMA InitInterruptDispatcherStep ==
  ASSUME ProcessorInv, InitInterruptDispatcher
  PROVE  ProcessorInv'
<1>1. /\ boot = "exceptions" /\ boot' = "interrupts" /\ running = Boot
      /\ calling = "none" /\ machine = "running" /\ OnlyTables
      /\ dispatchTable' = RegisterHandler(dispatchTable, 32 .. 47, "interrupt")
  BY DEF InitInterruptDispatcher, At, RegisterInterruptHandlers
<1> USE <1>1 DEF OnlyTables, ProcessorInv
<1>2. StackInv'
  BY SameStacks
<1>3. RegsInv' /\ BootInv'
  BY DEF RegsInv, BootInv, HasTables, Stages
<1>4. TablesInv'
  <2>1. \A v \in Vectors \ (32 .. 47) : dispatchTable'[v] = dispatchTable[v]
    BY DEF RegisterHandler
  <2>2. \A v \in 32 .. 47 : dispatchTable'[v] = "interrupt"
    BY EveryVectorHandled DEF RegisterHandler
  <2> QED BY <2>1, <2>2 DEF TablesInv, HasTables
<1>5. CauseInv'
  BY DEF CauseInv
<1> QED BY <1>2, <1>3, <1>4, <1>5, StillRunning

LEMMA InterruptFlagStep ==
  ASSUME ProcessorInv, NEW enabled \in BOOLEAN, SetInterruptFlag(enabled),
         boot' \in Stages, boot' = boot \/ (boot = "interrupts" /\ boot' = "idle"),
         boot' = "idle"
  PROVE  ProcessorInv'
<1>1. /\ machine = "running" /\ regs' = [regs EXCEPT !.eflags.interruptFlag = enabled]
      /\ UNCHANGED <<tables, stack, running, suspended, calling, traps, cause, report, machine>>
  BY DEF SetInterruptFlag
<1> USE <1>1 DEF tables, ProcessorInv
<1>2. StackInv'
  BY SameStacks
<1>3. /\ regs' = [r \in RegisterNames |-> regs'[r]]
      /\ regs'.cs = regs.cs /\ regs'.ss = regs.ss /\ regs'.esp = regs.esp
  <2> DEFINE f == [regs.eflags EXCEPT !.interruptFlag = enabled]
  <2>1. regs' = [regs EXCEPT !.eflags = f]
    BY Zenon
  <2>2. regs = [r \in RegisterNames |-> regs[r]]
    BY DEF RegsInv
  <2> HIDE DEF f
  <2> QED BY ONLY <2>1, <2>2
<1>4. HasTables /\ HasTables'
  BY DEF HasTables
<1>5. RegsInv'
  BY <1>3, <1>4 DEF RegsInv
<1>6. BootInv'
  BY <1>4 DEF BootInv, HasTables
<1>7. TablesInv'
  BY <1>4 DEF TablesInv
<1>8. CauseInv'
  <2>1. calling = "default" => boot \in {"translate", "kmain"}
    BY DEF CauseInv
  <2>2. calling # "default"
    BY <2>1
  <2> QED BY <2>2, SameTold DEF CauseInv
<1> QED BY <1>2, <1>5, <1>6, <1>7, <1>8, StillRunning

LEMMA CheckBootInfoStep ==
  ASSUME ProcessorInv, CheckBootInfo
  PROVE  ProcessorInv'
<1>1. /\ boot = "interrupts" /\ running = Boot /\ calling = "none" /\ machine = "running"
  BY DEF CheckBootInfo, At
<1>2. CASE result = "NULL"
  <2>1. /\ machine' = "failed"
        /\ UNCHANGED <<boot, tables, regs, stack, running, suspended, calling, traps, cause,
                       report>>
    BY <1>2 DEF CheckBootInfo
  <2> USE <2>1 DEF tables, ProcessorInv
  <2>2. StackInv'
    BY SameStacks
  <2>3. RegsInv' /\ BootInv' /\ TablesInv'
    BY DEF RegsInv, BootInv, TablesInv, HasTables
  <2>4. CauseInv'
    BY <1>1 DEF CauseInv
  <2>5. report' = << >>
    BY <1>1 DEF CauseInv
  <2>6. ResetsOnlyUnprepared' /\ ReportTellsTruth'
    BY <2>5 DEF ResetsOnlyUnprepared, ReportTellsTruth
  <2> QED BY <2>2, <2>3, <2>4, <2>6
<1>3. CASE result # "NULL"
  <2>1. boot' = "idle" /\ SetInterruptFlag(TRUE) /\ TRUE \in BOOLEAN
    BY <1>3 DEF CheckBootInfo
  <2> QED BY <1>1, <2>1, InterruptFlagStep DEF Stages
<1> QED BY <1>2, <1>3

LEMMA DefaultHandlerStep ==
  ASSUME ProcessorInv, DefaultHandler, UNCHANGED boot
  PROVE  ProcessorInv'
<1>1. /\ machine = "running" /\ calling = "default" /\ machine' = "reset"
      /\ UNCHANGED <<tables, regs, stack, running, suspended, calling, traps, cause, report>>
  BY DEF DefaultHandler
<1> USE <1>1 DEF tables, ProcessorInv
<1>2. StackInv'
  BY SameStacks
<1>3. RegsInv' /\ BootInv' /\ TablesInv'
  BY DEF RegsInv, BootInv, TablesInv, HasTables
<1>4. CauseInv'
  BY DEF CauseInv
<1>5. ResetsOnlyUnprepared' /\ ReportTellsTruth'
  BY DEF CauseInv, ResetsOnlyUnprepared, ReportTellsTruth
<1> QED BY <1>2, <1>3, <1>4, <1>5

LEMMA CallingInKernel ==
  ASSUME StackInv, calling # "none"
  PROVE  /\ running \in KernelContexts
         /\ IsSeq(stack[running]) /\ IsSeq(suspended[running])
         /\ Len(suspended[running]) \in Nat \ {0}
         /\ KernelFrame(stack[running], Last(suspended[running]))
<1>1. running \in KernelContexts
  BY ContextFacts DEF StackInv, UserStackInv
<1>2. KernelStackInv(running)
  BY <1>1 DEF StackInv
<1>3. suspended[running] # << >> /\ IsSeq(suspended[running])
  BY <1>2 DEF KernelStackInv
<1>4. Len(suspended[running]) \in Nat \ {0}
  BY <1>3 DEF IsSeq
<1> QED BY <1>1, <1>2, <1>3, <1>4 DEF KernelStackInv, Last

LEMMA LabelNames ==
  /\ \A label \in DOMAIN Labels \ {"ErrorCode", "CR2", "ESP"} : Labels[label] \in Plain
  /\ {"ErrorCode", "CR2", "ESP"} \subseteq DOMAIN Labels
  /\ Labels["ErrorCode"] = "errorCode" /\ Labels["CR2"] = "cr2" /\ Labels["ESP"] = "esp"
BY Names DEF Labels

LEMMA ExceptionHandlerStep ==
  ASSUME ProcessorInv, ExceptionHandler, UNCHANGED boot
  PROVE  ProcessorInv'
<1> DEFINE s == stack[running]
           e == Last(suspended[running])
           v == Field(s, e.at, "interruptVectorNumber")
<1>1. /\ machine = "running" /\ calling \in {"deliverable", "unrecoverable"} /\ machine' = "failed"
      /\ report' = [interrupt |-> VectorText(v.number),
                    machineState |-> MachineState(s, e.at),
                    assertion |-> IF calling = "deliverable" /\ v = Number(3)
                                    THEN AssertionInfo(s, e.at) ELSE << >>]
      /\ UNCHANGED <<tables, regs, stack, running, suspended, calling, traps, cause>>
  BY DEF ExceptionHandler, ActiveFrame
<1>2. StackInv'
  BY <1>1, SameStacks DEF ProcessorInv
<1>3. RegsInv' /\ BootInv' /\ TablesInv'
  BY <1>1 DEF ProcessorInv, tables, RegsInv, BootInv, TablesInv, HasTables
<1>4. ToldTruth
  BY <1>1 DEF ProcessorInv, CauseInv
<1>5. CauseInv'
  BY <1>1, <1>4, SameTold DEF ProcessorInv, CauseInv
<1>6. ResetsOnlyUnprepared'
  BY <1>1 DEF ResetsOnlyUnprepared
<1>7. ReportTellsTruth'
  <2> DEFINE r == e.regs
             m == MachineState(s, e.at)
  <2>1. \A name \in Plain : Field(s, e.at, name) = r[name]
    BY <1>1, CallingInKernel, KernelFrameFields DEF ProcessorInv
  <2>2. /\ v = Number(cause.vector) /\ Field(s, e.at, "errorCode") = cause.error
        /\ Field(s, e.at, "cr2") = (IF cause.vector = 14 THEN r.cr2 ELSE Number(0))
        /\ Field(s, e.at, "esp") = Number(r.esp.number + 5)
        /\ cause.assertion = IF calling = "deliverable" /\ cause.vector = 3
                               THEN AssertionInfo(s, e.at) ELSE << >>
    BY <1>4 DEF ToldTruth
  <2>3. v.number = cause.vector /\ (v = Number(3) <=> cause.vector = 3)
    BY <2>2 DEF Number
  <2>4. m.ErrorCode = Field(s, e.at, "errorCode") /\ m.CR2 = Field(s, e.at, "cr2")
        /\ m.ESP = Field(s, e.at, "esp")
    BY LabelNames DEF MachineState
  <2>5. \A label \in DOMAIN Labels \ {"ErrorCode", "CR2", "ESP"} : m[label] = r[Labels[label]]
    BY <2>1, LabelNames DEF MachineState
  <2>6. /\ report'.interrupt = VectorText(cause.vector) /\ report'.machineState = m
        /\ report'.assertion = cause.assertion
    BY <1>1, <2>2, <2>3
  <2> HIDE DEF m, r
  <2>7. Last(suspended'[running']).regs = r
    BY <1>1 DEF r
  <2> QED BY <1>1, <2>2, <2>4, <2>5, <2>6, <2>7 DEF ReportTellsTruth
<1> QED BY <1>2, <1>3, <1>5, <1>6, <1>7 DEF ProcessorInv

-----------------------------------------------------------------------------
(* The way out of the kernel                                               *)

(* What ResumesAsInterrupted asks of a step that resumes a context.        *)
Resumed ==
  /\ regs' = [Last(suspended[running']).regs EXCEPT !.cr2 = regs'.cr2]
  /\ regs'.cs = KernelCode => regs'.esp = Number(Len(stack'[running']))
  /\ regs'.cs = UserCode => tss'.esp0 = [context |-> running', at |-> 0]

LEMMA LastFrameOf ==
  ASSUME NEW c \in KernelContexts, StackInv, suspended[c] # << >>
  PROVE  /\ IsSeq(stack[c]) /\ IsSeq(suspended[c]) /\ Len(suspended[c]) \in Nat \ {0}
         /\ KernelFrame(stack[c], Last(suspended[c]))
         /\ \A i \in 1 .. Len(suspended[c]) - 1 :
              suspended[c][i].at <= Last(suspended[c]).at - KernelWords
         /\ \A i \in 1 .. Len(suspended[c]) :
              suspended[c][i].at \in Nat /\ suspended[c][i].at <= Last(suspended[c]).at
<1> DEFINE n == Len(suspended[c])
<1>1. KernelStackInv(c)
  BY DEF StackInv
<1>2. IsSeq(stack[c]) /\ IsSeq(suspended[c])
  BY <1>1 DEF KernelStackInv
<1>3. n \in Nat \ {0}
  BY <1>2 DEF IsSeq
<1>4. /\ \A i \in 1 .. n : KernelFrame(stack[c], suspended[c][i])
      /\ \A i, j \in 1 .. n : i < j => suspended[c][i].at <= suspended[c][j].at - KernelWords
  BY <1>1 DEF KernelStackInv
<1>5. Last(suspended[c]) = suspended[c][n]
  BY DEF Last
<1> HIDE DEF n
<1>6. \A i \in 1 .. n : suspended[c][i].at \in Nat
  <2>1. Len(stack[c]) \in Nat
    BY <1>2 DEF IsSeq
  <2>2. \A i \in 1 .. n : suspended[c][i].at \in KernelWords .. Len(stack[c])
    BY <1>4 DEF KernelFrame
  <2> QED BY <2>1, <2>2 DEF KernelWords
<1>7. \A i \in 1 .. n - 1 : suspended[c][i].at <= suspended[c][n].at - KernelWords
  BY <1>3, <1>4
<1>8. \A i \in 1 .. n : suspended[c][i].at <= suspended[c][n].at
  <2>1. n \in 1 .. n /\ suspended[c][n].at \in Nat
    BY <1>3, <1>6
  <2>2. ASSUME NEW i \in 1 .. n PROVE suspended[c][i].at <= suspended[c][n].at
    <3>1. CASE i = n
      BY <2>1, <3>1
    <3>2. CASE i # n
      <4>1. i \in 1 .. n - 1
        BY <1>3, <3>2
      <4>2. suspended[c][i].at <= suspended[c][n].at - KernelWords /\ suspended[c][i].at \in Nat
        BY <1>6, <1>7, <4>1
      <4> QED BY <2>1, <4>2 DEF KernelWords
    <3> QED BY <3>1, <3>2
  <2> QED BY <2>2
<1>9. KernelFrame(stack[c], suspended[c][n])
  BY <1>3, <1>4
<1> QED BY <1>2, <1>3, <1>5, <1>6, <1>7, <1>8, <1>9 DEF n

(* A context that is left keeps its frames, and its stack ends with the    *)
(* last one.                                                               *)
LEMMA ContextLeft ==
  ASSUME NEW c \in KernelContexts, c = running, StackInv, suspended[c] # << >>,
         stack'[c] = SubSeq(stack[c], 1, ActiveFrame),
         suspended'[c] = suspended[c], running' # c
  PROVE  KernelStackInv(c)'
<1> DEFINE s == stack[c]
           f == suspended[c]
           at == ActiveFrame
           t == SubSeq(s, 1, at)
<1>1. /\ IsSeq(s) /\ IsSeq(f) /\ Len(f) \in Nat \ {0} /\ KernelFrame(s, Last(f))
      /\ \A i \in 1 .. Len(f) : f[i].at \in Nat /\ f[i].at <= at
  BY LastFrameOf DEF ActiveFrame
<1>2. at \in KernelWords .. Len(s) /\ Len(s) \in Nat /\ at = Last(f).at
  BY <1>1 DEF KernelFrame, IsSeq, ActiveFrame
<1>3. at \in 0 .. Len(s)
  BY <1>2 DEF KernelWords
<1> HIDE DEF at, f, s
<1>4. IsSeq(t) /\ Len(t) = at /\ \A k \in 1 .. at : t[k] = s[k]
  BY <1>1, <1>3, Shortened
<1> HIDE DEF t
<1>5. KernelStackInv(c)
  BY DEF StackInv
<1>6. ASSUME NEW i \in 1 .. Len(f) PROVE KernelFrame(t, f[i])
  <2>1. KernelFrame(s, f[i])
    BY <1>5 DEF KernelStackInv, s, f
  <2>2. f[i].at <= Len(t) /\ \A k \in 1 .. f[i].at : t[k] = s[k]
    BY <1>1, <1>2, <1>4 DEF KernelWords
  <2> QED BY <1>1, <1>4, <2>1, <2>2, FrameKept
<1>7. \A i, j \in 1 .. Len(f) : i < j => f[i].at <= f[j].at - KernelWords
  BY <1>5 DEF KernelStackInv, f
<1>8. stack'[c] = t /\ suspended'[c] = f
  BY DEF t, f, s, at
<1>9. f # << >>
  BY DEF f
<1> QED BY <1>1, <1>2, <1>4, <1>6, <1>7, <1>8, <1>9 DEF KernelStackInv

(* A context that is resumed loses its last frame.                         *)
LEMMA ContextResumed ==
  ASSUME NEW to \in KernelContexts, StackInv, suspended[to] # << >>,
         IsSeq(stack'[to]), Len(stack'[to]) = Last(suspended[to]).at - KernelWords,
         \A k \in 1 .. Len(stack'[to]) : stack'[to][k] = stack[to][k],
         suspended'[to] = Front(suspended[to]), running' = to,
         calling' = IF suspended'[to] = << >> THEN "none" ELSE "interrupt"
  PROVE  KernelStackInv(to)'
<1> DEFINE s == stack[to]
           t == stack'[to]
           f == suspended[to]
           g == suspended'[to]
<1>1. /\ IsSeq(s) /\ IsSeq(f) /\ Len(f) \in Nat \ {0} /\ KernelFrame(s, Last(f))
      /\ \A i \in 1 .. Len(f) - 1 : f[i].at <= Last(f).at - KernelWords
  BY LastFrameOf
<1>2. KernelStackInv(to)
  BY DEF StackInv
<1>3. /\ \A i \in 1 .. Len(f) : KernelFrame(s, f[i])
      /\ \A i, j \in 1 .. Len(f) : i < j => f[i].at <= f[j].at - KernelWords
  BY <1>2 DEF KernelStackInv
<1>4. IsSeq(g) /\ Len(g) = Len(f) - 1 /\ \A i \in 1 .. Len(g) : g[i] = f[i]
  <2>1. Len(f) - 1 \in 0 .. Len(f) /\ g = SubSeq(f, 1, Len(f) - 1)
    BY <1>1 DEF Front
  <2> HIDE DEF f, g
  <2> QED BY ZenonT(40), <1>1, <2>1, Shortened
<1>5. IsSeq(t) /\ Len(t) = Last(f).at - KernelWords /\ \A k \in 1 .. Len(t) : t[k] = s[k]
  OBVIOUS
<1>6. calling' = "none" <=> g = << >>
  OBVIOUS
<1> HIDE DEF s, t, f, g
<1>7. ASSUME NEW i \in 1 .. Len(g) PROVE KernelFrame(t, g[i])
  <2>1. i \in 1 .. Len(f) - 1 /\ i \in 1 .. Len(f) /\ g[i] = f[i]
    BY <1>1, <1>4
  <2>2. f[i].at <= Len(t) /\ KernelFrame(s, f[i])
    BY SMTT(40), <1>1, <1>3, <1>5, <2>1
  <2>3. f[i].at \in Nat /\ Len(t) \in Nat
    BY <1>1, <1>5, <2>2 DEF KernelFrame, IsSeq, KernelWords
  <2>4. \A k \in 1 .. f[i].at : t[k] = s[k]
    BY <1>5, <2>2, <2>3
  <2> QED BY <1>1, <1>5, <2>1, <2>2, <2>4, FrameKept
<1>8. \A i, j \in 1 .. Len(g) : i < j => g[i].at <= g[j].at - KernelWords
  <2>1. \A i \in 1 .. Len(g) : i \in 1 .. Len(f)
    BY <1>1, <1>4
  <2> QED BY <1>3, <1>4, <2>1
<1> QED BY <1>4, <1>5, <1>6, <1>7, <1>8 DEF KernelStackInv, t, g

LEMMA ContextKept ==
  ASSUME NEW c \in KernelContexts, StackInv, c # running, running' # c,
         stack'[c] = stack[c], suspended'[c] = suspended[c]
  PROVE  KernelStackInv(c)'
BY DEF StackInv, KernelStackInv

LEMMA ReturnToUser ==
  ASSUME ProcessorInv, NEW to \in UserThreads, Return(to), UNCHANGED boot
  PROVE  ProcessorInv' /\ Resumed
<1> DEFINE at == Last(suspended[to]).at
           r == NewThread(to)
<1>1. /\ machine = "running" /\ calling = "interrupt" /\ suspended[to] # << >>
      /\ regs' = LeaveKernel(stack[to], at)
      /\ tss' = IF to = running THEN tss ELSE NextTss(to, at)
      /\ stack' = [[stack EXCEPT ![running] = SubSeq(@, 1, ActiveFrame)]
                     EXCEPT ![to] = SubSeq(@, 1, at - Len(Layout)
                                                   + IF IsKernelInterrupted(@, at) THEN 2 ELSE 0)]
      /\ suspended' = [suspended EXCEPT ![to] = Front(@)]
      /\ running' = to
      /\ calling' = IF suspended'[to] = << >> THEN "none" ELSE "interrupt"
      /\ UNCHANGED <<gdt, idt, dispatchTable, idtIsLoaded, traps, cause, report, machine>>
  BY DEF Return
<1>2. running \in KernelContexts /\ suspended[running] # << >>
  <2>1. running \in KernelContexts
    BY <1>1, CallingInKernel DEF ProcessorInv
  <2>2. KernelStackInv(running)
    BY <2>1 DEF ProcessorInv, StackInv
  <2> QED BY <1>1, <2>1, <2>2 DEF KernelStackInv
<1>3. to # running /\ to \in Contexts /\ running \in Contexts /\ to \notin KernelContexts
  BY <1>2, ContextFacts
<1>4. suspended[to] = << [at |-> Len(Layout), regs |-> r] >> /\ stack[to] = NewFrame(r)
  BY <1>3 DEF ProcessorInv, StackInv, UserStackInv
<1>5. at = 20 /\ Last(suspended[to]).regs = r /\ Front(suspended[to]) = << >>
  <2> DEFINE e == [at |-> Len(Layout), regs |-> r]
  <2>1. e.at = 20 /\ e.regs = r
    BY LayoutFacts
  <2> HIDE DEF e
  <2>2. Last(<< e >>) = e
    BY DEF Last
  <2>3. Front(<< e >>) = << >>
    <3>1. 1 \in Int /\ 0 \in Int /\ 0 < 1 /\ Len(<< e >>) - 1 = 0
      OBVIOUS
    <3> QED BY <3>1, SubSeqEmpty DEF Front
  <2> QED BY <1>4, <2>1, <2>2, <2>3 DEF e
<1>6. HasTables /\ boot = "idle"
  BY <1>1 DEF ProcessorInv, BootInv, HasTables
<1>7. /\ regs' = [r EXCEPT !.cr2 = regs.cr2] /\ ~ IsKernelInterrupted(stack[to], at)
      /\ r.cs = UserCode /\ r = [n \in RegisterNames |-> r[n]]
  BY <1>1, <1>4, <1>5, LeaveToUser
<1>8. tss' = [tss EXCEPT !.esp0 = [context |-> to, at |-> 0]]
  <2>1. at - Len(Layout) = 0
    BY <1>5, LayoutFacts
  <2> QED BY <1>1, <1>3, <1>7, <2>1 DEF NextTss
<1> HIDE DEF r, at
<1>9. /\ regs' = [n \in RegisterNames |-> regs'[n]] /\ regs'.cs = UserCode
      /\ regs'.cr2 = regs.cr2
  <2>1. "cr2" \in RegisterNames
    BY Names
  <2> QED BY <1>7, <2>1
<1>10. /\ stack' = [c \in Contexts |-> stack'[c]] /\ suspended' = [c \in Contexts |-> suspended'[c]]
       /\ stack'[running] = SubSeq(stack[running], 1, ActiveFrame)
       /\ \A c \in Contexts \ {running, to} : stack'[c] = stack[c]
       /\ \A c \in Contexts \ {to} : suspended'[c] = suspended[c]
       /\ suspended'[to] = << >>
  <2>1. stack = [c \in Contexts |-> stack[c]] /\ suspended = [c \in Contexts |-> suspended[c]]
    BY DEF ProcessorInv, StackInv
  <2>2. suspended' = [suspended EXCEPT ![to] = << >>]
    BY <1>1, <1>5
  <2>3. \E b : stack' = [[stack EXCEPT ![running] = SubSeq(stack[running], 1, ActiveFrame)]
                           EXCEPT ![to] = b]
    BY <1>1, <1>3
  <2> QED BY <1>3, <2>1, <2>2, <2>3
<1>11. calling' = "none"
  BY <1>1, <1>10
<1>12. StackInv'
  <2>1. ASSUME NEW c \in KernelContexts PROVE KernelStackInv(c)'
    <3>1. CASE c = running
      BY <1>1, <1>2, <1>3, <1>10, <3>1, ContextLeft DEF ProcessorInv
    <3>2. CASE c # running
      BY <1>1, <1>3, <1>10, <3>2, ContextKept, ContextFacts DEF ProcessorInv
    <3> QED BY <3>1, <3>2
  <2>2. ASSUME NEW u \in UserThreads PROVE UserStackInv(u)'
    <3>1. CASE u = to
      BY <1>1, <1>10, <1>11, <3>1 DEF UserStackInv
    <3>2. CASE u # to
      <4>1. u # running /\ u \in Contexts
        BY <1>2, ContextFacts
      <4> QED BY <1>1, <1>10, <3>2, <4>1 DEF ProcessorInv, StackInv, UserStackInv
    <3> QED BY <3>1, <3>2
  <2> QED BY <1>1, <1>3, <1>10, <2>1, <2>2 DEF StackInv
<1>13. RegsInv'
  <2>1. running' \notin KernelContexts
    BY <1>1, <1>3
  <2> QED BY <1>6, <1>9, <2>1 DEF RegsInv, HasTables
<1>14. BootInv'
  BY <1>6 DEF BootInv, HasTables, Stages
<1>15. TablesInv'
  BY <1>1, <1>6, <1>8 DEF ProcessorInv, TablesInv, HasTables
<1>16. CauseInv'
  BY <1>1, <1>11 DEF ProcessorInv, CauseInv
<1>17. Resumed
  <2>1. tss'.esp0 = [context |-> to, at |-> 0]
    BY <1>6, <1>8 DEF ProcessorInv, TablesInv
  <2>2. regs'.cs # KernelCode
    BY <1>9, Selectors
  <2>3. regs' = [Last(suspended[running']).regs EXCEPT !.cr2 = regs'.cr2]
    BY <1>1, <1>5, <1>7, <1>9
  <2> QED BY <1>1, <2>1, <2>2, <2>3 DEF Resumed
<1> QED BY <1>1, <1>12, <1>13, <1>14, <1>15, <1>16, <1>17, StillRunning DEF ProcessorInv

LEMMA ReturnToKernel ==
  ASSUME ProcessorInv, NEW to \in KernelContexts, Return(to), UNCHANGED boot
  PROVE  ProcessorInv' /\ Resumed
<1> DEFINE e == Last(suspended[to])
           s == IF to = running THEN SubSeq(stack[to], 1, e.at) ELSE stack[to]
<1>1. /\ machine = "running" /\ calling = "interrupt" /\ suspended[to] # << >>
      /\ regs' = LeaveKernel(stack[to], e.at)
      /\ tss' = IF to = running THEN tss ELSE NextTss(to, e.at)
      /\ stack' = [[stack EXCEPT ![running] = SubSeq(@, 1, ActiveFrame)]
                     EXCEPT ![to] = SubSeq(@, 1, e.at - Len(Layout)
                                                   + IF IsKernelInterrupted(@, e.at) THEN 2 ELSE 0)]
      /\ suspended' = [suspended EXCEPT ![to] = Front(@)]
      /\ running' = to
      /\ calling' = IF suspended'[to] = << >> THEN "none" ELSE "interrupt"
      /\ UNCHANGED <<gdt, idt, dispatchTable, idtIsLoaded, traps, cause, report, machine>>
  BY DEF Return
<1>2. running \in KernelContexts /\ suspended[running] # << >>
  <2>1. running \in KernelContexts
    BY <1>1, CallingInKernel DEF ProcessorInv
  <2>2. KernelStackInv(running)
    BY <2>1 DEF ProcessorInv, StackInv
  <2> QED BY <1>1, <2>1, <2>2 DEF KernelStackInv
<1>3. to \in Contexts /\ running \in Contexts /\ to \notin UserThreads
  BY <1>2, ContextFacts
<1>4. HasTables /\ boot = "idle"
  BY <1>1 DEF ProcessorInv, BootInv, HasTables
<1>5. /\ IsSeq(stack[to]) /\ KernelFrame(stack[to], e)
  BY <1>1, LastFrameOf DEF ProcessorInv
<1>6. Len(stack[to]) \in Nat /\ e.at \in KernelWords .. Len(stack[to])
  BY <1>5 DEF KernelFrame, IsSeq
<1>7. /\ IsSeq(s) /\ Len(s) = e.at /\ KernelFrame(s, e)
      /\ \A k \in 1 .. e.at : s[k] = stack[to][k]
  <2>1. CASE to = running
    <3> DEFINE t == SubSeq(stack[to], 1, e.at)
    <3>1. e.at \in 0 .. Len(stack[to]) /\ e.at \in Nat
      BY <1>6 DEF KernelWords
    <3>2. IsSeq(t) /\ Len(t) = e.at /\ \A k \in 1 .. e.at : t[k] = stack[to][k]
      BY <1>5, <3>1, Shortened
    <3> HIDE DEF t
    <3>3. e.at <= Len(t)
      BY <3>1, <3>2
    <3>4. KernelFrame(t, e)
      BY <1>5, <3>2, <3>3, FrameKept
    <3> QED BY <2>1, <3>2, <3>4 DEF t
  <2>2. CASE to # running
    <3>1. Len(stack[to]) = e.at
      BY <2>2 DEF ProcessorInv, StackInv, KernelStackInv
    <3> QED BY <1>5, <2>2, <3>1
  <2> QED BY <2>1, <2>2
<1>8. IsKernelInterrupted(s, e.at) /\ IsKernelInterrupted(stack[to], e.at)
  BY <1>5, <1>7, KernelFrameFields
<1>9. regs' = [e.regs EXCEPT !.cr2 = regs.cr2]
  BY <1>1, <1>5, LeaveToKernel
<1>10. tss' = tss
  BY <1>1, <1>8 DEF NextTss
<1> DEFINE n == e.at - KernelWords
<1>11. n \in 0 .. Len(s) /\ e.at - Len(Layout) + 2 = n
  <2>1. e.at \in Int /\ 18 <= e.at
    BY <1>6 DEF KernelWords
  <2>2. Len(s) = e.at /\ Len(Layout) = 20
    BY <1>7, LayoutFacts
  <2> HIDE DEF e, s
  <2> QED BY <2>1, <2>2 DEF KernelWords
<1>12. stack = [c \in Contexts |-> stack[c]] /\ suspended = [c \in Contexts |-> suspended[c]]
  BY DEF ProcessorInv, StackInv
<1>13. ActiveFrame = Last(suspended[running]).at
  BY DEF ActiveFrame
<1>14. stack'[to] = SubSeq(s, 1, n)
  <2>1. CASE to = running
    <3> DEFINE t == SubSeq(stack[to], 1, e.at)
    <3>1. s = t /\ ActiveFrame = e.at
      BY <1>13, <2>1
    <3> DEFINE x == [stack EXCEPT ![running] = SubSeq(stack[running], 1, ActiveFrame)]
    <3>2. stack' = [x EXCEPT ![to] =
                      SubSeq(x[to], 1, e.at - Len(Layout)
                                         + IF IsKernelInterrupted(x[to], e.at) THEN 2 ELSE 0)]
      BY <1>1
    <3>3. DOMAIN x = Contexts /\ x[to] = t
      BY <1>3, <1>12, <2>1, <3>1
    <3>4. IsKernelInterrupted(t, e.at)
      BY <1>8, <3>1
    <3> HIDE DEF x, t, s
    <3>5. stack'[to] = SubSeq(t, 1, e.at - Len(Layout) + 2)
      BY <1>3, <3>2, <3>3, <3>4
    <3> QED BY <1>11, <3>1, <3>5
  <2>2. CASE to # running
    <3>1. stack'[to] = SubSeq(stack[to], 1, e.at - Len(Layout)
                                + IF IsKernelInterrupted(stack[to], e.at) THEN 2 ELSE 0)
      BY <1>1, <1>3, <1>12, <2>2
    <3> QED BY <1>8, <1>11, <2>2, <3>1
  <2> QED BY <2>1, <2>2
<1>15. /\ stack' = [c \in Contexts |-> stack'[c]] /\ suspended' = [c \in Contexts |-> suspended'[c]]
       /\ to # running => stack'[running] = SubSeq(stack[running], 1, ActiveFrame)
       /\ \A c \in Contexts \ {running, to} : stack'[c] = stack[c]
       /\ \A c \in Contexts \ {to} : suspended'[c] = suspended[c]
       /\ suspended'[to] = Front(suspended[to])
  <2>1. \E a, b : stack' = [[stack EXCEPT ![running] = a] EXCEPT ![to] = b]
    BY <1>1
  <2>2. to # running => stack'[running] = SubSeq(stack[running], 1, ActiveFrame)
    BY <1>1, <1>3, <1>12
  <2> HIDE DEF e, s, n
  <2> QED BY <1>1, <1>3, <1>12, <2>1, <2>2
<1>16. /\ IsSeq(stack'[to]) /\ Len(stack'[to]) = n
       /\ \A k \in 1 .. n : stack'[to][k] = stack[to][k]
  <2>1. /\ IsSeq(SubSeq(s, 1, n)) /\ Len(SubSeq(s, 1, n)) = n
        /\ \A k \in 1 .. n : SubSeq(s, 1, n)[k] = s[k]
    BY <1>7, <1>11, Shortened
  <2>2. \A k \in 1 .. n : k \in 1 .. e.at
    BY <1>6, <1>7, <1>11 DEF KernelWords
  <2> HIDE DEF n, s
  <2> QED BY <1>7, <1>14, <2>1, <2>2
<1>17. /\ regs' = [r \in RegisterNames |-> regs'[r]] /\ regs'.cr2 = regs.cr2
       /\ regs'.cs = KernelCode /\ regs'.ss = KernelData /\ regs'.esp = Number(n)
  <2>1. /\ e.regs = [r \in RegisterNames |-> e.regs[r]] /\ e.regs.cs = KernelCode
        /\ e.regs.ss = KernelData /\ e.regs.esp = Number(n)
    BY <1>5 DEF KernelFrame
  <2>2. {"cr2", "cs", "ss", "esp"} \subseteq RegisterNames
    BY Names
  <2> HIDE DEF n, e
  <2> QED BY <1>9, <2>1, <2>2
<1>18. StackInv'
  <2>1. ASSUME NEW c \in KernelContexts PROVE KernelStackInv(c)'
    <3>1. CASE c = to
      BY <1>1, <1>15, <1>16, <3>1, ContextResumed DEF ProcessorInv
    <3>2. CASE c = running /\ c # to
      BY <1>1, <1>2, <1>15, <3>2, ContextLeft, ContextFacts DEF ProcessorInv
    <3>3. CASE c # running /\ c # to
      BY <1>1, <1>15, <3>3, ContextKept, ContextFacts DEF ProcessorInv
    <3> QED BY SMTT(40), <3>1, <3>2, <3>3
  <2>2. ASSUME NEW u \in UserThreads PROVE UserStackInv(u)'
    <3>1. u # running /\ u # to /\ u \in Contexts
      BY <1>2, <1>3, ContextFacts
    <3> QED BY <1>1, <1>15, <3>1 DEF ProcessorInv, StackInv, UserStackInv
  <2> QED BY <1>1, <1>3, <1>15, <2>1, <2>2 DEF StackInv
<1>19. RegsInv'
  <2>1. running' = to /\ regs'.esp = Number(Len(stack'[running']))
    BY <1>1, <1>16, <1>17
  <2> HIDE DEF e, s, n
  <2> QED BY <1>3, <1>4, <1>17, <2>1 DEF RegsInv, HasTables
<1>20. BootInv'
  BY <1>4 DEF BootInv, HasTables, Stages
<1>21. TablesInv'
  BY <1>1, <1>4, <1>10 DEF ProcessorInv, TablesInv, HasTables
<1>22. CauseInv'
  <2>1. calling' \in {"none", "interrupt"}
    BY <1>1
  <2> QED BY <1>1, <2>1 DEF ProcessorInv, CauseInv
<1>23. Resumed
  <2>1. regs' = [Last(suspended[running']).regs EXCEPT !.cr2 = regs'.cr2]
    BY <1>1, <1>9, <1>17
  <2>2. regs'.esp = Number(Len(stack'[running'])) /\ regs'.cs # UserCode
    BY ZenonT(40), <1>1, <1>16, <1>17, Selectors
  <2> QED BY <2>1, <2>2 DEF Resumed
<1> QED BY <1>1, <1>18, <1>19, <1>20, <1>21, <1>22, <1>23, StillRunning DEF ProcessorInv

-----------------------------------------------------------------------------
(* The way into the kernel                                                 *)

(* Without tables, or from user mode, there is none.                       *)
LEMMA TrapResets ==
  ASSUME ProcessorInv, MayTrap, UNCHANGED boot,
         NEW s, NEW r, NEW v, NEW assertion, Trap(s, r, v, assertion), IsUser \/ ~ HasTables
  PROVE  ProcessorInv' /\ UNCHANGED <<suspended, running>>
<1>1. machine = "running" /\ calling \in {"none", "interrupt"}
  BY DEF MayTrap
<1>2. IsUser => HasTables
  BY DEF ProcessorInv, RegsInv, IsUser
<1>3. ~ (idtIsLoaded /\ StackIsUsable)
  <2>1. CASE ~ HasTables
    BY <2>1 DEF ProcessorInv, TablesInv
  <2>2. CASE IsUser
    <3>1. tss.ss0 = KernelCode /\ gdt = InitGdt
      BY <1>2, <2>2 DEF ProcessorInv, TablesInv
    <3> QED BY <2>2, <3>1, SegmentsFit DEF StackIsUsable
  <2> QED BY <2>1, <2>2
<1>4. /\ machine' = "reset" /\ (IsUser => cause'.user) /\ cause' # << >>
      /\ UNCHANGED <<tables, report, stack, suspended, regs, running, calling>>
  <2>1. machine' = "reset" /\ UNCHANGED <<tables, report, stack, suspended, regs, running, calling>>
    BY <1>3 DEF Trap
  <2>2. \E e : cause' = [vector |-> v, error |-> e, user |-> IsUser, assertion |-> assertion]
    BY DEF Trap
  <2>3. IsUser => cause'.user
    <3> SUFFICES ASSUME IsUser PROVE cause'.user
      OBVIOUS
    <3>1. PICK e : cause' = [vector |-> v, error |-> e, user |-> IsUser, assertion |-> assertion]
      BY <2>2
    <3>2. IsUser = TRUE
      BY Zenon DEF IsUser
    <3>3. cause' = [vector |-> v, error |-> e, user |-> TRUE, assertion |-> assertion]
      BY <3>1, <3>2, Zenon
    <3> QED BY <3>3
  <2>4. DOMAIN cause' = {"vector", "error", "user", "assertion"}
    BY <2>2
  <2>5. cause' # << >>
    BY <2>4
  <2> QED BY <2>1, <2>3, <2>5
<1> USE <1>4 DEF tables, ProcessorInv
<1>5. StackInv'
  BY SameStacks
<1>6. RegsInv' /\ BootInv' /\ TablesInv'
  BY DEF RegsInv, BootInv, TablesInv, HasTables
<1>7. CauseInv'
  BY <1>1 DEF CauseInv
<1>8. ResetsOnlyUnprepared' /\ ReportTellsTruth'
  BY DEF ResetsOnlyUnprepared, ReportTellsTruth, HasTables
<1> QED BY <1>5, <1>6, <1>7, <1>8

(* The stack when the TrapFrame is complete.                               *)
Made(s, saved, r, v, error) ==
  /\ IsSeq(saved) /\ Len(saved) = Len(s) + KernelWords
  /\ \A k \in 1 .. Len(s) : saved[k] = s[k]
  /\ \A k \in 1 .. KernelWords :
       saved[Len(saved) - k + 1] = FrameWord(r, v, error, Len(s), Layout[k])

(* And what else a Trap does then.                                         *)
Entered(saved, r, v, error, assertion) ==
  /\ cause'.vector = v /\ cause'.assertion = assertion /\ cause' # << >>
  /\ cause'.error = IF v \in HasErrorCode THEN error ELSE Number(0)
  /\ stack' = [stack EXCEPT ![running] =
                 saved \o <<Number(Len(saved)), [argument |-> "this"]>>]
  /\ suspended' = [suspended EXCEPT ![running] = Append(@, [at |-> Len(saved), regs |-> r])]
  /\ regs' = [Registers(ByHandler(traps'), KernelCode, KernelData, FALSE,
                        Number(Len(saved) + 2)) EXCEPT !.cr2 = r.cr2]
  /\ calling' = dispatchTable[v]
  /\ UNCHANGED <<tables, report, running, machine>>

(* Everything is in place for the others.                                  *)
LEMMA TrapEnters ==
  ASSUME ProcessorInv, MayTrap, ~ IsUser, HasTables,
         NEW s, IsSeq(s), NEW r, r.cs = KernelCode, NEW v \in Vectors, NEW assertion,
         Trap(s, r, v, assertion)
  PROVE  \E saved, error :
           Made(s, saved, r, v, error) /\ Entered(saved, r, v, error, assertion)
<1> DEFINE error == [error |-> traps]
           stub  == CHOOSE w \in Vectors : StubAddress[w] = GateOffset(idt[v])
           saved == EnterKernel(Interrupted(s, r, v, error), r, stub)
<1>1. idt = InitIdt /\ gdt = InitGdt /\ idtIsLoaded
  BY DEF ProcessorInv, TablesInv
<1>2. stub = v /\ IsInterruptGate(idt[v]) /\ idt[v].segSelector = KernelCode
  BY <1>1, GateRoundTrip
<1>3. IsCode(gdt[idt[v].segSelector.index], 0)
  BY <1>1, <1>2, SegmentsFit
<1>4. StackIsUsable
  BY DEF StackIsUsable
<1>5. /\ \E u : cause' = [vector |-> v,
                            error |-> IF v \in HasErrorCode THEN error ELSE Number(0),
                            user |-> u, assertion |-> assertion]
      /\ stack' = [stack EXCEPT ![running] =
                     saved \o <<Number(Len(saved)), [argument |-> "this"]>>]
      /\ suspended' = [suspended EXCEPT ![running] =
                         Append(@, [at |-> Len(saved), regs |-> r])]
      /\ regs' = [Registers(ByHandler(traps'), KernelCode, KernelData, FALSE,
                            Number(Len(saved) + 2)) EXCEPT !.cr2 = r.cr2]
      /\ calling' = dispatchTable[Field(saved, Len(saved), "interruptVectorNumber").number]
      /\ UNCHANGED <<tables, report, running, machine>>
  BY <1>1, <1>2, <1>3, <1>4 DEF Trap
<1>6. saved = EnterKernel(Interrupted(s, r, v, error), r, v)
  BY <1>2
<1> HIDE DEF error, stub, saved
<1>7. /\ IsSeq(saved) /\ Len(saved) = Len(s) + KernelWords
      /\ \A k \in 1 .. Len(s) : saved[k] = s[k]
      /\ \A k \in 1 .. KernelWords :
           saved[Len(saved) - k + 1] = FrameWord(r, v, error, Len(s), Layout[k])
  BY <1>6, FrameOfKernel
<1>8. Field(saved, Len(saved), "interruptVectorNumber") = Number(v)
  <2>1. Len(s) \in Nat /\ Len(saved) \in KernelWords .. Len(saved)
    BY <1>7 DEF IsSeq, KernelWords
  <2>2. \E k \in 1 .. KernelWords : Layout[k] = "interruptVectorNumber"
    BY LayoutFacts DEF KernelWords
  <2>3. IsSeq(saved)
    BY <1>7
  <2>4. \E k \in 1 .. KernelWords : /\ Layout[k] = "interruptVectorNumber"
          /\ Field(saved, Len(saved), "interruptVectorNumber") = saved[Len(saved) - k + 1]
    BY ONLY <2>1, <2>2, <2>3, FieldPlace
  <2> QED BY <1>7, <2>4, FrameWords
<1>9. calling' = dispatchTable[v]
  BY <1>5, <1>8 DEF Number
<1>10. /\ cause'.vector = v /\ cause'.assertion = assertion /\ cause' # << >>
       /\ cause'.error = IF v \in HasErrorCode THEN error ELSE Number(0)
  <2>1. DOMAIN cause' = {"vector", "error", "user", "assertion"}
    BY <1>5
  <2> QED BY <1>5, <2>1
<1>11. Made(s, saved, r, v, error)
  BY <1>7 DEF Made
<1>12. Entered(saved, r, v, error, assertion)
  BY ONLY <1>5, <1>9, <1>10 DEF Entered
<1> QED BY <1>11, <1>12


(* What an assert that failed has pushed.                                  *)
AssertionOn(s, assertion) ==
  /\ Len(s) >= 4
  /\ assertion = [message |-> s[Len(s) - 1], file |-> s[Len(s) - 2], line |-> s[Len(s) - 3]]

(* Registers in the kernel, when its stack is s.                           *)
OfKernel(r, s) ==
  /\ r = [n \in RegisterNames |-> r[n]]
  /\ r.cs = KernelCode /\ r.ss = KernelData /\ r.esp = Number(Len(s))

(* A stack goes on where another one ended.                                *)
Continues(s, z) == Len(z) <= Len(s) /\ \A k \in 1 .. Len(z) : s[k] = z[k]

(* The frame that a Trap leaves on the stack.                              *)
LEMMA FrameMade ==
  ASSUME NEW s, IsSeq(s), NEW r, OfKernel(r, s), NEW saved, NEW v, NEW error,
         Made(s, saved, r, v, error)
  PROVE  KernelFrame(saved, [at |-> Len(saved), regs |-> r])
<1> USE DEF OfKernel, Made
<1> DEFINE e == [at |-> Len(saved), regs |-> r]
<1>1. e.at = Len(saved) /\ e.regs = r
  OBVIOUS
<1> HIDE DEF e
<1>2. Len(s) \in Nat /\ Len(saved) \in Nat
  BY DEF IsSeq
<1>3. e.at \in KernelWords .. Len(saved) /\ e.at - KernelWords = Len(s)
  BY <1>1, <1>2 DEF KernelWords
<1>4. ASSUME NEW name \in Plain PROVE FrameWord(r, v, error, Len(s), name) = r[name]
  <2>1. name \notin {"cr2", "esp", "interruptVectorNumber", "errorCode"}
    BY Names
  <2> QED BY <2>1 DEF FrameWord
<1>5. \A k \in 1 .. KernelWords : Layout[k] \in Plain => saved[e.at - k + 1] = e.regs[Layout[k]]
  BY <1>1, <1>4
<1>6. e.regs = [n \in RegisterNames |-> e.regs[n]]
  BY <1>1
<1>7. KernelFrame(saved, e)
  BY <1>1, <1>3, <1>5, <1>6 DEF KernelFrame
<1> QED BY <1>7 DEF e

(* The stack and the frames of the context that is interrupted.            *)
LEMMA ContextTrapped ==
  ASSUME NEW c \in KernelContexts, c = running, StackInv,
         NEW s, IsSeq(s), Continues(s, stack[c]),
         NEW saved, NEW r, NEW v, NEW error, Made(s, saved, r, v, error),
         NEW w, IsSeq(w), NEW e, e.at = Len(saved), KernelFrame(saved, e),
         stack'[c] = saved \o w, suspended'[c] = Append(suspended[c], e),
         running' = running, calling' # "none"
  PROVE  /\ KernelStackInv(c)' /\ KernelFrame(saved \o w, e)
         /\ Last(suspended'[c]) = e /\ Len(suspended'[c]) = Len(suspended[c]) + 1
<1> DEFINE f == suspended[c]
           g == Append(f, e)
           t == saved \o w
           z == stack[c]
<1>1. /\ IsSeq(z) /\ IsSeq(f)
      /\ \A i \in 1 .. Len(f) : KernelFrame(z, f[i])
      /\ \A i, j \in 1 .. Len(f) : i < j => f[i].at <= f[j].at - KernelWords
  BY DEF StackInv, KernelStackInv
<1>2. stack'[c] = t /\ suspended'[c] = g /\ Len(z) <= Len(s)
      /\ \A k \in 1 .. Len(z) : s[k] = z[k]
  BY DEF Continues
<1>13. /\ IsSeq(saved) /\ Len(saved) = Len(s) + KernelWords
      /\ \A k \in 1 .. Len(s) : saved[k] = s[k]
  BY DEF Made
<1>3. /\ IsSeq(t) /\ Len(t) = Len(saved) + Len(w) /\ \A k \in 1 .. Len(saved) : t[k] = saved[k]
  <2>1. IsSeq(saved) /\ IsSeq(w)
    BY <1>13
  <2> QED BY ONLY <2>1, Joined
<1>4. /\ IsSeq(g) /\ Len(g) = Len(f) + 1 /\ \A i \in 1 .. Len(f) : g[i] = f[i]
      /\ g[Len(f) + 1] = e
  <2>1. IsSeq(f)
    BY <1>1
  <2> QED BY ONLY <2>1, Appended
<1> HIDE DEF f, g, t, z
<1>5. Len(z) \in Nat /\ Len(s) \in Nat /\ Len(saved) \in Nat /\ Len(w) \in Nat /\ Len(f) \in Nat
  BY <1>1, <1>13 DEF IsSeq
<1>6. KernelFrame(t, e)
  <2>1. e.at <= Len(t) /\ \A k \in 1 .. e.at : t[k] = saved[k]
    BY <1>3, <1>5
  <2> QED BY <1>3, <1>13, <2>1, FrameKept
<1>7. ASSUME NEW i \in 1 .. Len(f)
      PROVE  KernelFrame(t, f[i]) /\ f[i].at \in Nat /\ f[i].at <= Len(s)
  <2>1. KernelFrame(z, f[i])
    BY <1>1
  <2>2. f[i].at \in Nat /\ f[i].at <= Len(z)
    BY <1>5, <2>1 DEF KernelFrame, KernelWords
  <2>3. f[i].at <= Len(s) /\ f[i].at <= Len(saved) /\ f[i].at <= Len(t)
    BY <1>2, <1>3, <1>13, <1>5, <2>2 DEF KernelWords
  <2>4. \A k \in 1 .. f[i].at : t[k] = z[k]
    <3>1. ASSUME NEW k \in 1 .. f[i].at PROVE t[k] = z[k]
      <4>1. k \in 1 .. Len(z) /\ k \in 1 .. Len(s) /\ k \in 1 .. Len(saved)
        BY SMTT(40), <1>5, <2>2, <2>3
      <4> QED BY <1>2, <1>3, <1>13, <4>1
    <3> QED BY <3>1
  <2> QED BY <1>1, <1>3, <2>1, <2>2, <2>3, <2>4, FrameKept
<1>8. Len(g) \in Nat /\ \A i \in 1 .. Len(g) : i \in 1 .. Len(f) \/ i = Len(f) + 1
  BY <1>4, <1>5
<1>9. \A i \in 1 .. Len(g) : KernelFrame(t, g[i])
  BY <1>4, <1>6, <1>7, <1>8
<1>10. ASSUME NEW i \in 1 .. Len(g), NEW j \in 1 .. Len(g), i < j
       PROVE  g[i].at <= g[j].at - KernelWords
  <2>1. i \in 1 .. Len(f)
    BY <1>4, <1>5, <1>10
  <2>2. CASE j \in 1 .. Len(f)
    BY <1>1, <1>4, <1>10, <2>1, <2>2
  <2>3. CASE j = Len(f) + 1
    <3>1. g[j].at = Len(s) + KernelWords /\ g[i].at \in Nat /\ g[i].at <= Len(s)
      BY <1>4, <1>7, <1>13, <2>1, <2>3
    <3> QED BY <1>5, <3>1 DEF KernelWords
  <2> QED BY <1>8, <2>2, <2>3
<1>11. Last(g) = e
  BY <1>4 DEF Last
<1>12. g # << >>
  BY <1>4, <1>5, NoWords
<1> QED BY <1>2, <1>3, <1>4, <1>6, <1>9, <1>10, <1>11, <1>12 DEF KernelStackInv, f, t


(* What the frame holds of the cause, for the handler on top of it.        *)
LEMMA FrameTells ==
  ASSUME NEW s, IsSeq(s), NEW saved, NEW w, IsSeq(w), NEW r, NEW v, NEW error,
         Made(s, saved, r, v, error)
  PROVE  /\ Field(saved \o w, Len(saved), "interruptVectorNumber") = Number(v)
         /\ Field(saved \o w, Len(saved), "errorCode") =
              IF v \in HasErrorCode THEN error ELSE Number(0)
         /\ Field(saved \o w, Len(saved), "cr2") = IF v = 14 THEN r.cr2 ELSE Number(0)
         /\ Field(saved \o w, Len(saved), "esp") = Number(Len(s) + 5)
         /\ \A assertion :
              AssertionOn(s, assertion) => AssertionInfo(saved \o w, Len(saved)) = assertion
<1> DEFINE t == saved \o w
           at == Len(saved)
<1> USE DEF Made
<1>1. /\ IsSeq(t) /\ Len(t) = Len(saved) + Len(w) /\ \A k \in 1 .. Len(saved) : t[k] = saved[k]
  <2>1. IsSeq(saved) /\ IsSeq(w)
    BY DEF Made
  <2> QED BY ONLY <2>1, Joined
<1>2. Len(s) \in Nat /\ Len(w) \in Nat /\ at \in Nat /\ at = Len(s) + KernelWords
  BY DEF IsSeq
<1>3. /\ \A k \in 1 .. at : t[k] = saved[k]
      /\ \A k \in 1 .. KernelWords :
           saved[at - k + 1] = FrameWord(r, v, error, Len(s), Layout[k])
      /\ Len(t) = at + Len(w)
  BY <1>1
<1> HIDE DEF t, at
<1>4. at \in KernelWords .. Len(t)
  <2>1. Len(t) = at + Len(w)
    BY <1>3
  <2> QED BY ONLY <1>2, <2>1 DEF KernelWords
<1>5. ASSUME NEW name, \E k \in 1 .. KernelWords : Layout[k] = name
      PROVE  Field(t, at, name) = FrameWord(r, v, error, Len(s), name)
  <2>1. \E k \in 1 .. KernelWords : Layout[k] = name /\ Field(t, at, name) = t[at - k + 1]
    BY ONLY SMTT(40), <1>1, <1>4, <1>5, FieldPlace
  <2>2. PICK k \in 1 .. KernelWords : Layout[k] = name /\ Field(t, at, name) = t[at - k + 1]
    BY <2>1
  <2>3. at - k + 1 \in 1 .. at
    <3>1. k \in 1 .. KernelWords
      OBVIOUS
    <3> QED BY ONLY <1>2, <3>1 DEF KernelWords
  <2> QED BY ONLY <1>3, <2>2, <2>3
<1>6. {5, 9, 14, 15} \subseteq 1 .. KernelWords
  BY DEF KernelWords
<1>7. /\ Field(t, at, "cr2") = FrameWord(r, v, error, Len(s), "cr2")
      /\ Field(t, at, "esp") = FrameWord(r, v, error, Len(s), "esp")
      /\ Field(t, at, "interruptVectorNumber") =
           FrameWord(r, v, error, Len(s), "interruptVectorNumber")
      /\ Field(t, at, "errorCode") = FrameWord(r, v, error, Len(s), "errorCode")
  BY SMTT(40), <1>5, <1>6, LayoutFacts
<1>8. ASSUME NEW assertion, AssertionOn(s, assertion) PROVE AssertionInfo(t, at) = assertion
  <2>1. Len(s) >= 4 /\ DOMAIN t = 1 .. Len(t)
    BY <1>1, <1>8 DEF AssertionOn, IsSeq
  <2>2. /\ at - 20 + 1 = Len(s) - 1 /\ at - 21 + 1 = Len(s) - 2 /\ at - 22 + 1 = Len(s) - 3
        /\ {Len(s) - 1, Len(s) - 2, Len(s) - 3} \subseteq 1 .. Len(s)
    BY ONLY <1>2, <2>1 DEF KernelWords
  <2>3. 1 .. Len(s) \subseteq DOMAIN t /\ 1 .. Len(s) \subseteq 1 .. at
    <3>1. Len(t) = at + Len(w)
      BY <1>3
    <3> QED BY ONLY <1>2, <2>1, <3>1 DEF KernelWords
  <2>4. /\ Word(t, at, 20) = s[Len(s) - 1] /\ Word(t, at, 21) = s[Len(s) - 2]
        /\ Word(t, at, 22) = s[Len(s) - 3]
    BY ZenonT(40), <1>3, <2>2, <2>3 DEF Word
  <2>5. Len(Layout) = 20 /\ 20 + 1 = 21 /\ 20 + 2 = 22
    BY LayoutFacts
  <2>6. AssertionInfo(t, at) = [message |-> s[Len(s) - 1], file |-> s[Len(s) - 2],
                                line |-> s[Len(s) - 3]]
    BY <2>4, <2>5 DEF AssertionInfo
  <2> QED BY <1>8, <2>6 DEF AssertionOn
<1> QED BY <1>7, <1>8, FrameWords DEF t, at

(* Any way into the kernel from the kernel keeps the invariant.            *)
LEMMA TrapOfKernel ==
  ASSUME ProcessorInv, MayTrap, ~ IsUser, HasTables, UNCHANGED boot,
         NEW s, IsSeq(s), Continues(s, stack[running]), NEW r, OfKernel(r, s),
         NEW v \in Vectors, v \in 32 .. 47 => boot = "idle",
         NEW assertion, IF v = 3 THEN AssertionOn(s, assertion) ELSE assertion = << >>,
         Trap(s, r, v, assertion)
  PROVE  /\ ProcessorInv' /\ running' = running
         /\ Len(suspended'[running]) = Len(suspended[running]) + 1
<1>1. machine = "running" /\ calling \in {"none", "interrupt"}
  BY DEF MayTrap
<1>2. running \in KernelContexts
  <2>1. running \notin UserThreads
    BY Selectors DEF ProcessorInv, RegsInv, IsUser, UserCode, SegmentSelector
  <2> QED BY <2>1, ContextFacts DEF ProcessorInv, StackInv
<1>3. PICK saved, error : Made(s, saved, r, v, error) /\ Entered(saved, r, v, error, assertion)
  BY TrapEnters DEF OfKernel
<1> DEFINE e == [at |-> Len(saved), regs |-> r]
           u == <<Number(Len(saved)), [argument |-> "this"]>>
<1>4. IsSeq(u) /\ Len(u) = 2
  BY TwoWords
<1>5. e.at = Len(saved) /\ e.regs = r
  OBVIOUS
<1>6. KernelFrame(saved, e)
  BY <1>3, FrameMade
<1> HIDE DEF e, u
<1>7. /\ stack = [c \in Contexts |-> stack[c]] /\ suspended = [c \in Contexts |-> suspended[c]]
      /\ running \in Contexts
  BY DEF ProcessorInv, StackInv
<1>8. /\ stack' = [stack EXCEPT ![running] = saved \o u]
      /\ suspended' = [suspended EXCEPT ![running] = Append(suspended[running], e)]
      /\ running' = running /\ machine' = "running" /\ UNCHANGED <<tables, report>>
  BY <1>1, <1>3 DEF Entered, e, u
<1>9. /\ stack' = [c \in Contexts |-> stack'[c]] /\ suspended' = [c \in Contexts |-> suspended'[c]]
      /\ stack'[running] = saved \o u /\ suspended'[running] = Append(suspended[running], e)
      /\ \A c \in Contexts \ {running} : stack'[c] = stack[c] /\ suspended'[c] = suspended[c]
  BY <1>7, <1>8
<1>10. /\ calling' = dispatchTable[v]
       /\ calling' \in {"default", "deliverable", "unrecoverable", "interrupt"}
       /\ calling' = "default" => boot \in {"translate", "kmain"}
       /\ calling' = "interrupt" => boot = "idle"
       /\ calling' = "deliverable" => v \in Deliverable
       /\ calling' = "unrecoverable" => v \notin Deliverable
  <2>1. boot \in {"translate", "kmain", "exceptions", "interrupts", "idle"}
    BY DEF ProcessorInv, BootInv, Stages, HasTables
  <2>2. v \in 32 .. 47 \/ v \in Vectors \ (32 .. 47)
    OBVIOUS
  <2>3. CASE boot \in {"translate", "kmain"}
    BY <1>3, <2>3 DEF Entered, ProcessorInv, TablesInv
  <2>4. CASE boot \notin {"translate", "kmain"} /\ v \in Vectors \ (32 .. 47)
    <3>1. calling' = IF v \in Deliverable THEN "deliverable" ELSE "unrecoverable"
      BY <1>3, <2>1, <2>4 DEF Entered, ProcessorInv, TablesInv
    <3> QED BY <1>3, <2>4, <3>1 DEF Entered
  <2>5. CASE boot \notin {"translate", "kmain"} /\ v \in 32 .. 47
    <3>1. boot = "idle" /\ calling' = "interrupt"
      BY <1>3, <2>5 DEF Entered, ProcessorInv, TablesInv
    <3> QED BY <1>3, <2>5, <3>1 DEF Entered
  <2> QED BY <2>2, <2>3, <2>4, <2>5
<1>11. /\ KernelStackInv(running)' /\ KernelFrame(saved \o u, e)
       /\ Last(suspended'[running]) = e
       /\ Len(suspended'[running]) = Len(suspended[running]) + 1
  <2>1. PICK c \in KernelContexts : c = running
    BY <1>2
  <2>2. stack'[c] = saved \o u /\ suspended'[c] = Append(suspended[c], e)
        /\ running' = running /\ calling' # "none" /\ Continues(s, stack[c]) /\ StackInv
    BY <1>8, <1>9, <1>10, <2>1 DEF ProcessorInv
  <2>3. Made(s, saved, r, v, error) /\ IsSeq(s)
    BY <1>3
  <2>4. KernelStackInv(c)' /\ KernelFrame(saved \o u, e) /\ Last(suspended'[c]) = e
        /\ Len(suspended'[c]) = Len(suspended[c]) + 1
    BY ONLY <1>4, <1>5, <1>6, <2>1, <2>2, <2>3, ContextTrapped
  <2> QED BY <1>8, <2>1, <2>4 DEF KernelStackInv
<1>12. StackInv'
  <2>1. ASSUME NEW c \in KernelContexts PROVE KernelStackInv(c)'
    <3>1. CASE c = running
      BY <1>11, <3>1, <1>8 DEF KernelStackInv
    <3>2. CASE c # running
      <4>1. c \in Contexts
        BY ContextFacts
      <4> QED BY <1>8, <1>9, <3>2, <4>1, ContextKept DEF ProcessorInv
    <3> QED BY <3>1, <3>2
  <2>2. ASSUME NEW u0 \in UserThreads PROVE UserStackInv(u0)'
    <3>1. u0 # running /\ u0 \in Contexts
      BY <1>2, ContextFacts
    <3> QED BY <1>8, <1>9, <3>1 DEF ProcessorInv, StackInv, UserStackInv
  <2> QED BY <1>7, <1>8, <1>9, <2>1, <2>2 DEF StackInv
<1>13. /\ regs' = [n \in RegisterNames |-> regs'[n]]
       /\ regs'.cs = KernelCode /\ regs'.ss = KernelData /\ regs'.esp = Number(Len(saved) + 2)
       /\ regs'.eflags = [by |-> ByHandler(traps'), interruptFlag |-> FALSE]
  <2> DEFINE q == Registers(ByHandler(traps'), KernelCode, KernelData, FALSE,
                            Number(Len(saved) + 2))
  <2>1. regs' = [q EXCEPT !.cr2 = r.cr2]
    BY <1>3 DEF Entered
  <2>2. /\ q = [n \in RegisterNames |-> q[n]] /\ q.cs = KernelCode /\ q.ss = KernelData
        /\ q.esp = Number(Len(saved) + 2)
        /\ q.eflags = [by |-> ByHandler(traps'), interruptFlag |-> FALSE]
    <3>1. /\ {"cs", "ss", "esp", "eflags"} \subseteq RegisterNames /\ "ss" \in DataSegs
          /\ "cs" \notin DataSegs /\ "esp" \notin DataSegs /\ "eflags" \notin DataSegs
      BY Names DEF DataSegs
    <3> QED BY <3>1 DEF Registers
  <2>3. {"cs", "ss", "esp", "eflags", "cr2"} \subseteq RegisterNames
    BY Names
  <2> HIDE DEF q
  <2> QED BY ONLY <2>1, <2>2, <2>3
<1>14. Len(saved \o u) = Len(saved) + 2
  <2>1. IsSeq(saved) /\ IsSeq(u)
    BY <1>3, <1>4 DEF Made
  <2>2. Len(saved \o u) = Len(saved) + Len(u)
    BY ONLY <2>1, Joined
  <2> QED BY <1>4, <2>2
<1>15. RegsInv'
  <2>1. running' \notin UserThreads /\ running' \in KernelContexts
    BY <1>2, <1>8, ContextFacts
  <2>2. regs'.esp = Number(Len(stack'[running']))
    BY <1>8, <1>9, <1>13, <1>14
  <2> QED BY <1>13, <2>1, <2>2 DEF RegsInv, HasTables
<1>16. BootInv'
  <2>1. ~ regs'.eflags.interruptFlag
    BY <1>13
  <2> QED BY <1>8, <1>10, <2>1 DEF ProcessorInv, BootInv, HasTables
<1>17. TablesInv'
  BY <1>8 DEF ProcessorInv, TablesInv, HasTables, tables
<1>18. ASSUME calling' \in {"deliverable", "unrecoverable"} PROVE ToldTruth'
  <2> DEFINE t == saved \o u
  <2>1. /\ Field(t, Len(saved), "interruptVectorNumber") = Number(v)
        /\ Field(t, Len(saved), "errorCode") = IF v \in HasErrorCode THEN error ELSE Number(0)
        /\ Field(t, Len(saved), "cr2") = IF v = 14 THEN r.cr2 ELSE Number(0)
        /\ Field(t, Len(saved), "esp") = Number(Len(s) + 5)
        /\ \A a : AssertionOn(s, a) => AssertionInfo(t, Len(saved)) = a
    BY <1>3, <1>4, FrameTells
  <2>2. cause'.vector = v /\ cause'.assertion = assertion
        /\ cause'.error = IF v \in HasErrorCode THEN error ELSE Number(0)
    BY <1>3 DEF Entered
  <2>3. stack'[running'] = t /\ Last(suspended'[running']) = e
    BY <1>8, <1>9, <1>11
  <2>4. r.esp.number + 5 = Len(s) + 5
    BY SMTT(40) DEF OfKernel, Number
  <2> HIDE DEF t
  <2>5. assertion = IF calling' = "deliverable" /\ v = 3
                      THEN AssertionInfo(t, Len(saved)) ELSE << >>
    <3>1. CASE v = 3
      <4>1. calling' = "deliverable"
        BY <1>10, <1>18, <3>1 DEF Deliverable
      <4>2. AssertionOn(s, assertion)
        BY <3>1
      <4>3. AssertionInfo(t, Len(saved)) = assertion
        BY <2>1, <4>2
      <4> QED BY <3>1, <4>1, <4>3
    <3>2. CASE v # 3
      BY <3>2
    <3> QED BY <3>1, <3>2
  <2>6. /\ Field(t, e.at, "interruptVectorNumber") = Number(cause'.vector)
        /\ Field(t, e.at, "errorCode") = cause'.error
        /\ Field(t, e.at, "cr2") = IF cause'.vector = 14 THEN e.regs.cr2 ELSE Number(0)
        /\ Field(t, e.at, "esp") = Number(e.regs.esp.number + 5)
    BY <1>5, <2>1, <2>2, <2>4
  <2>7. cause'.assertion = IF calling' = "deliverable" /\ cause'.vector = 3
                             THEN AssertionInfo(t, e.at) ELSE << >>
    BY <1>5, <2>2, <2>5
  <2> QED BY ONLY <2>3, <2>6, <2>7 DEF ToldTruth
<1>19. CauseInv'
  <2>1. cause' # << >>
    BY <1>3 DEF Entered
  <2>2. report' = << >>
    BY <1>1, <1>8 DEF ProcessorInv, CauseInv
  <2>3. boot' = boot
    OBVIOUS
  <2> QED BY ONLY <1>10, <1>18, <2>1, <2>2, <2>3 DEF CauseInv
<1> QED BY <1>8, <1>11, <1>12, <1>15, <1>16, <1>17, <1>19, StillRunning DEF ProcessorInv


(* A step that resumes nobody.                                             *)
NoneResumed == ~ (Len(suspended'[running']) < Len(suspended[running']))

LEMMA FramesCounted ==
  ASSUME StackInv, NEW c \in Contexts
  PROVE  Len(suspended[c]) \in Nat
<1>1. CASE c \in KernelContexts
  BY <1>1 DEF StackInv, KernelStackInv, IsSeq
<1>2. CASE c \in UserThreads
  <2>1. Len(<< >>) \in Nat /\ Len(<< [at |-> Len(Layout), regs |-> NewThread(c)] >>) \in Nat
    OBVIOUS
  <2> QED BY <1>2, <2>1 DEF StackInv, UserStackInv
<1> QED BY <1>1, <1>2, ContextFacts

LEMMA SameFrames ==
  ASSUME StackInv, UNCHANGED <<suspended, running>>
  PROVE  NoneResumed
<1>1. Len(suspended[running]) \in Nat
  BY FramesCounted DEF StackInv
<1> QED BY <1>1 DEF NoneResumed

LEMMA RegistersOfKernel ==
  ASSUME ProcessorInv, HasTables, ~ IsUser
  PROVE  /\ running \in KernelContexts /\ OfKernel(regs, stack[running])
         /\ IsSeq(stack[running]) /\ Continues(stack[running], stack[running])
<1>1. running \in KernelContexts
  <2>1. running \notin UserThreads
    BY Selectors DEF ProcessorInv, RegsInv, IsUser
  <2> QED BY <2>1, ContextFacts DEF ProcessorInv, StackInv
<1>2. IsSeq(stack[running])
  BY <1>1 DEF ProcessorInv, StackInv, KernelStackInv
<1>3. OfKernel(regs, stack[running])
  BY <1>1 DEF ProcessorInv, RegsInv, OfKernel
<1>4. Continues(stack[running], stack[running])
  BY <1>2 DEF Continues, IsSeq
<1> QED BY <1>1, <1>2, <1>3, <1>4

(* Interrupts and exceptions that come to the code as it is.               *)
LEMMA TrapStep ==
  ASSUME ProcessorInv, MayTrap, UNCHANGED boot,
         NEW v \in Vectors, v # 3, v \in 32 .. 47 => boot = "idle",
         Trap(KernelStack, regs, v, << >>)
  PROVE  ProcessorInv' /\ NoneResumed
<1>1. StackInv /\ Len(suspended[running]) \in Nat
  BY FramesCounted DEF ProcessorInv, StackInv
<1>2. CASE IsUser \/ ~ HasTables
  BY <1>1, <1>2, TrapResets, SameFrames
<1>3. CASE ~ IsUser /\ HasTables
  <2>1. /\ running \in KernelContexts /\ OfKernel(regs, stack[running])
        /\ IsSeq(stack[running]) /\ Continues(stack[running], stack[running])
    BY <1>3, RegistersOfKernel
  <2> DEFINE s == stack[running]
  <2>2. Trap(s, regs, v, << >>)
    BY <1>3 DEF KernelStack
  <2>3. ProcessorInv' /\ running' = running
        /\ Len(suspended'[running]) = Len(suspended[running]) + 1
    BY <1>3, <2>1, <2>2, TrapOfKernel
  <2> QED BY <1>1, <2>3 DEF NoneResumed
<1> QED BY <1>2, <1>3

LEMMA DeviceInterruptStep ==
  ASSUME ProcessorInv, DeviceInterrupt, UNCHANGED boot
  PROVE  ProcessorInv' /\ NoneResumed
<1>1. PICK v \in Lines : Trap(KernelStack, regs, v, << >>)
  BY SMTT(40) DEF DeviceInterrupt
<1>2. v \in Vectors /\ v # 3
  BY ProcessorAssumption DEF Vectors
<1>3. boot = "idle"
  BY DEF DeviceInterrupt, ProcessorInv, BootInv
<1>4. MayTrap
  BY DEF DeviceInterrupt
<1> QED BY <1>1, <1>2, <1>3, <1>4, TrapStep

LEMMA ExceptionStep ==
  ASSUME ProcessorInv, Exception, UNCHANGED boot
  PROVE  ProcessorInv' /\ NoneResumed
<1>1. PICK v \in Exceptions : Trap(KernelStack, regs, v, << >>)
  BY SMTT(40) DEF Exception
<1>2. v \in Vectors /\ v # 3 /\ v \notin 32 .. 47
  BY ProcessorAssumption DEF Vectors
<1>3. MayTrap
  BY DEF Exception
<1> QED BY <1>1, <1>2, <1>3, TrapStep

LEMMA FailedAssertStep ==
  ASSUME ProcessorInv, NEW assertion \in Assertions, FailedAssert(assertion),
         UNCHANGED boot
  PROVE  ProcessorInv' /\ NoneResumed
<1> DEFINE w == <<assertion.line, assertion.file, assertion.message, Value("eip", "assertion")>>
           s == stack[running] \o w
           r == [regs EXCEPT !.esp = Number(Len(s)),
                             !.eip = Value("eip", "KDebug_triggerDebugTrap")]
<1>1. MayTrap /\ ~ IsUser /\ Trap(s, r, 3, assertion)
  BY DEF FailedAssert
<1>2. CASE ~ HasTables
  <2> HIDE DEF s, r
  <2>1. ProcessorInv' /\ UNCHANGED <<suspended, running>>
    BY <1>1, <1>2, TrapResets
  <2> QED BY <2>1, SameFrames DEF ProcessorInv
<1>3. CASE HasTables
  <2> DEFINE z == stack[running]
  <2>1. running \in KernelContexts /\ OfKernel(regs, z) /\ IsSeq(z)
    BY <1>1, <1>3, RegistersOfKernel
  <2>2. /\ IsSeq(w) /\ Len(w) = 4 /\ w[1] = assertion.line /\ w[2] = assertion.file
        /\ w[3] = assertion.message
    BY FourWords
  <2>3. s = z \o w
    OBVIOUS
  <2>4. r = [regs EXCEPT !.esp = Number(Len(s)), !.eip = Value("eip", "KDebug_triggerDebugTrap")]
    OBVIOUS
  <2> HIDE DEF w, z, r, s
  <2>5. /\ IsSeq(z \o w) /\ Len(z \o w) = Len(z) + Len(w)
        /\ \A k \in 1 .. Len(z) : (z \o w)[k] = z[k]
        /\ \A k \in 1 .. Len(w) : (z \o w)[Len(z) + k] = w[k]
    <3>1. IsSeq(z) /\ IsSeq(w)
      BY <2>1, <2>2
    <3> QED BY ONLY <3>1, Joined
  <2>6. /\ IsSeq(s) /\ Len(s) = Len(z) + 4 /\ \A k \in 1 .. Len(z) : s[k] = z[k]
        /\ s[Len(z) + 1] = assertion.line /\ s[Len(z) + 2] = assertion.file
        /\ s[Len(z) + 3] = assertion.message
    BY <2>2, <2>3, <2>5
  <2>7. Len(z) \in Nat
    BY <2>1 DEF IsSeq
  <2>8. Continues(s, z)
    BY <2>6, <2>7 DEF Continues
  <2>9. AssertionOn(s, assertion)
    <3>1. Len(s) - 1 = Len(z) + 3 /\ Len(s) - 2 = Len(z) + 2 /\ Len(s) - 3 = Len(z) + 1
          /\ Len(s) >= 4
      BY <2>6, <2>7
    <3>2. assertion = [message |-> assertion.message, file |-> assertion.file,
                       line |-> assertion.line]
      BY AssertionAssumption
    <3> QED BY <2>6, <3>1, <3>2 DEF AssertionOn
  <2>10. OfKernel(r, s)
    <3>1. {"cs", "ss", "esp", "eip"} \subseteq RegisterNames
      BY Names
    <3> DEFINE x == Number(Len(s))
               y == Value("eip", "KDebug_triggerDebugTrap")
               q == [regs EXCEPT !.esp = x]
    <3>2. regs = [n \in RegisterNames |-> regs[n]] /\ regs.cs = KernelCode /\ regs.ss = KernelData
      BY <2>1 DEF OfKernel
    <3>3. r = [q EXCEPT !.eip = y]
      BY <2>4
    <3> HIDE DEF x, y
    <3>4. q = [n \in RegisterNames |-> q[n]] /\ q.cs = KernelCode /\ q.ss = KernelData /\ q.esp = x
      BY ONLY <3>1, <3>2
    <3> HIDE DEF q
    <3>5. r = [n \in RegisterNames |-> r[n]] /\ r.cs = KernelCode /\ r.ss = KernelData /\ r.esp = x
      BY ONLY <3>1, <3>3, <3>4
    <3> QED BY <3>5 DEF OfKernel, x
  <2>11. 3 \in Vectors /\ 3 \notin 32 .. 47
    BY DEF Vectors
  <2>12. ProcessorInv' /\ running' = running
         /\ Len(suspended'[running]) = Len(suspended[running]) + 1
    <3>1. IsSeq(s) /\ Continues(s, stack[running]) /\ Trap(s, r, 3, assertion)
      BY <1>1, <2>6, <2>8 DEF z, s, r, w
    <3>2. /\ IF 3 = 3 THEN AssertionOn(s, assertion) ELSE assertion = << >>
          /\ 3 \in 32 .. 47 => boot = "idle"
      BY <2>9, <2>11
    <3> QED BY ONLY <1>1, <1>3, <2>10, <2>11, <3>1, <3>2, ProcessorInv, UNCHANGED boot,
                    TrapOfKernel
  <2>13. Len(suspended[running]) \in Nat
    BY FramesCounted DEF ProcessorInv, StackInv
  <2> QED BY <2>12, <2>13 DEF NoneResumed
<1> QED BY <1>2, <1>3


(* Each step of the kernel, of whatever asserts, exceptions and devices.   *)
LEMMA NextKeepsInv ==
  ASSUME ProcessorInv, Next
  PROVE  ProcessorInv' /\ (NoneResumed \/ Resumed)
<1>1. StackInv
  BY DEF ProcessorInv
<1>2. CASE CallInitPrimary
  <2>1. UNCHANGED <<suspended, running>>
    BY <1>2 DEF CallInitPrimary, InitPrimary
  <2> QED BY <1>1, <1>2, <2>1, InitPrimaryStep, SameFrames
<1>3. CASE CallTranslate
  <2>1. UNCHANGED <<suspended, running>>
    BY <1>3 DEF CallTranslate, processorVars
  <2> QED BY <1>1, <1>3, <2>1, CallTranslateStep, SameFrames
<1>4. CASE InitExceptionDispatcher
  <2>1. UNCHANGED <<suspended, running>>
    BY <1>4 DEF InitExceptionDispatcher, RegisterExceptionHandlers, OnlyTables
  <2> QED BY <1>1, <1>4, <2>1, InitExceptionDispatcherStep, SameFrames
<1>5. CASE InitInterruptDispatcher
  <2>1. UNCHANGED <<suspended, running>>
    BY <1>5 DEF InitInterruptDispatcher, RegisterInterruptHandlers, OnlyTables
  <2> QED BY <1>1, <1>5, <2>1, InitInterruptDispatcherStep, SameFrames
<1>6. CASE CheckBootInfo
  <2>1. UNCHANGED <<suspended, running>>
    BY <1>6 DEF CheckBootInfo, SetInterruptFlag
  <2> QED BY <1>1, <1>6, <2>1, CheckBootInfoStep, SameFrames
<1>7. CASE Traps
  <2>1. UNCHANGED boot
    BY <1>7 DEF Traps
  <2>2. CASE DeviceInterrupt
    BY <2>1, <2>2, DeviceInterruptStep
  <2>3. CASE Exception
    BY <2>1, <2>3, ExceptionStep
  <2>4. CASE \E assertion \in Assertions : FailedAssert(assertion)
    BY <2>1, <2>4, FailedAssertStep
  <2> QED BY <1>7, <2>2, <2>3, <2>4 DEF Traps
<1>8. CASE Handlers
  <2>1. UNCHANGED boot
    BY <1>8 DEF Handlers
  <2>2. CASE DefaultHandler
    <3>1. UNCHANGED <<suspended, running>>
      BY <2>2 DEF DefaultHandler
    <3> QED BY <1>1, <2>1, <2>2, <3>1, DefaultHandlerStep, SameFrames
  <2>3. CASE ExceptionHandler
    <3>1. UNCHANGED <<suspended, running>>
      BY <2>3 DEF ExceptionHandler
    <3> QED BY <1>1, <2>1, <2>3, <3>1, ExceptionHandlerStep, SameFrames
  <2>4. CASE HandlerSetsInterruptFlag
    <3>1. PICK enabled \in BOOLEAN : SetInterruptFlag(enabled)
      BY <2>4 DEF HandlerSetsInterruptFlag
    <3>2. UNCHANGED <<suspended, running>>
      BY <3>1 DEF SetInterruptFlag
    <3>3. boot = "idle" /\ boot \in Stages
      BY <2>4 DEF HandlerSetsInterruptFlag, ProcessorInv, BootInv
    <3>4. ProcessorInv'
      BY <2>1, <3>1, <3>3, InterruptFlagStep
    <3> QED BY <1>1, <3>2, <3>4, SameFrames
  <2>5. CASE \E to \in Contexts : Return(to)
    BY <2>1, <2>5, ReturnToUser, ReturnToKernel, ContextFacts
  <2> QED BY <1>8, <2>2, <2>3, <2>4, <2>5 DEF Handlers
<1> QED BY <1>2, <1>3, <1>4, <1>5, <1>6, <1>7, <1>8 DEF Next

(* Whatever interrupts, exceptions, asserts and switches of contexts come  *)
(* one upon the other: the frames on each stack are whole and apart, the   *)
(* tables are those of Processor_initPrimary(), and the handler called is  *)
(* that of the vector.                                                     *)
THEOREM ProcessorInvariant == Spec => []ProcessorInv
<1>1. Init => ProcessorInv
  BY InitProcessor
<1>2. ProcessorInv /\ [Next]_vars => ProcessorInv'
  BY NextKeepsInv, ProcessorStutters DEF vars
<1> QED BY <1>1, <1>2, PTL DEF Spec

(* The machine is reset only by what comes before kmain() has registered   *)
(* its handlers, while information is translated or before, or in user     *)
(* mode: what comes in the kernel from then on is handled.                 *)
THEOREM ResetsOnlyUnpreparedAlways == Spec => []ResetsOnlyUnprepared
<1>1. ProcessorInv => ResetsOnlyUnprepared
  BY DEF ProcessorInv
<1> QED BY <1>1, ProcessorInvariant, PTL

(* The report of a failure names the exception that there was, the         *)
(* registers of the code that raised it, and the assert that failed.       *)
THEOREM ReportTellsTruthAlways == Spec => []ReportTellsTruth
<1>1. ProcessorInv => ReportTellsTruth
  BY DEF ProcessorInv
<1> QED BY <1>1, ProcessorInvariant, PTL

(* A context goes on with the registers that it was interrupted with, its  *)
(* stack as it was then, and, in user mode, its own kernel stack.          *)
THEOREM ResumesAsInterruptedAlways == Spec => ResumesAsInterrupted
<1> DEFINE Resumes == Len(suspended'[running']) < Len(suspended[running']) =>
       /\ regs' = [Last(suspended[running']).regs EXCEPT !.cr2 = regs'.cr2]
       /\ regs'.cs = KernelCode => regs'.esp = Number(Len(stack'[running']))
       /\ regs'.cs = UserCode => tss'.esp0 = [context |-> running', at |-> 0]
<1>1. ProcessorInv /\ [Next]_vars => [Resumes]_processorVars
  <2>1. ProcessorInv /\ Next => Resumes
    BY NextKeepsInv DEF NoneResumed, Resumed
  <2>2. UNCHANGED vars => UNCHANGED processorVars
    BY DEF vars
  <2> HIDE DEF Resumes
  <2> QED BY <2>1, <2>2
<1> QED BY <1>1, ProcessorInvariant, PTL DEF Spec, ResumesAsInterrupted
-----------------------------------------------------------------------------
(* The translator                                                          *)

MapSteps  == {"magic", "info", "commandLine", "memMap", "modules", "moduleNames"}
CopySteps == {"copyInfo", "copyMemMap", "copyModules", "copyNames", "copyCommandLine",
              "publish"}

(* Where a string is mapped.                                               *)
Mapped(s) == IF s = 0 THEN 0 ELSE s + VirtualBase

TranslatorTypes ==
  /\ step \in MapSteps \cup CopySteps \cup {"done"} /\ loader \in Loaders
  /\ result = "none" <=> step # "done"
  /\ result \in {"none", "NULL", "info"}
  /\ index \in Nat \ {0}
  /\ touched \in Int /\ touched < KernelEnd
  /\ mbInfo = [commandLine |-> mbInfo.commandLine, mmapAddr |-> mbInfo.mmapAddr,
               modsAddr |-> mbInfo.modsAddr]
  /\ copy = [commandLine |-> copy.commandLine, mmapAddr |-> copy.mmapAddr,
             modsAddr |-> copy.modsAddr]
  /\ DOMAIN space = Offsets

(* The pointers that have been followed so far point to what is mapped,    *)
(* and have been changed in place; the others are as they were.            *)
CommandLineInv ==
  IF step \in {"magic", "info", "commandLine"}
    THEN mbInfo.commandLine = loader.commandLine
    ELSE StringIsMapped(CommandLine) /\ mbInfo.commandLine = Mapped(CommandLine)

MemMapInv ==
  IF step \in {"magic", "info", "commandLine", "memMap"}
    THEN mbInfo.mmapAddr = loader.mmapAddr
    ELSE IF loader.memMapPresent
      THEN IsMapped(loader.mmapAddr, loader.mmapLength)
             /\ mbInfo.mmapAddr = loader.mmapAddr + VirtualBase
      ELSE mbInfo.mmapAddr = 0

ModulesInv ==
  IF step \in MapSteps \ {"moduleNames"}
    THEN mbInfo.modsAddr = loader.modsAddr
    ELSE IF loader.modulesPresent
      THEN IsMapped(loader.modsAddr, Len(ModuleNames) * ModuleSize)
             /\ mbInfo.modsAddr = loader.modsAddr + VirtualBase
      ELSE mbInfo.modsAddr = 0 /\ step # "moduleNames"

(* The number of modules with names that have been mapped.                 *)
NamesMapped ==
  IF step \in CopySteps THEN Len(ModuleNames) ELSE IF step = "moduleNames" THEN index - 1 ELSE 0

ModuleNamesInv ==
  /\ modStrings \in Seq(Nat) /\ Len(modStrings) = Len(loader.modStrings)
  /\ NamesMapped \in 0 .. Len(ModuleNames)
  /\ \A m \in 1 .. Len(ModuleNames) :
       IF m <= NamesMapped
         THEN StringIsMapped(ModuleNames[m]) /\ modStrings[m] = Mapped(ModuleNames[m])
         ELSE modStrings[m] = ModuleNames[m]

MapInv ==
  step # "done" =>
    /\ step # "magic" => loader.isMultiboot
    /\ step \notin {"magic", "info"} => IsMapped(loader.address, InfoSize)
    /\ CommandLineInv /\ MemMapInv /\ ModulesInv /\ ModuleNamesInv

(* The parts that have been copied so far.                                 *)
NamesCopied ==
  IF step \in {"copyCommandLine", "publish"} THEN Len(ModuleNames)
  ELSE IF step = "copyNames" THEN index - 1 ELSE 0

SpaceUsed ==
  (IF step = "copyInfo" THEN 0 ELSE Rounded(InfoSize))
    + (IF step \in {"copyInfo", "copyMemMap"} THEN 0 ELSE MemMapSpace)
    + (IF step \in {"copyInfo", "copyMemMap", "copyModules"} THEN 0 ELSE ModulesSpace)
    + StringsSpace(ModuleNames)[NamesCopied]
    + (IF step = "publish" THEN StringSpace(CommandLine) ELSE 0)

DestInv ==
  /\ NamesCopied \in 0 .. Len(ModuleNames)
  /\ dest \in Nat /\ IsAligned(dest, Alignment)
  /\ dest = SpaceAddress + SpaceUsed /\ dest <= SpaceAddress + SpaceSize

(* A part is in the buffer, with nothing more to be copied over it.        *)
HeldIn(buffer, end, pointer, original, size) ==
  /\ pointer \in Nat /\ SpaceAddress <= pointer /\ pointer + size <= end
  /\ \A k \in 0 .. size - 1 : buffer[pointer + k - SpaceAddress] = original + k

StringHeldIn(buffer, end, pointer, original) ==
  IF original = 0 THEN pointer = 0
                  ELSE HeldIn(buffer, end, pointer, original, Strings[original] + 1)

CopiedMemMapInv ==
  IF step = "copyMemMap"
    THEN copy.mmapAddr = mbInfo.mmapAddr
    ELSE IF loader.memMapPresent
      THEN HeldIn(space, dest, copy.mmapAddr, loader.mmapAddr, loader.mmapLength)
      ELSE copy.mmapAddr = 0

CopiedModulesInv ==
  IF step \in {"copyMemMap", "copyModules"}
    THEN copy.modsAddr = mbInfo.modsAddr /\ copiedModStrings = << >>
    ELSE /\ IF loader.modulesPresent
              THEN HeldIn(space, dest, copy.modsAddr, loader.modsAddr,
                          Len(ModuleNames) * ModuleSize)
              ELSE copy.modsAddr = 0 /\ step # "copyNames"
         /\ copiedModStrings \in Seq(Nat) /\ Len(copiedModStrings) = Len(ModuleNames)
         /\ \A m \in 1 .. Len(ModuleNames) :
              IF m <= NamesCopied
                THEN StringHeldIn(space, dest, copiedModStrings[m], ModuleNames[m])
                ELSE copiedModStrings[m] = Mapped(ModuleNames[m])

CopiedLineInv ==
  IF step = "publish"
    THEN StringHeldIn(space, dest, copy.commandLine, CommandLine)
    ELSE copy.commandLine = mbInfo.commandLine

CopyInv ==
  IF step \in CopySteps
    THEN /\ DestInv
         /\ step # "copyInfo" =>
              /\ HeldIn(space, dest, SpaceAddress, loader.address, InfoSize)
              /\ CopiedMemMapInv /\ CopiedModulesInv /\ CopiedLineInv
         /\ step = "copyInfo" => copiedModStrings = << >>
    ELSE step # "done" => dest = SpaceAddress /\ copiedModStrings = << >>

TranslatorInv ==
  /\ TranslatorTypes /\ MapInv /\ CopyInv
  /\ InfoAsLoaded /\ FailsOnlyForCause
-----------------------------------------------------------------------------
(* Arithmetic of alignment, for every alignment and every space.           *)

LEMMA Sizes ==
  /\ KernelEnd \in Nat /\ VirtualBase \in Nat /\ KernelEnd <= VirtualBase
  /\ 0 < KernelEnd /\ 0 < Alignment /\ 0 < InfoSize /\ 0 < ModuleSize
  /\ InfoSize \in Nat /\ ModuleSize \in Nat /\ Alignment \in Nat
  /\ SpaceAddress \in Nat /\ VirtualBase < SpaceAddress /\ SpaceSize \in Nat
  /\ IsAligned(SpaceAddress, Alignment) /\ IsAligned(SpaceSize, Alignment)
BY TranslatorAssumption

(* Dividing by the alignment.                                              *)
LEMMA AlignDivMod ==
  ASSUME NEW v \in Nat
  PROVE  \E q \in Nat, r \in 0 .. Alignment - 1 :
           v = Alignment * q + r /\ r = v % Alignment
<1>1. Alignment \in Nat /\ Alignment > 0
  BY Sizes
<1>2. /\ v = Alignment * (v \div Alignment) + (v % Alignment)
      /\ v % Alignment \in 0 .. Alignment - 1 /\ v \div Alignment \in Nat
  BY <1>1
<1> QED BY <1>2

LEMMA Multiples ==
  ASSUME NEW p \in Nat, NEW q \in Nat
  PROVE  /\ Alignment * p \in Nat
         /\ Alignment * (p + 1) = Alignment * p + Alignment
         /\ Alignment * (p + q) = Alignment * p + Alignment * q
         /\ p <= q => Alignment * p <= Alignment * q
BY Sizes

LEMMA AlignUnique ==
  ASSUME NEW p \in Nat, NEW q \in Nat, NEW r \in 0 .. Alignment - 1, NEW s \in 0 .. Alignment - 1,
         Alignment * p + r = Alignment * q + s
  PROVE  p = q /\ r = s
<1>1. Alignment \in Nat /\ Alignment > 0
  BY Sizes
<1>2. ASSUME NEW a \in Nat, NEW b \in Nat, NEW t \in 0 .. Alignment - 1,
             NEW u \in 0 .. Alignment - 1, Alignment * a + t = Alignment * b + u, a < b
      PROVE  FALSE
  <2>1. Alignment * (a + 1) = Alignment * a + Alignment /\ Alignment * (a + 1) <= Alignment * b
    BY <1>2, Multiples
  <2>2. Alignment * a \in Nat /\ Alignment * b \in Nat
    BY Multiples
  <2> QED BY ONLY <1>1, <1>2, <2>1, <2>2
<1>3. ~ (p < q) /\ ~ (q < p)
  BY <1>2
<1>4. p = q
  BY <1>3
<1>5. Alignment * p \in Nat
  BY Multiples
<1> QED BY <1>1, <1>4, <1>5

(* Aligned is what is a multiple of the alignment.                         *)
LEMMA AlignedMultiple ==
  ASSUME NEW v \in Nat
  PROVE  IsAligned(v, Alignment) <=> \E q \in Nat : v = Alignment * q
<1>1. PICK q \in Nat, r \in 0 .. Alignment - 1 : v = Alignment * q + r /\ r = v % Alignment
  BY AlignDivMod
<1>2. Alignment \in Nat /\ Alignment > 0 /\ Alignment * q \in Nat
  BY Sizes, Multiples
<1>3. IsAligned(v, Alignment) <=> r = 0
  BY <1>1, <1>2 DEF IsAligned
<1>4. ASSUME NEW p \in Nat, v = Alignment * p PROVE r = 0
  <2>1. Alignment * p + 0 = Alignment * q + r /\ 0 \in 0 .. Alignment - 1
    BY <1>1, <1>2, <1>4, Multiples
  <2> QED BY <2>1, AlignUnique
<1>5. r = 0 => v = Alignment * q
  BY <1>1, <1>2
<1> QED BY <1>3, <1>4, <1>5

(* Rounding up goes to the next multiple, if that does not wrap.           *)
LEMMA RoundsUp ==
  ASSUME NEW v \in Nat, v + Alignment < Wrap
  PROVE  \E q \in Nat :
           /\ MakeAligned(v, Alignment, Wrap) = Alignment * q
           /\ v <= Alignment * q
           /\ \A p \in Nat : v <= Alignment * p => q <= p
<1>1. PICK q \in Nat, r \in 0 .. Alignment - 1 : v = Alignment * q + r /\ r = v % Alignment
  BY AlignDivMod
<1>2. /\ Alignment \in Nat /\ Alignment > 0 /\ Alignment * q \in Nat
      /\ Alignment * (q + 1) = Alignment * q + Alignment
  BY Sizes, Multiples
<1>3. IsAligned(v, Alignment) <=> r = 0
  BY <1>1, <1>2 DEF IsAligned
<1>4. Wrap \in Nat
  BY Sizes DEF Wrap
<1>5. ASSUME NEW p \in Nat, v <= Alignment * p PROVE q <= p /\ (r # 0 => q + 1 <= p)
  <2>1. ASSUME p < q PROVE FALSE
    <3>0. p + 1 \in Nat /\ p + 1 <= q
      BY <2>1
    <3>1. Alignment * (p + 1) = Alignment * p + Alignment /\ Alignment * (p + 1) <= Alignment * q
      BY <3>0, Multiples
    <3>2. Alignment * p \in Nat
      BY Multiples
    <3> QED BY ONLY <3>1, <3>2, <1>1, <1>2, <1>5
  <2>2. ASSUME p = q, r # 0 PROVE FALSE
    BY ONLY <2>2, <1>1, <1>2, <1>5
  <2> QED BY <2>1, <2>2
<1>6. CASE r = 0
  <2>1. MakeAligned(v, Alignment, Wrap) = Alignment * q /\ v <= Alignment * q
    BY <1>1, <1>2, <1>3, <1>6 DEF MakeAligned
  <2> QED BY <2>1, <1>5
<1>7. CASE r # 0
  <2>1. v + Alignment - r = Alignment * (q + 1) /\ v <= Alignment * (q + 1)
    BY ONLY <1>1, <1>2, <1>7
  <2>2. v + Alignment - r \in 0 .. Wrap - 1
    BY ONLY <1>1, <1>2, <1>4, <1>7, v + Alignment < Wrap, v \in Nat
  <2>3. (v + Alignment - r) % Wrap = v + Alignment - r
    <3> DEFINE w == v + Alignment - r
    <3> HIDE DEF w
    <3>1. w \in 0 .. Wrap - 1 => w % Wrap = w
      BY <1>4
    <3> QED BY <2>2, <3>1 DEF w
  <2>4. MakeAligned(v, Alignment, Wrap) = Alignment * (q + 1)
    BY <1>1, <1>3, <1>7, <2>1, <2>3 DEF MakeAligned
  <2>5. \A p \in Nat : v <= Alignment * p => q + 1 <= p
    BY <1>5, <1>7
  <2>6. q + 1 \in Nat
    OBVIOUS
  <2> QED BY <2>1, <2>4, <2>5, <2>6
<1> QED BY <1>6, <1>7

(* Nothing wraps where parts of what is mapped are copied into the space.  *)
LEMMA NothingWraps ==
  ASSUME NEW v \in Nat, v <= SpaceAddress + SpaceSize
  PROVE  v + Alignment < Wrap
<1>1. Alignment <= SpaceAddress
  <2>1. PICK q \in Nat : SpaceAddress = Alignment * q
    BY Sizes, AlignedMultiple
  <2>2. q # 0
    BY <2>1, Sizes
  <2>3. 1 \in Nat /\ 1 <= q /\ Alignment * 1 = Alignment
    BY <2>2, Sizes
  <2>4. Alignment * 1 <= Alignment * q
    BY <2>3, Multiples
  <2> QED BY <2>1, <2>3, <2>4
<1>2. Wrap = 2 * (VirtualBase + SpaceAddress + SpaceSize) /\ 0 < VirtualBase
  BY Sizes DEF Wrap
<1> QED BY <1>1, <1>2, Sizes

(* The size of a part of the copy, rounded, and where the next one begins. *)
LEMMA RoundedSize ==
  ASSUME NEW size \in Nat, size <= KernelEnd
  PROVE  Rounded(size) \in Nat /\ size <= Rounded(size)
<1>1. size + Alignment < Wrap
  BY NothingWraps, Sizes
<1>2. PICK q \in Nat : Rounded(size) = Alignment * q /\ size <= Alignment * q
  BY <1>1, RoundsUp DEF Rounded
<1> QED BY <1>2, Multiples

LEMMA RoundedPlace ==
  ASSUME NEW place \in Nat, NEW size \in Nat, IsAligned(place, Alignment), size <= KernelEnd
  PROVE  /\ place + Rounded(size) <= SpaceAddress + SpaceSize
              <=> place + size <= SpaceAddress + SpaceSize
         /\ place + size <= SpaceAddress + SpaceSize =>
              /\ MakeAligned(place + size, Alignment, Wrap) = place + Rounded(size)
              /\ IsAligned(place + Rounded(size), Alignment)
<1> DEFINE limit == SpaceAddress + SpaceSize
<1>1. size + Alignment < Wrap
  BY NothingWraps, Sizes
<1>2. PICK q \in Nat : /\ Rounded(size) = Alignment * q /\ size <= Alignment * q
                       /\ \A p \in Nat : size <= Alignment * p => q <= p
  BY <1>1, RoundsUp DEF Rounded
<1>3. PICK d \in Nat : place = Alignment * d
  BY AlignedMultiple
<1>4. PICK n \in Nat : limit = Alignment * n
  <2>1. PICK a \in Nat, b \in Nat : SpaceAddress = Alignment * a /\ SpaceSize = Alignment * b
    BY AlignedMultiple, Sizes
  <2>2. Alignment * (a + b) = Alignment * a + Alignment * b /\ a + b \in Nat
    BY Multiples
  <2> QED BY <2>1, <2>2
<1>5. Alignment * d \in Nat /\ Alignment * q \in Nat /\ Alignment * n \in Nat
  BY Multiples
<1>6. Alignment * (d + q) = Alignment * d + Alignment * q
  BY Multiples
<1>7. ASSUME NEW p \in Nat, place + size <= Alignment * p PROVE d + q <= p
  <2>1. d <= p
    <3> SUFFICES ASSUME p < d PROVE FALSE
      OBVIOUS
    <3>0. p + 1 \in Nat /\ p + 1 <= d
      OBVIOUS
    <3>1. Alignment * (p + 1) = Alignment * p + Alignment /\ Alignment * (p + 1) <= Alignment * d
      BY <3>0, Multiples
    <3>2. Alignment * p \in Nat
      BY Multiples
    <3> QED BY <3>1, <3>2, <1>3, <1>5, <1>7, Sizes
  <2>2. p - d \in Nat /\ d + (p - d) = p
    BY <2>1
  <2>3. Alignment * (d + (p - d)) = Alignment * d + Alignment * (p - d)
    BY <2>2, Multiples
  <2>4. Alignment * (p - d) \in Nat
    BY <2>2, Multiples
  <2>5. size <= Alignment * (p - d)
    BY <2>2, <2>3, <2>4, <1>3, <1>5, <1>7
  <2> QED BY <2>2, <2>5, <1>2
<1>8. ASSUME place + size <= limit
      PROVE  /\ place + Rounded(size) <= limit
             /\ MakeAligned(place + size, Alignment, Wrap) = place + Rounded(size)
             /\ IsAligned(place + Rounded(size), Alignment)
  <2>1. d + q <= n
    BY <1>4, <1>7, <1>8
  <2>2. Alignment * (d + q) <= Alignment * n /\ d + q \in Nat
    BY <2>1, Multiples
  <2>3. place + size + Alignment < Wrap
    BY <1>8, NothingWraps
  <2>4. PICK m \in Nat : /\ MakeAligned(place + size, Alignment, Wrap) = Alignment * m
                         /\ place + size <= Alignment * m
                         /\ \A p \in Nat : place + size <= Alignment * p => m <= p
    BY <2>3, RoundsUp
  <2>5. d + q <= m
    BY <2>4, <1>7
  <2>6. place + size <= Alignment * (d + q)
    BY <1>2, <1>3, <1>5, <1>6
  <2>7. m <= d + q
    BY <2>2, <2>4, <2>6
  <2>8. m = d + q
    BY <2>5, <2>7
  <2>9. place + Rounded(size) = Alignment * (d + q)
    BY <1>2, <1>3, <1>6
  <2>10. IsAligned(Alignment * (d + q), Alignment)
    BY <2>2, Multiples, AlignedMultiple
  <2> QED BY <2>2, <2>4, <2>8, <2>9, <2>10, <1>4
<1>9. place + Rounded(size) <= limit => place + size <= limit
  BY <1>2, <1>5, <1>4
<1> QED BY <1>8, <1>9
-----------------------------------------------------------------------------
(* Sums over the strings of the modules.                                   *)

(* A nonempty set of small naturals has a minimum.                         *)
LEMMA LeastExists ==
  ASSUME NEW n \in Nat, NEW S \in SUBSET (0 .. n), S # {}
  PROVE  \E x \in S : \A y \in S : x <= y
<1> DEFINE U == 0 .. n
           T == {0 .. x : x \in S}
<1>1. IsFiniteSet(U)
  BY FS_Interval
<1>2. IsWellFoundedOn(StrictSubsetOrdering(U), FiniteSubsetsOf(U))
  BY FS_StrictSubsetOrderingWellFounded
<1>3. T \subseteq FiniteSubsetsOf(U) /\ T # {}
  <2>1. ASSUME NEW x \in S PROVE 0 .. x \in FiniteSubsetsOf(U)
    <3>1. 0 .. x \in SUBSET U
      OBVIOUS
    <3>2. IsFiniteSet(0 .. x)
      BY <1>1, <3>1, FS_Subset
    <3> QED BY <3>1, <3>2 DEF FiniteSubsetsOf
  <2> HIDE DEF U
  <2> QED BY <2>1
<1>4. PICK t \in T : \A s \in T : <<s, t>> \notin StrictSubsetOrdering(U)
  <2> HIDE DEF T, U
  <2> QED BY <1>2, <1>3, WFMin
<1>5. PICK x \in S : t = 0 .. x
  BY <1>4
<1>6. \A y \in S : x <= y
  <2> SUFFICES ASSUME NEW y \in S, y < x PROVE FALSE
    OBVIOUS
  <2>1. (0 .. y) \subseteq (0 .. x) /\ x \in 0 .. x /\ x \notin 0 .. y
    OBVIOUS
  <2>2. <<0 .. y, 0 .. x>> \in StrictSubsetOrdering(U)
    BY <2>1 DEF StrictSubsetOrdering
  <2> QED BY <2>2, <1>4, <1>5
<1> QED BY <1>6

(* Induction, up to a bound and over a set.                                *)
LEMMA SetInduction ==
  ASSUME NEW n \in Nat, NEW S, 0 \in S, \A k \in 0 .. n - 1 : k \in S => k + 1 \in S
  PROVE  0 .. n \subseteq S
<1> DEFINE U == (0 .. n) \ S
<1> SUFFICES ASSUME U # {} PROVE FALSE
  OBVIOUS
<1>1. PICK x \in U : \A y \in U : x <= y
  <2>1. U \in SUBSET (0 .. n)
    OBVIOUS
  <2> HIDE DEF U
  <2> QED BY <2>1, LeastExists
<1>2. x \in 1 .. n /\ x \notin S
  BY <1>1
<1>3. x - 1 \in 0 .. n - 1 /\ x - 1 \notin U
  BY <1>1, <1>2
<1>4. x - 1 \in S
  BY <1>3
<1>5. (x - 1) + 1 \in S
  BY <1>3, <1>4
<1> QED BY <1>2, <1>5

(* A sum over a sequence, as the recursive function computes it.           *)
IsSum(f, n, a) == f = [k \in 0 .. n |-> IF k = 0 THEN 0 ELSE f[k - 1] + a[k]]

LEMMA SumExists ==
  ASSUME NEW n \in Nat, NEW a
  PROVE  \E f : IsSum(f, n, a)
<1> DEFINE S == {m \in 0 .. n : \E f : IsSum(f, m, a)}
<1>1. 0 \in S
  <2>1. IsSum([k \in 0 .. 0 |-> 0], 0, a)
    BY DEF IsSum
  <2> QED BY <2>1
<1>2. ASSUME NEW m \in 0 .. n - 1, m \in S PROVE m + 1 \in S
  <2>1. PICK f : IsSum(f, m, a)
    BY <1>2
  <2> DEFINE g == [k \in 0 .. m + 1 |-> IF k = m + 1 THEN f[m] + a[m + 1] ELSE f[k]]
  <2>2. ASSUME NEW k \in 0 .. m + 1
        PROVE  g[k] = IF k = 0 THEN 0 ELSE g[k - 1] + a[k]
    <3>1. CASE k = m + 1
      <4>1. k # 0 /\ k - 1 = m /\ m \in 0 .. m + 1 /\ m # m + 1
        BY <3>1
      <4> QED BY <3>1, <4>1
    <3>2. CASE k = 0
      <4>1. 0 \in 0 .. m /\ 0 # m + 1
        OBVIOUS
      <4>2. f[0] = 0
        BY <2>1, <4>1 DEF IsSum
      <4> QED BY <3>2, <4>1, <4>2
    <3>3. CASE k \in 1 .. m
      <4>1. k \in 0 .. m /\ k # 0 /\ k - 1 \in 0 .. m + 1 /\ k - 1 # m + 1 /\ k # m + 1
        BY <3>3
      <4>2. f[k] = f[k - 1] + a[k]
        BY <2>1, <4>1 DEF IsSum
      <4> QED BY <4>1, <4>2
    <3> QED BY <3>1, <3>2, <3>3
  <2>3. g = [k \in 0 .. m + 1 |-> IF k = 0 THEN 0 ELSE g[k - 1] + a[k]]
    BY <2>2
  <2>4. IsSum(g, m + 1, a)
    BY <2>3 DEF IsSum
  <2> QED BY <2>4
<1>3. n \in S
  <2> HIDE DEF S
  <2> QED BY <1>1, <1>2, SetInduction
<1> QED BY <1>3

LEMMA SumValues ==
  ASSUME NEW n \in Nat, NEW a, NEW f, IsSum(f, n, a), \A k \in 1 .. n : a[k] \in Nat
  PROVE  /\ f[0] = 0
         /\ \A k \in 1 .. n : f[k] = f[k - 1] + a[k]
         /\ \A k \in 0 .. n : f[k] \in Nat
         /\ \A k \in 0 .. n : f[k] <= f[n]
<1>1. f[0] = 0 /\ \A k \in 1 .. n : f[k] = f[k - 1] + a[k]
  BY DEF IsSum
<1>2. \A k \in 0 .. n : f[k] \in Nat
  <2> DEFINE S == {k \in 0 .. n : f[k] \in Nat}
  <2>1. 0 \in S
    BY <1>1
  <2>2. ASSUME NEW k \in 0 .. n - 1, k \in S PROVE k + 1 \in S
    <3>1. k + 1 \in 1 .. n /\ (k + 1) - 1 = k
      OBVIOUS
    <3>2. f[k + 1] = f[k] + a[k + 1] /\ a[k + 1] \in Nat /\ f[k] \in Nat
      BY <1>1, <3>1, <2>2
    <3> QED BY <3>1, <3>2
  <2>3. 0 .. n \subseteq S
    <3> HIDE DEF S
    <3> QED BY <2>1, <2>2, SetInduction
  <2> QED BY <2>3
<1>3. \A k \in 0 .. n : f[k] <= f[n]
  <2> DEFINE S == {k \in 0 .. n : f[n - k] <= f[n]}
  <2>1. 0 \in S
    <3>1. n - 0 = n /\ n \in 0 .. n /\ f[n] \in Nat
      BY <1>2
    <3> QED BY <3>1
  <2>2. ASSUME NEW k \in 0 .. n - 1, k \in S PROVE k + 1 \in S
    <3>1. n - k \in 1 .. n /\ n - (k + 1) = (n - k) - 1 /\ n - (k + 1) \in 0 .. n
          /\ n - k \in 0 .. n /\ n \in 0 .. n /\ k + 1 \in 0 .. n
      OBVIOUS
    <3>2. f[n - k] = f[n - (k + 1)] + a[n - k] /\ a[n - k] \in Nat
      BY <1>1, <3>1
    <3>3. f[n - k] \in Nat /\ f[n - (k + 1)] \in Nat /\ f[n] \in Nat
      BY <1>2, <3>1
    <3>4. f[n - k] <= f[n]
      BY <2>2
    <3>5. f[n - (k + 1)] <= f[n]
      BY ONLY <3>2, <3>3, <3>4
    <3> QED BY <3>1, <3>5
  <2>3. 0 .. n \subseteq S
    <3> HIDE DEF S
    <3> QED BY <2>1, <2>2, SetInduction
  <2>4. ASSUME NEW k \in 0 .. n PROVE f[k] <= f[n]
    <3>1. n - k \in S /\ n - (n - k) = k
      BY <2>3
    <3> QED BY <3>1
  <2> QED BY <2>4
<1> QED BY <1>1, <1>2, <1>3

(* What the strings need, one after the other.                             *)
LEMMA StringsSpaceValues ==
  ASSUME NEW strings, Len(strings) \in Nat,
         \A k \in 1 .. Len(strings) : StringSpace(strings[k]) \in Nat
  PROVE  LET f == StringsSpace(strings) IN
         /\ f[0] = 0
         /\ \A k \in 1 .. Len(strings) : f[k] = f[k - 1] + StringSpace(strings[k])
         /\ \A k \in 0 .. Len(strings) : f[k] \in Nat
         /\ \A k \in 0 .. Len(strings) : f[k] <= f[Len(strings)]
<1> DEFINE n == Len(strings)
           f == StringsSpace(strings)
           a == [k \in 1 .. n |-> StringSpace(strings[k])]
           Step(g) == g = [k \in 0 .. n |-> IF k = 0 THEN 0 ELSE g[k - 1] + StringSpace(strings[k])]
<1>1. ASSUME NEW g PROVE IsSum(g, n, a) <=> Step(g)
  <2>1. \A k \in 0 .. n : k # 0 => a[k] = StringSpace(strings[k])
    OBVIOUS
  <2> HIDE DEF a
  <2>2. [k \in 0 .. n |-> IF k = 0 THEN 0 ELSE g[k - 1] + a[k]]
          = [k \in 0 .. n |-> IF k = 0 THEN 0 ELSE g[k - 1] + StringSpace(strings[k])]
    BY <2>1
  <2> QED BY <2>2 DEF IsSum
<1>2. PICK g : IsSum(g, n, a)
  BY SumExists
<1>3. Step(g)
  BY <1>1, <1>2
<1>4. Step(f)
  <2>1. f = CHOOSE h : Step(h)
    BY DEF StringsSpace
  <2> HIDE DEF Step, f
  <2> QED BY <1>3, <2>1
<1>5. IsSum(f, n, a)
  BY <1>1, <1>4
<1>6. \A k \in 1 .. n : a[k] \in Nat /\ a[k] = StringSpace(strings[k])
  OBVIOUS
<1> HIDE DEF a, f
<1>7. /\ f[0] = 0
      /\ \A k \in 1 .. n : f[k] = f[k - 1] + a[k]
      /\ \A k \in 0 .. n : f[k] \in Nat
      /\ \A k \in 0 .. n : f[k] <= f[n]
  BY <1>5, <1>6, SumValues
<1> QED BY <1>6, <1>7 DEF f
-----------------------------------------------------------------------------
(* What loaders may leave.                                                 *)

LEMMA StringFacts ==
  ASSUME NEW s \in DOMAIN Strings
  PROVE  s \in Nat /\ s # 0 /\ Strings[s] \in Nat
BY TranslatorAssumption

LEMMA LoaderFacts ==
  ASSUME loader \in Loaders
  PROVE  /\ loader.address \in Nat
         /\ loader.mmapAddr \in Nat /\ loader.mmapLength \in Nat /\ loader.modsAddr \in Nat
         /\ loader.memMapPresent \in BOOLEAN /\ loader.modulesPresent \in BOOLEAN
         /\ CommandLine \in {0} \cup DOMAIN Strings
         /\ loader.modStrings \in Seq({0} \cup DOMAIN Strings)
         /\ Len(ModuleNames) \in Nat
         /\ \A m \in 1 .. Len(ModuleNames) : ModuleNames[m] \in {0} \cup DOMAIN Strings
<1>1. LoaderInfo(loader)
  BY TranslatorAssumption
<1>2. CommandLine \in {0} \cup DOMAIN Strings
  BY <1>1 DEF LoaderInfo, CommandLine
<1>3. loader.modStrings \in Seq({0} \cup DOMAIN Strings)
  BY <1>1 DEF LoaderInfo
<1>4. ModuleNames \in Seq({0} \cup DOMAIN Strings)
  <2>1. << >> \in Seq({0} \cup DOMAIN Strings)
    BY EmptySeq
  <2> QED BY <1>3, <2>1 DEF ModuleNames
<1>5. Len(ModuleNames) \in Nat
  BY <1>4, LenProperties
<1>6. \A m \in 1 .. Len(ModuleNames) : ModuleNames[m] \in {0} \cup DOMAIN Strings
  BY <1>4, ElementOfSeq
<1>7. loader.memMapPresent \in BOOLEAN /\ loader.modulesPresent \in BOOLEAN
  BY <1>1 DEF LoaderInfo
<1>8. /\ loader.address \in Nat
      /\ loader.mmapAddr \in Nat /\ loader.mmapLength \in Nat /\ loader.modsAddr \in Nat
  BY <1>1 DEF LoaderInfo
<1> QED BY <1>2, <1>3, <1>5, <1>6, <1>7, <1>8

(* What is needed depends on what the loader left only.                    *)
LEMMA SameLoader ==
  ASSUME loader' = loader
  PROVE  /\ CommandLine' = CommandLine /\ ModuleNames' = ModuleNames
         /\ IsReadable' <=> IsReadable
         /\ SpaceNeeded' = SpaceNeeded
         /\ MemMapSpace' = MemMapSpace /\ ModulesSpace' = ModulesSpace
<1>1. CommandLine' = CommandLine /\ ModuleNames' = ModuleNames
  BY DEF CommandLine, ModuleNames
<1>2. MemMapSpace' = MemMapSpace /\ ModulesSpace' = ModulesSpace
  BY <1>1 DEF MemMapSpace, ModulesSpace
<1>3. SpaceNeeded' = SpaceNeeded
  BY <1>1, <1>2 DEF SpaceNeeded
<1>4. IsReadable' <=> IsReadable
  BY <1>1 DEF IsReadable
<1> QED BY <1>1, <1>2, <1>3, <1>4
-----------------------------------------------------------------------------
(* Mapping                                                                 *)

LEMMA MaxBelow ==
  ASSUME NEW T, NEW top \in T, \A y \in T : y \in Int /\ y < KernelEnd /\ top >= y
  PROVE  Max(T) \in Int /\ Max(T) < KernelEnd
<1>1. Max(T) \in T
  BY DEF Max
<1> QED BY <1>1

(* Reading what is mapped leaves the highest address read in bounds.       *)
LEMMA TouchedBelow ==
  ASSUME NEW a \in Int, NEW b \in Int, NEW c \in Int, a < KernelEnd, b < KernelEnd, c < KernelEnd
  PROVE  /\ Max({a} \cup {c}) \in Int /\ Max({a} \cup {c}) < KernelEnd
         /\ Max({a, b} \cup {c}) \in Int /\ Max({a, b} \cup {c}) < KernelEnd
<1>1. Max({a} \cup {c}) \in Int /\ Max({a} \cup {c}) < KernelEnd
  <2>1. PICK top \in {a} \cup {c} : top >= a /\ top >= c
    OBVIOUS
  <2> QED BY <2>1, MaxBelow
<1>2. Max({a, b} \cup {c}) \in Int /\ Max({a, b} \cup {c}) < KernelEnd
  <2>1. PICK top \in {a, b} \cup {c} : top >= a /\ top >= b /\ top >= c
    OBVIOUS
  <2> QED BY <2>1, MaxBelow
<1> QED BY <1>1, <1>2

(* A string is read as far as it is mapped, and mapped if all of it is.    *)
LEMMA MapStringResult ==
  ASSUME NEW s \in DOMAIN Strings
  PROVE  /\ MapString(s).last \in Int /\ MapString(s).last < KernelEnd
         /\ IF StringIsMapped(s) THEN MapString(s).address = Mapped(s)
                                 ELSE MapString(s).address = 0
         /\ Mapped(s) # 0
<1>1. s \in Nat /\ s # 0 /\ Strings[s] \in Nat /\ KernelEnd \in Nat /\ VirtualBase \in Nat
      /\ 0 < KernelEnd
  BY StringFacts, Sizes
<1>2. StringIsMapped(s) <=> s + Strings[s] < KernelEnd
  BY <1>1 DEF StringIsMapped, IsMapped
<1> QED BY <1>1, <1>2 DEF MapString, Mapped
-----------------------------------------------------------------------------
(* The steps of translate(), one by one.  Giving up needs a cause, and     *)
(* going on needs the rest of the invariant only.                          *)

LEMMA GivesUp ==
  ASSUME TranslatorInv, loader' = loader, step' = "done", result' = "NULL",
         index' \in Nat \ {0}, touched' \in Int, touched' < KernelEnd,
         mbInfo' = mbInfo, copy' = copy, space' = space,
         ~ (loader.isMultiboot /\ IsReadable /\ SpaceNeeded <= SpaceSize)
  PROVE  TranslatorInv'
<1>1. TranslatorTypes'
  BY DEF TranslatorInv, TranslatorTypes
<1>2. MapInv'
  BY DEF MapInv
<1>3. CopyInv'
  BY DEF CopyInv, CopySteps
<1>4. InfoAsLoaded'
  BY DEF InfoAsLoaded
<1>5. FailsOnlyForCause'
  <2>1. (IsReadable' <=> IsReadable) /\ SpaceNeeded' = SpaceNeeded
    BY SameLoader
  <2>2. ~ (loader.isMultiboot /\ IsReadable /\ SpaceNeeded <= SpaceSize)'
    BY <2>1
  <2> QED BY <2>2 DEF FailsOnlyForCause
<1> QED BY <1>1, <1>2, <1>3, <1>4, <1>5 DEF TranslatorInv

LEMMA GoesOn ==
  ASSUME TranslatorInv, step # "done", step' \in MapSteps \cup CopySteps, loader' = loader,
         result' = result, index' \in Nat \ {0}, touched' \in Int, touched' < KernelEnd,
         mbInfo' = [commandLine |-> mbInfo'.commandLine, mmapAddr |-> mbInfo'.mmapAddr,
                    modsAddr |-> mbInfo'.modsAddr],
         copy' = [commandLine |-> copy'.commandLine, mmapAddr |-> copy'.mmapAddr,
                  modsAddr |-> copy'.modsAddr],
         DOMAIN space' = Offsets, MapInv', CopyInv'
  PROVE  TranslatorInv'
<1>1. step' # "done"
  BY DEF MapSteps, CopySteps
<1>2. result' = "none"
  BY DEF TranslatorInv, TranslatorTypes
<1>3. TranslatorTypes'
  BY <1>1, <1>2 DEF TranslatorInv, TranslatorTypes
<1>4. InfoAsLoaded'
  BY <1>2 DEF InfoAsLoaded
<1>5. FailsOnlyForCause'
  BY <1>1 DEF FailsOnlyForCause
<1> QED BY <1>3, <1>4, <1>5 DEF TranslatorInv

LEMMA CheckMagicKeeps ==
  ASSUME TranslatorInv, CheckMagic
  PROVE  TranslatorInv'
<1> USE DEF CheckMagic
<1>1. index' \in Nat \ {0} /\ touched' \in Int /\ touched' < KernelEnd /\ loader' = loader
      /\ mbInfo' = mbInfo /\ copy' = copy /\ space' = space
  BY DEF TranslatorInv, TranslatorTypes, MapUnchanged, Fail
<1>2. CASE loader.isMultiboot
  <2>1. step' = "info" /\ result' = result /\ modStrings' = modStrings /\ dest' = dest
        /\ copiedModStrings' = copiedModStrings
    BY <1>2 DEF MapUnchanged
  <2>2. MapInv'
    BY <1>1, <1>2, <2>1, SameLoader
       DEF TranslatorInv, MapInv, CommandLineInv, MemMapInv, ModulesInv, ModuleNamesInv,
           NamesMapped, MapSteps, CopySteps
  <2>3. CopyInv'
    BY <2>1 DEF TranslatorInv, CopyInv, CopySteps
  <2> QED BY <1>1, <2>1, <2>2, <2>3, GoesOn DEF TranslatorInv, TranslatorTypes, MapSteps
<1>3. CASE ~ loader.isMultiboot
  BY <1>1, <1>3, GivesUp DEF Fail
<1> QED BY <1>2, <1>3

LEMMA MapInfoKeeps ==
  ASSUME TranslatorInv, MapInfo
  PROVE  TranslatorInv'
<1> USE DEF MapInfo
<1>1. index' \in Nat \ {0} /\ loader' = loader
      /\ mbInfo' = mbInfo /\ copy' = copy /\ space' = space
      /\ touched \in Int /\ touched < KernelEnd /\ loader \in Loaders
  BY DEF TranslatorInv, TranslatorTypes, MapUnchanged, Fail
<1>2. CASE IsMapped(loader.address, InfoSize)
  <2>1. step' = "commandLine" /\ result' = result /\ modStrings' = modStrings /\ dest' = dest
        /\ copiedModStrings' = copiedModStrings
    BY <1>2 DEF MapUnchanged
  <2>2. touched' \in Int /\ touched' < KernelEnd
    <3>1. loader.address + InfoSize - 1 \in Int /\ loader.address + InfoSize - 1 < KernelEnd
      BY SMTT(40), <1>1, <1>2, LoaderFacts, Sizes DEF IsMapped
    <3>2. touched' = Max({loader.address + InfoSize - 1} \cup {touched})
      BY <1>2 DEF Touch
    <3> QED BY <1>1, <3>1, <3>2, TouchedBelow
  <2>3. MapInv'
    BY <1>1, <1>2, <2>1, SameLoader
       DEF TranslatorInv, MapInv, CommandLineInv, MemMapInv, ModulesInv, ModuleNamesInv,
           NamesMapped, MapSteps, CopySteps
  <2>4. CopyInv'
    BY <2>1 DEF TranslatorInv, CopyInv, CopySteps
  <2> QED BY <1>1, <2>1, <2>2, <2>3, <2>4, GoesOn DEF TranslatorInv, TranslatorTypes, MapSteps
<1>3. CASE ~ IsMapped(loader.address, InfoSize)
  <2>1. ~ IsReadable
    BY <1>3 DEF IsReadable
  <2> QED BY <1>1, <1>3, <2>1, GivesUp DEF Fail
<1> QED BY <1>2, <1>3

LEMMA MapCommandLineKeeps ==
  ASSUME TranslatorInv, MapCommandLine
  PROVE  TranslatorInv'
<1> DEFINE s == mbInfo.commandLine
<1>1. index' = index /\ loader' = loader /\ modStrings' = modStrings /\ copy' = copy
      /\ space' = space /\ dest' = dest /\ copiedModStrings' = copiedModStrings
  BY DEF MapCommandLine, MapUnchanged, Fail
<1>2. /\ step = "commandLine" /\ loader \in Loaders /\ index \in Nat \ {0}
      /\ touched \in Int /\ touched < KernelEnd
      /\ mbInfo.commandLine = loader.commandLine /\ loader.isMultiboot
      /\ IsMapped(loader.address, InfoSize) /\ MemMapInv /\ ModulesInv /\ ModuleNamesInv
  BY DEF MapCommandLine, TranslatorInv, TranslatorTypes, MapInv, CommandLineInv
<1>3. /\ mbInfo = [commandLine |-> mbInfo.commandLine, mmapAddr |-> mbInfo.mmapAddr,
                   modsAddr |-> mbInfo.modsAddr]
      /\ copy = [commandLine |-> copy.commandLine, mmapAddr |-> copy.mmapAddr,
                 modsAddr |-> copy.modsAddr]
      /\ DOMAIN space = Offsets
  BY DEF TranslatorInv, TranslatorTypes
<1>4. ASSUME NEW p, mbInfo' = [mbInfo EXCEPT !.commandLine = p], step' = "memMap",
             result' = result, touched' \in Int, touched' < KernelEnd,
             StringIsMapped(CommandLine), p = Mapped(CommandLine)
      PROVE  TranslatorInv'
  <2>1. /\ mbInfo' = [commandLine |-> mbInfo'.commandLine, mmapAddr |-> mbInfo'.mmapAddr,
                      modsAddr |-> mbInfo'.modsAddr]
        /\ mbInfo'.commandLine = p /\ mbInfo'.mmapAddr = mbInfo.mmapAddr
        /\ mbInfo'.modsAddr = mbInfo.modsAddr
    BY <1>3, <1>4
  <2>2. CommandLineInv'
    <3>1. CommandLine' = CommandLine
      BY <1>1, SameLoader
    <3>2. mbInfo'.commandLine = Mapped(CommandLine')
      BY <1>4, <2>1, <3>1
    <3>3. StringIsMapped(CommandLine)'
      BY <1>4, <3>1 DEF StringIsMapped
    <3>4. step' \notin {"magic", "info", "commandLine"}
      BY <1>4
    <3> QED BY <3>2, <3>3, <3>4 DEF CommandLineInv, Mapped
  <2>3. MemMapInv'
    BY <1>1, <1>2, <1>4, <2>1 DEF MemMapInv
  <2>4. ModulesInv'
    BY <1>1, <1>2, <1>4, <2>1 DEF ModulesInv, MapSteps
  <2>5. ModuleNamesInv'
    BY <1>1, <1>2, <1>4, SameLoader DEF ModuleNamesInv, NamesMapped, CopySteps
  <2>6. MapInv'
    BY <1>1, <1>2, <2>2, <2>3, <2>4, <2>5 DEF MapInv
  <2>7. CopyInv'
    BY <1>1, <1>2, <1>4 DEF TranslatorInv, CopyInv, CopySteps
  <2> QED BY <1>1, <1>2, <1>3, <1>4, <2>1, <2>6, <2>7, GoesOn DEF MapSteps
<1>5. CASE loader.commandLinePresent /\ s # 0
  <2>1. CommandLine = s /\ s \in DOMAIN Strings
    BY <1>2, <1>5, LoaderFacts DEF CommandLine
  <2>2. touched' \in Int /\ touched' < KernelEnd
    <3>1. touched' = Max({MapString(s).last} \cup {touched})
      BY <1>5 DEF MapCommandLine, Touch
    <3>2. MapString(s).last \in Int /\ MapString(s).last < KernelEnd
      BY <2>1, MapStringResult
    <3> QED BY <1>2, <3>1, <3>2, TouchedBelow
  <2>3. CASE StringIsMapped(s)
    <3>1. MapString(s).address = Mapped(s) /\ Mapped(s) # 0
      BY <2>1, <2>3, MapStringResult
    <3>2. /\ mbInfo' = [mbInfo EXCEPT !.commandLine = Mapped(s)]
          /\ step' = "memMap" /\ result' = result
      BY <1>5, <3>1 DEF MapCommandLine
    <3> QED BY <1>4, <2>1, <2>2, <2>3, <3>2
  <2>4. CASE ~ StringIsMapped(s)
    <3>1. MapString(s).address = 0
      BY <2>1, <2>4, MapStringResult
    <3>2. step' = "done" /\ result' = "NULL" /\ mbInfo' = mbInfo
      BY <1>5, <3>1 DEF MapCommandLine, Fail
    <3>3. ~ IsReadable
      BY <2>1, <2>4 DEF IsReadable
    <3> QED BY <1>1, <1>2, <2>2, <3>2, <3>3, GivesUp
  <2> QED BY <2>3, <2>4
<1>6. CASE ~ (loader.commandLinePresent /\ s # 0)
  <2>1. CommandLine = 0
    BY <1>2, <1>6 DEF CommandLine
  <2>2. StringIsMapped(CommandLine) /\ Mapped(CommandLine) = 0
    BY <2>1 DEF StringIsMapped, Mapped
  <2>3. /\ mbInfo' = [mbInfo EXCEPT !.commandLine = 0]
        /\ step' = "memMap" /\ result' = result /\ touched' = touched
    BY <1>6 DEF MapCommandLine
  <2> QED BY <1>2, <1>4, <2>2, <2>3
<1> QED BY <1>5, <1>6

LEMMA MapMemMapKeeps ==
  ASSUME TranslatorInv, MapMemMap
  PROVE  TranslatorInv'
<1>1. index' = index /\ loader' = loader /\ modStrings' = modStrings /\ copy' = copy
      /\ space' = space /\ dest' = dest /\ copiedModStrings' = copiedModStrings
      /\ touched' = touched
  BY DEF MapMemMap, MapUnchanged, Fail
<1>2. /\ step = "memMap" /\ loader \in Loaders /\ index \in Nat \ {0}
      /\ touched \in Int /\ touched < KernelEnd
      /\ mbInfo.mmapAddr = loader.mmapAddr /\ loader.isMultiboot
      /\ IsMapped(loader.address, InfoSize) /\ CommandLineInv /\ ModulesInv /\ ModuleNamesInv
  BY DEF MapMemMap, TranslatorInv, TranslatorTypes, MapInv, MemMapInv
<1>3. /\ mbInfo = [commandLine |-> mbInfo.commandLine, mmapAddr |-> mbInfo.mmapAddr,
                   modsAddr |-> mbInfo.modsAddr]
      /\ copy = [commandLine |-> copy.commandLine, mmapAddr |-> copy.mmapAddr,
                 modsAddr |-> copy.modsAddr]
      /\ DOMAIN space = Offsets
  BY DEF TranslatorInv, TranslatorTypes
<1>4. CASE loader.memMapPresent /\ ~ IsMapped(mbInfo.mmapAddr, loader.mmapLength)
  <2>1. step' = "done" /\ result' = "NULL" /\ mbInfo' = mbInfo
    BY <1>4 DEF MapMemMap, Fail
  <2>2. ~ IsReadable
    BY <1>2, <1>4 DEF IsReadable
  <2> QED BY <1>1, <1>2, <2>1, <2>2, GivesUp
<1>5. CASE ~ (loader.memMapPresent /\ ~ IsMapped(mbInfo.mmapAddr, loader.mmapLength))
  <2>1. PICK p : /\ p = IF loader.memMapPresent THEN loader.mmapAddr + VirtualBase ELSE 0
                 /\ mbInfo' = [mbInfo EXCEPT !.mmapAddr = p]
                 /\ step' = "modules" /\ result' = result
    BY <1>2, <1>5 DEF MapMemMap
  <2>2. /\ mbInfo' = [commandLine |-> mbInfo'.commandLine, mmapAddr |-> mbInfo'.mmapAddr,
                      modsAddr |-> mbInfo'.modsAddr]
        /\ mbInfo'.commandLine = mbInfo.commandLine /\ mbInfo'.mmapAddr = p
        /\ mbInfo'.modsAddr = mbInfo.modsAddr
    BY <1>3, <2>1
  <2>3. CommandLineInv'
    BY <1>1, <1>2, <2>1, <2>2, SameLoader DEF CommandLineInv, StringIsMapped, Mapped
  <2>4. MemMapInv'
    BY <1>1, <1>2, <1>5, <2>1, <2>2 DEF MemMapInv, IsMapped
  <2>5. ModulesInv'
    BY <1>1, <1>2, <2>1, <2>2 DEF ModulesInv, MapSteps
  <2>6. ModuleNamesInv'
    BY <1>1, <1>2, <2>1, SameLoader DEF ModuleNamesInv, NamesMapped, CopySteps
  <2>7. MapInv'
    BY <1>1, <1>2, <2>3, <2>4, <2>5, <2>6 DEF MapInv
  <2>8. CopyInv'
    BY <1>1, <1>2, <2>1 DEF TranslatorInv, CopyInv, CopySteps
  <2> QED BY <1>1, <1>2, <1>3, <2>1, <2>2, <2>7, <2>8, GoesOn DEF MapSteps
<1> QED BY <1>4, <1>5
LEMMA Products ==
  ASSUME NEW i \in Nat, NEW n \in Nat, NEW m \in Nat, i <= n
  PROVE  i * m \in Nat /\ n * m \in Nat /\ i * m <= n * m
<1>1. n - i \in Nat /\ i + (n - i) = n
  OBVIOUS
<1>2. (i + (n - i)) * m = i * m + (n - i) * m /\ (n - i) * m \in Nat /\ i * m \in Nat
  BY <1>1
<1> QED BY <1>1, <1>2

LEMMA SpaceOfMapped ==
  ASSUME NEW s \in {0} \cup DOMAIN Strings, StringIsMapped(s)
  PROVE  StringSpace(s) \in Nat
<1>1. CASE s = 0
  BY <1>1 DEF StringSpace
<1>2. CASE s # 0
  <2>1. s \in Nat /\ Strings[s] \in Nat /\ Strings[s] + 1 <= KernelEnd
    BY <1>2, StringFacts, Sizes DEF StringIsMapped, IsMapped
  <2>2. Rounded(Strings[s] + 1) \in Nat
    BY <2>1, RoundedSize
  <2> QED BY <1>2, <2>2 DEF StringSpace
<1> QED BY <1>1, <1>2

LEMMA NamesSpace ==
  ASSUME loader \in Loaders, \A m \in 1 .. Len(ModuleNames) : StringIsMapped(ModuleNames[m])
  PROVE  LET f == StringsSpace(ModuleNames) IN
         /\ f[0] = 0
         /\ \A k \in 1 .. Len(ModuleNames) : f[k] = f[k - 1] + StringSpace(ModuleNames[k])
         /\ \A k \in 0 .. Len(ModuleNames) : f[k] \in Nat
         /\ \A k \in 0 .. Len(ModuleNames) : f[k] <= f[Len(ModuleNames)]
<1>1. Len(ModuleNames) \in Nat
  BY LoaderFacts
<1>2. \A m \in 1 .. Len(ModuleNames) : StringSpace(ModuleNames[m]) \in Nat
  BY LoaderFacts, SpaceOfMapped
<1> QED BY <1>1, <1>2, StringsSpaceValues

(* The copy begins with everything mapped and the space empty.             *)
LEMMA StartsCopy ==
  ASSUME loader \in Loaders, loader' = loader, step' = "copyInfo", dest' = SpaceAddress,
         copiedModStrings' = << >>,
         \A m \in 1 .. Len(ModuleNames) : StringIsMapped(ModuleNames[m])
  PROVE  CopyInv'
<1>1. ModuleNames' = ModuleNames /\ Len(ModuleNames) \in Nat
  BY SameLoader, LoaderFacts
<1>2. StringsSpace(ModuleNames)[0] = 0
  BY NamesSpace
<1>3. NamesCopied' = 0
  BY DEF NamesCopied
<1>4. StringsSpace(ModuleNames')[0] = 0
  BY <1>1, <1>2
<1>5. SpaceUsed' = 0
  BY <1>3, <1>4 DEF SpaceUsed
<1>6. DestInv'
  BY <1>1, <1>3, <1>5, Sizes DEF DestInv
<1> QED BY <1>6 DEF CopyInv, CopySteps

LEMMA MapModulesKeeps ==
  ASSUME TranslatorInv, MapModules
  PROVE  TranslatorInv'
<1>1. index' = 1 /\ loader' = loader /\ copy' = copy
      /\ space' = space /\ dest' = dest /\ copiedModStrings' = copiedModStrings
      /\ touched' = touched /\ modStrings' = modStrings
  BY DEF MapModules, MapUnchanged, Fail
<1>2. /\ step = "modules" /\ loader \in Loaders
      /\ touched \in Int /\ touched < KernelEnd
      /\ mbInfo.modsAddr = loader.modsAddr /\ loader.isMultiboot
      /\ IsMapped(loader.address, InfoSize) /\ CommandLineInv /\ MemMapInv /\ ModuleNamesInv
      /\ dest = SpaceAddress /\ copiedModStrings = << >>
  BY DEF MapModules, TranslatorInv, TranslatorTypes, MapInv, ModulesInv, MapSteps, CopyInv,
         CopySteps
<1>3. /\ mbInfo = [commandLine |-> mbInfo.commandLine, mmapAddr |-> mbInfo.mmapAddr,
                   modsAddr |-> mbInfo.modsAddr]
      /\ copy = [commandLine |-> copy.commandLine, mmapAddr |-> copy.mmapAddr,
                 modsAddr |-> copy.modsAddr]
      /\ DOMAIN space = Offsets
  BY DEF TranslatorInv, TranslatorTypes
<1>4. Len(ModuleNames) \in Nat
  BY <1>2, LoaderFacts
<1>5. ASSUME NEW p, mbInfo' = [mbInfo EXCEPT !.modsAddr = p], result' = result,
             step' \in {"moduleNames", "copyInfo"}, ModulesInv', ModuleNamesInv', CopyInv'
      PROVE  TranslatorInv'
  <2>1. /\ mbInfo' = [commandLine |-> mbInfo'.commandLine, mmapAddr |-> mbInfo'.mmapAddr,
                      modsAddr |-> mbInfo'.modsAddr]
        /\ mbInfo'.commandLine = mbInfo.commandLine /\ mbInfo'.mmapAddr = mbInfo.mmapAddr
    BY <1>3, <1>5
  <2>2. step' \notin {"magic", "info", "commandLine", "memMap"}
    BY <1>5
  <2>3. CommandLineInv'
    BY <1>1, <1>2, <2>1, <2>2, SameLoader DEF CommandLineInv, StringIsMapped, Mapped
  <2>4. MemMapInv'
    BY <1>1, <1>2, <2>1, <2>2 DEF MemMapInv, IsMapped
  <2>5. MapInv'
    BY <1>1, <1>2, <1>5, <2>3, <2>4 DEF MapInv
  <2> QED BY <1>1, <1>2, <1>3, <1>5, <2>1, <2>5, GoesOn DEF MapSteps, CopySteps
<1>6. CASE loader.modulesPresent
  <2>1. ModuleNames = loader.modStrings /\ Len(modStrings) = Len(ModuleNames)
    BY <1>2, <1>6 DEF ModuleNames, ModuleNamesInv
  <2>2. CASE IsMapped(mbInfo.modsAddr, Len(modStrings) * ModuleSize)
    <3>1. /\ mbInfo' = [mbInfo EXCEPT !.modsAddr = loader.modsAddr + VirtualBase]
          /\ step' = "moduleNames" /\ result' = result
      BY <1>2, <1>6, <2>2 DEF MapModules
    <3>2. ModulesInv'
      <4>1. Len(ModuleNames') = Len(ModuleNames)
        BY <1>1, SameLoader
      <4>2. IsMapped(loader'.modsAddr, Len(ModuleNames') * ModuleSize)
        BY <1>1, <1>2, <2>1, <2>2, <4>1
      <4>3. mbInfo'.modsAddr = loader'.modsAddr + VirtualBase
        BY <1>1, <1>3, <3>1
      <4> QED BY <1>1, <1>6, <3>1, <4>2, <4>3 DEF ModulesInv, MapSteps, IsMapped
    <3>3. ModuleNamesInv'
      BY <1>1, <1>2, <1>4, <3>1, SameLoader DEF ModuleNamesInv, NamesMapped, CopySteps
    <3>4. CopyInv'
      BY <1>1, <1>2, <3>1 DEF CopyInv, CopySteps
    <3> QED BY <1>5, <3>1, <3>2, <3>3, <3>4
  <2>3. CASE ~ IsMapped(mbInfo.modsAddr, Len(modStrings) * ModuleSize)
    <3>1. step' = "done" /\ result' = "NULL" /\ mbInfo' = mbInfo
      BY <1>6, <2>3 DEF MapModules, Fail
    <3>2. ~ IsReadable
      BY <1>2, <1>6, <2>1, <2>3 DEF IsReadable
    <3> QED BY <1>1, <1>2, <3>1, <3>2, GivesUp
  <2> QED BY <2>2, <2>3
<1>7. CASE ~ loader.modulesPresent
  <2>1. ModuleNames = << >> /\ Len(ModuleNames) = 0
    BY <1>7, EmptySeq DEF ModuleNames
  <2>2. /\ mbInfo' = [mbInfo EXCEPT !.modsAddr = 0]
        /\ step' = "copyInfo" /\ result' = result
    BY <1>7 DEF MapModules
  <2>3. ModulesInv'
    <3>1. mbInfo'.modsAddr = 0
      BY <1>3, <2>2
    <3> QED BY <1>1, <1>7, <2>2, <3>1 DEF ModulesInv, MapSteps
  <2>4. ModuleNamesInv'
    BY <1>1, <1>2, <2>1, <2>2, SameLoader DEF ModuleNamesInv, NamesMapped, CopySteps
  <2>5. CopyInv'
    BY <1>1, <1>2, <2>1, <2>2, StartsCopy
  <2> QED BY <1>5, <2>2, <2>3, <2>4, <2>5
<1> QED BY <1>6, <1>7

LEMMA MapModuleNameKeeps ==
  ASSUME TranslatorInv, MapModuleName
  PROVE  TranslatorInv'
<1>1. index' = index + 1 /\ loader' = loader /\ copy' = copy /\ mbInfo' = mbInfo
      /\ space' = space /\ dest' = dest /\ copiedModStrings' = copiedModStrings
  BY DEF MapModuleName, MapUnchanged, Fail
<1>2. /\ step = "moduleNames" /\ loader \in Loaders /\ index \in Nat \ {0}
      /\ index <= Len(modStrings) /\ touched \in Int /\ touched < KernelEnd
      /\ IsMapped(loader.address, InfoSize)
      /\ loader.isMultiboot /\ CommandLineInv /\ MemMapInv /\ ModulesInv /\ ModuleNamesInv
      /\ dest = SpaceAddress /\ copiedModStrings = << >>
  BY DEF MapModuleName, TranslatorInv, TranslatorTypes, MapInv, CopyInv, CopySteps
<1>3. /\ mbInfo = [commandLine |-> mbInfo.commandLine, mmapAddr |-> mbInfo.mmapAddr,
                   modsAddr |-> mbInfo.modsAddr]
      /\ copy = [commandLine |-> copy.commandLine, mmapAddr |-> copy.mmapAddr,
                 modsAddr |-> copy.modsAddr]
      /\ DOMAIN space = Offsets
  BY DEF TranslatorInv, TranslatorTypes
<1>4. /\ loader.modulesPresent /\ ModuleNames = loader.modStrings
      /\ IsMapped(loader.modsAddr, Len(ModuleNames) * ModuleSize)
      /\ mbInfo.modsAddr = loader.modsAddr + VirtualBase
  BY <1>2 DEF ModulesInv, MapSteps, ModuleNames
<1> DEFINE n == Len(ModuleNames)
           s == ModuleNames[index]
           module == mbInfo.modsAddr - VirtualBase + index * ModuleSize - 1
<1>5. /\ NamesMapped = index - 1 /\ n \in Nat /\ index \in 1 .. n /\ Len(modStrings) = n
      /\ modStrings \in Seq(Nat)
      /\ \A m \in 1 .. n :
           IF m < index
             THEN StringIsMapped(ModuleNames[m]) /\ modStrings[m] = Mapped(ModuleNames[m])
             ELSE modStrings[m] = ModuleNames[m]
  <2>1. NamesMapped = index - 1
    BY <1>2 DEF NamesMapped, CopySteps
  <2>2. n \in Nat
    BY <1>2, LoaderFacts
  <2>3. Len(modStrings) = n /\ modStrings \in Seq(Nat)
    BY <1>2, <1>4 DEF ModuleNamesInv
  <2>4. \A m \in 1 .. n :
          IF m <= index - 1 THEN StringIsMapped(ModuleNames[m])
                                   /\ modStrings[m] = Mapped(ModuleNames[m])
                            ELSE modStrings[m] = ModuleNames[m]
    BY <1>2, <2>1 DEF ModuleNamesInv
  <2>5. \A m \in 1 .. n : m < index <=> m <= index - 1
    BY <1>2
  <2>6. index \in 1 .. n
    BY <1>2, <2>2, <2>3
  <2> HIDE DEF n
  <2> QED BY <2>1, <2>2, <2>3, <2>4, <2>5, <2>6
<1>6. modStrings[index] = s /\ s \in {0} \cup DOMAIN Strings
  BY <1>2, <1>5, LoaderFacts
<1>7. module \in Int /\ module < KernelEnd
  <2>1. index * ModuleSize \in Nat /\ n * ModuleSize \in Nat /\ index * ModuleSize <= n * ModuleSize
    <3>1. index \in Nat /\ index <= n /\ ModuleSize \in Nat
      BY <1>5, Sizes
    <3> QED BY <1>5, <3>1, Products
  <2>2. loader.modsAddr \in Nat /\ KernelEnd \in Nat /\ VirtualBase \in Nat
    BY <1>2, LoaderFacts, Sizes
  <2>3. loader.modsAddr + n * ModuleSize <= KernelEnd
    BY <1>4 DEF IsMapped
  <2> DEFINE x == index * ModuleSize
             y == n * ModuleSize
  <2> HIDE DEF x, y, n
  <2>4. mbInfo.modsAddr - VirtualBase + x - 1 = loader.modsAddr + x - 1
    BY <1>4, <2>1, <2>2 DEF x
  <2>5. loader.modsAddr + x - 1 \in Int /\ loader.modsAddr + x - 1 < KernelEnd
    BY <2>1, <2>2, <2>3 DEF x, y
  <2> QED BY <2>4, <2>5 DEF x
<1>8. ASSUME NEW strings, modStrings' = strings, StringIsMapped(s), strings \in Seq(Nat),
             Len(strings) = n, \A m \in 1 .. n : m # index => strings[m] = modStrings[m],
             strings[index] = Mapped(s), step' = "moduleNames", result' = result,
             touched' \in Int, touched' < KernelEnd
      PROVE  TranslatorInv'
  <2>1. ModuleNames' = ModuleNames /\ CommandLine' = CommandLine
    BY <1>1, SameLoader
  <2>2. NamesMapped' = index
    BY <1>1, <1>2, <1>8 DEF NamesMapped, CopySteps
  <2>3. ASSUME NEW m \in 1 .. n
        PROVE  IF m <= index
                 THEN StringIsMapped(ModuleNames[m]) /\ strings[m] = Mapped(ModuleNames[m])
                 ELSE strings[m] = ModuleNames[m]
    <3>1. CASE m < index
      BY SMTT(40), <1>2, <1>5, <1>8, <3>1
    <3>2. CASE m = index
      BY <1>2, <1>8, <3>2
    <3>3. CASE m > index
      BY SMTT(40), <1>2, <1>5, <1>8, <3>3
    <3> QED BY <1>2, <3>1, <3>2, <3>3
  <2>4. ModuleNamesInv'
    <3>1. Len(loader'.modStrings) = n
      BY <1>1, <1>4
    <3>2. StringIsMapped(0)' /\ \A t \in DOMAIN Strings : StringIsMapped(t)' <=> StringIsMapped(t)
      BY DEF StringIsMapped, IsMapped
    <3>3. \A m \in 1 .. Len(ModuleNames') :
            IF m <= NamesMapped'
              THEN StringIsMapped(ModuleNames'[m]) /\ modStrings'[m] = Mapped(ModuleNames'[m])
              ELSE modStrings'[m] = ModuleNames'[m]
      BY <1>8, <2>1, <2>2, <2>3
    <3>4. NamesMapped' \in 0 .. Len(ModuleNames')
      BY <1>5, <2>1, <2>2
    <3> QED BY <1>8, <3>1, <3>3, <3>4 DEF ModuleNamesInv, StringIsMapped, IsMapped, Mapped
  <2>5. CommandLineInv'
    BY <1>1, <1>2, <1>8, <2>1 DEF CommandLineInv, StringIsMapped, IsMapped, Mapped
  <2>6. MemMapInv'
    BY <1>1, <1>2, <1>8 DEF MemMapInv, IsMapped
  <2>7. ModulesInv'
    BY <1>1, <1>2, <1>8, <2>1 DEF ModulesInv, MapSteps, IsMapped
  <2>8. MapInv'
    BY <1>1, <1>2, <2>4, <2>5, <2>6, <2>7 DEF MapInv
  <2>9. CopyInv'
    BY <1>1, <1>2, <1>8 DEF CopyInv, CopySteps
  <2>10. index' \in Nat \ {0}
    BY <1>1, <1>2
  <2> QED BY <1>1, <1>2, <1>3, <1>8, <2>8, <2>9, <2>10, GoesOn DEF MapSteps
<1>9. CASE s = 0
  <2>1. /\ touched' = Max({module} \cup {touched})
        /\ step' = step /\ modStrings' = modStrings /\ result' = result
    BY <1>6, <1>9 DEF MapModuleName, Touch
  <2>2. touched' \in Int /\ touched' < KernelEnd
    <3> HIDE DEF module
    <3> QED BY <1>2, <1>7, <2>1, TouchedBelow
  <2>3. StringIsMapped(s) /\ Mapped(s) = 0
    BY <1>9 DEF StringIsMapped, Mapped
  <2> HIDE DEF s, n
  <2> QED BY <1>2, <1>5, <1>6, <1>8, <1>9, <2>1, <2>2, <2>3
<1>10. CASE s # 0
  <2>1. s \in DOMAIN Strings
    BY <1>6, <1>10
  <2>2. Max({module, MapString(s).last} \cup {touched}) \in Int
        /\ Max({module, MapString(s).last} \cup {touched}) < KernelEnd
    <3> HIDE DEF module, s
    <3> QED BY <1>2, <1>7, <2>1, MapStringResult, TouchedBelow
  <2>3. CASE StringIsMapped(s)
    <3>1. MapString(s).address = Mapped(s) /\ Mapped(s) # 0
      BY <2>1, <2>3, MapStringResult
    <3>2. /\ touched' = Max({module, MapString(s).last} \cup {touched})
          /\ modStrings' = [modStrings EXCEPT ![index] = Mapped(s)]
          /\ step' = step /\ result' = result
      BY <1>6, <1>10, <3>1 DEF MapModuleName, Touch
    <3>3. Mapped(s) \in Nat
      BY <2>1, StringFacts, Sizes DEF Mapped
    <3>4. /\ modStrings' \in Seq(Nat) /\ Len(modStrings') = n
          /\ \A m \in 1 .. n : modStrings'[m] = IF m = index THEN Mapped(s) ELSE modStrings[m]
      <4> HIDE DEF s, n
      <4> QED BY <1>5, <3>2, <3>3, ExceptSeq
    <3> HIDE DEF s, n
    <3> QED BY <1>2, <1>5, <1>8, <2>2, <2>3, <3>2, <3>4
  <2>4. CASE ~ StringIsMapped(s)
    <3>1. MapString(s).address = 0
      BY <2>1, <2>4, MapStringResult
    <3>2. /\ touched' = Max({module, MapString(s).last} \cup {touched})
          /\ step' = "done" /\ result' = "NULL"
      BY <1>6, <1>10, <3>1 DEF MapModuleName, Touch, Fail
    <3>3. ~ IsReadable
      BY <1>5, <2>4 DEF IsReadable
    <3>4. index' \in Nat \ {0}
      BY <1>1, <1>2
    <3> QED BY <1>1, <1>2, <2>2, <3>2, <3>3, <3>4, GivesUp
  <2> QED BY <2>3, <2>4
<1> QED BY <1>9, <1>10

LEMMA MapDoneKeeps ==
  ASSUME TranslatorInv, MapDone
  PROVE  TranslatorInv'
<1>1. index' = index /\ loader' = loader /\ copy' = copy /\ mbInfo' = mbInfo
      /\ space' = space /\ dest' = dest /\ copiedModStrings' = copiedModStrings
      /\ modStrings' = modStrings /\ step' = "copyInfo" /\ result' = result /\ touched' = touched
  BY DEF MapDone, MapUnchanged
<1>2. /\ step = "moduleNames" /\ loader \in Loaders /\ index \in Nat \ {0}
      /\ index > Len(modStrings) /\ touched \in Int /\ touched < KernelEnd
      /\ IsMapped(loader.address, InfoSize)
      /\ loader.isMultiboot /\ CommandLineInv /\ MemMapInv /\ ModulesInv /\ ModuleNamesInv
      /\ dest = SpaceAddress /\ copiedModStrings = << >>
  BY DEF MapDone, TranslatorInv, TranslatorTypes, MapInv, CopyInv, CopySteps
<1>3. /\ mbInfo = [commandLine |-> mbInfo.commandLine, mmapAddr |-> mbInfo.mmapAddr,
                   modsAddr |-> mbInfo.modsAddr]
      /\ copy = [commandLine |-> copy.commandLine, mmapAddr |-> copy.mmapAddr,
                 modsAddr |-> copy.modsAddr]
      /\ DOMAIN space = Offsets
  BY DEF TranslatorInv, TranslatorTypes
<1>4. loader.modulesPresent /\ ModuleNames = loader.modStrings
  BY <1>2 DEF ModulesInv, MapSteps, ModuleNames
<1>5. /\ ModuleNames' = ModuleNames /\ CommandLine' = CommandLine
  BY <1>1, SameLoader
<1>6. NamesMapped = index - 1 /\ NamesMapped = Len(ModuleNames) /\ NamesMapped' = NamesMapped
  <2>1. NamesMapped = index - 1
    BY <1>2 DEF NamesMapped, CopySteps
  <2>2. Len(modStrings) = Len(ModuleNames) /\ NamesMapped \in 0 .. Len(ModuleNames)
    BY <1>2, <1>4 DEF ModuleNamesInv
  <2>3. Len(ModuleNames) \in Nat
    BY <1>2, LoaderFacts
  <2>4. NamesMapped = Len(ModuleNames)
    BY <1>2, <2>1, <2>2, <2>3
  <2>5. NamesMapped' = Len(ModuleNames')
    BY <1>1 DEF NamesMapped, CopySteps
  <2> QED BY <1>5, <2>1, <2>4, <2>5
<1>7. ModuleNamesInv'
  BY <1>1, <1>2, <1>5, <1>6 DEF ModuleNamesInv, StringIsMapped, IsMapped, Mapped
<1>8. CommandLineInv'
  BY <1>1, <1>2, <1>5 DEF CommandLineInv, StringIsMapped, IsMapped, Mapped
<1>9. MemMapInv'
  BY <1>1, <1>2 DEF MemMapInv, IsMapped
<1>10. ModulesInv'
  BY <1>1, <1>2, <1>4, <1>5 DEF ModulesInv, MapSteps, IsMapped
<1>11. MapInv'
  BY <1>1, <1>2, <1>7, <1>8, <1>9, <1>10 DEF MapInv
<1>12. CopyInv'
  <2>1. \A m \in 1 .. Len(ModuleNames) : StringIsMapped(ModuleNames[m])
    BY <1>2, <1>6, LoaderFacts DEF ModuleNamesInv
  <2> QED BY <1>1, <1>2, <2>1, StartsCopy
<1> QED BY <1>1, <1>2, <1>3, <1>11, <1>12, GoesOn DEF CopySteps
-----------------------------------------------------------------------------
(* Copying                                                                 *)

(* A part that is copied is in the buffer afterwards, and what is in front *)
(* of it as before.                                                        *)
LEMMA PartIsCopied ==
  ASSUME NEW old, NEW new, NEW place \in Nat, NEW original \in Nat, NEW size \in Nat,
         IsAligned(place, Alignment), SpaceAddress <= place,
         place + size <= SpaceAddress + SpaceSize, size <= KernelEnd,
         NEW source, source = original + VirtualBase,
         new = [k \in Offsets |->
                  IF k + SpaceAddress \in place .. place + size - 1
                    THEN source - VirtualBase + (k + SpaceAddress - place)
                    ELSE old[k]]
  PROVE  /\ HeldIn(new, place + Rounded(size), place, original, size)
         /\ \A k \in Offsets : k + SpaceAddress < place => new[k] = old[k]
         /\ DOMAIN new = Offsets
<1>1. Rounded(size) \in Nat /\ size <= Rounded(size)
  BY RoundedSize
<1>2. SpaceAddress \in Nat /\ SpaceSize \in Nat /\ VirtualBase \in Nat
  BY Sizes
<1>3. ASSUME NEW k \in 0 .. size - 1 PROVE new[place + k - SpaceAddress] = original + k
  <2> DEFINE j == place + k - SpaceAddress
  <2>1. j \in Offsets /\ j + SpaceAddress = place + k
    BY <1>2, <1>3 DEF Offsets
  <2>2. j + SpaceAddress \in place .. place + size - 1
    BY <1>3, <2>1
  <2>3. new[j] = source - VirtualBase + (j + SpaceAddress - place)
    <3> HIDE DEF j
    <3> QED BY <2>1, <2>2
  <2>4. source - VirtualBase + (j + SpaceAddress - place) = original + k
    BY <1>2, <1>3, <2>1
  <2> QED BY <2>3, <2>4
<1>4. HeldIn(new, place + Rounded(size), place, original, size)
  BY <1>1, <1>2, <1>3 DEF HeldIn
<1>5. \A k \in Offsets : k + SpaceAddress < place => new[k] = old[k]
  BY <1>2 DEF Offsets
<1>6. DOMAIN new = Offsets
  OBVIOUS
<1> QED BY <1>4, <1>5, <1>6

(* What is in the buffer stays there, if no more is copied over it.        *)
LEMMA StaysHeld ==
  ASSUME NEW old, NEW new, NEW end \in Nat, NEW newEnd \in Nat, end <= newEnd,
         end <= SpaceAddress + SpaceSize,
         \A k \in Offsets : k + SpaceAddress < end => new[k] = old[k],
         NEW pointer, NEW original, NEW size \in Nat, HeldIn(old, end, pointer, original, size)
  PROVE  HeldIn(new, newEnd, pointer, original, size)
<1>1. SpaceAddress \in Nat /\ SpaceSize \in Nat
  BY Sizes
<1>2. pointer \in Nat /\ SpaceAddress <= pointer /\ pointer + size <= end
  BY DEF HeldIn
<1>3. ASSUME NEW k \in 0 .. size - 1 PROVE new[pointer + k - SpaceAddress] = original + k
  <2> DEFINE j == pointer + k - SpaceAddress
  <2>1. j \in Offsets /\ j + SpaceAddress < end
    BY <1>1, <1>2, <1>3 DEF Offsets
  <2>2. old[j] = original + k
    BY <1>3 DEF HeldIn
  <2> HIDE DEF j
  <2>3. new[j] = original + k
    BY <2>1, <2>2
  <2> QED BY <2>3 DEF j
<1> QED BY <1>2, <1>3 DEF HeldIn

LEMMA StringStaysHeld ==
  ASSUME NEW old, NEW new, NEW end \in Nat, NEW newEnd \in Nat, end <= newEnd,
         end <= SpaceAddress + SpaceSize,
         \A k \in Offsets : k + SpaceAddress < end => new[k] = old[k],
         NEW pointer, NEW s \in {0} \cup DOMAIN Strings, StringHeldIn(old, end, pointer, s)
  PROVE  StringHeldIn(new, newEnd, pointer, s)
<1>1. CASE s = 0
  BY <1>1 DEF StringHeldIn
<1>2. CASE s # 0
  <2>1. Strings[s] + 1 \in Nat
    BY <1>2, StringFacts
  <2>2. HeldIn(old, end, pointer, s, Strings[s] + 1)
    BY <1>2 DEF StringHeldIn
  <2>3. HeldIn(new, newEnd, pointer, s, Strings[s] + 1)
    BY <2>1, <2>2, StaysHeld
  <2> QED BY <1>2, <2>3 DEF StringHeldIn
<1> QED BY <1>1, <1>2

(* While it is copied, everything has been mapped.                         *)
LEMMA Readable ==
  ASSUME TranslatorInv, step \in CopySteps
  PROVE  /\ loader \in Loaders /\ loader.isMultiboot /\ IsReadable
         /\ mbInfo.commandLine = Mapped(CommandLine)
         /\ mbInfo.mmapAddr = IF loader.memMapPresent THEN loader.mmapAddr + VirtualBase ELSE 0
         /\ mbInfo.modsAddr = IF loader.modulesPresent THEN loader.modsAddr + VirtualBase ELSE 0
         /\ modStrings \in Seq(Nat)
         /\ loader.modulesPresent => Len(modStrings) = Len(ModuleNames)
         /\ \A m \in 1 .. Len(ModuleNames) : modStrings[m] = Mapped(ModuleNames[m])
<1>1. /\ step \notin MapSteps /\ step # "done"
  BY DEF CopySteps, MapSteps
<1>2. /\ loader \in Loaders /\ loader.isMultiboot /\ IsMapped(loader.address, InfoSize)
      /\ CommandLineInv /\ MemMapInv /\ ModulesInv /\ ModuleNamesInv
  BY <1>1 DEF TranslatorInv, TranslatorTypes, MapInv, MapSteps
<1>3. StringIsMapped(CommandLine) /\ mbInfo.commandLine = Mapped(CommandLine)
  BY <1>1, <1>2 DEF CommandLineInv, MapSteps
<1>4. /\ mbInfo.mmapAddr = IF loader.memMapPresent THEN loader.mmapAddr + VirtualBase ELSE 0
      /\ loader.memMapPresent => IsMapped(loader.mmapAddr, loader.mmapLength)
  BY <1>1, <1>2 DEF MemMapInv, MapSteps
<1>5. /\ mbInfo.modsAddr = IF loader.modulesPresent THEN loader.modsAddr + VirtualBase ELSE 0
      /\ loader.modulesPresent => IsMapped(loader.modsAddr, Len(ModuleNames) * ModuleSize)
  BY <1>1, <1>2 DEF ModulesInv, MapSteps
<1>6. /\ modStrings \in Seq(Nat) /\ Len(modStrings) = Len(loader.modStrings)
      /\ \A m \in 1 .. Len(ModuleNames) :
           StringIsMapped(ModuleNames[m]) /\ modStrings[m] = Mapped(ModuleNames[m])
  <2>1. NamesMapped = Len(ModuleNames) /\ Len(ModuleNames) \in Nat
    BY <1>2, LoaderFacts DEF NamesMapped
  <2> QED BY <1>2, <2>1 DEF ModuleNamesInv
<1>7. IsReadable
  BY <1>2, <1>3, <1>4, <1>5, <1>6 DEF IsReadable
<1>8. loader.modulesPresent => Len(modStrings) = Len(ModuleNames)
  BY <1>6 DEF ModuleNames
<1> QED BY <1>2, <1>3, <1>4, <1>5, <1>6, <1>7, <1>8

(* What has been mapped stays mapped.                                      *)
LEMMA StaysMapped ==
  ASSUME TranslatorInv, step \in CopySteps, step' \in CopySteps, loader' = loader,
         mbInfo' = mbInfo, modStrings' = modStrings
  PROVE  MapInv'
<1>1. /\ step \notin MapSteps /\ step # "done" /\ step' \notin MapSteps /\ step' # "done"
  BY DEF CopySteps, MapSteps
<1>2. /\ loader.isMultiboot /\ IsMapped(loader.address, InfoSize)
      /\ CommandLineInv /\ MemMapInv /\ ModulesInv /\ ModuleNamesInv
  BY <1>1 DEF TranslatorInv, MapInv, MapSteps
<1>3. /\ ModuleNames' = ModuleNames /\ CommandLine' = CommandLine
  BY SameLoader
<1>4. ModuleNamesInv'
  <2>1. NamesMapped' = NamesMapped
    BY <1>3 DEF NamesMapped
  <2> QED BY <1>2, <1>3, <2>1 DEF ModuleNamesInv, StringIsMapped, IsMapped, Mapped
<1>5. CommandLineInv'
  BY <1>1, <1>2, <1>3 DEF CommandLineInv, StringIsMapped, IsMapped, Mapped, MapSteps
<1>6. MemMapInv'
  BY <1>1, <1>2 DEF MemMapInv, IsMapped, MapSteps
<1>7. ModulesInv'
  BY <1>1, <1>2, <1>3 DEF ModulesInv, MapSteps, IsMapped
<1> QED BY <1>2, <1>4, <1>5, <1>6, <1>7 DEF MapInv

(* The sizes of the parts, while they are copied.                          *)
LEMMA PartSizes ==
  ASSUME TranslatorInv, step \in CopySteps
  PROVE  /\ InfoSize <= KernelEnd /\ Rounded(InfoSize) \in Nat
         /\ loader.memMapPresent => loader.mmapLength <= KernelEnd
         /\ loader.modulesPresent => Len(ModuleNames) * ModuleSize \in Nat
                                     /\ Len(ModuleNames) * ModuleSize <= KernelEnd
         /\ MemMapSpace \in Nat /\ ModulesSpace \in Nat /\ StringSpace(CommandLine) \in Nat
         /\ StringsSpace(ModuleNames)[0] = 0
         /\ \A k \in 1 .. Len(ModuleNames) :
              StringsSpace(ModuleNames)[k] =
                StringsSpace(ModuleNames)[k - 1] + StringSpace(ModuleNames[k])
         /\ \A k \in 1 .. Len(ModuleNames) : StringSpace(ModuleNames[k]) \in Nat
         /\ \A k \in 0 .. Len(ModuleNames) :
              /\ StringsSpace(ModuleNames)[k] \in Nat
              /\ StringsSpace(ModuleNames)[k] <= StringsSpace(ModuleNames)[Len(ModuleNames)]
<1>1. loader \in Loaders /\ IsReadable
  BY Readable
<1>2. InfoSize <= KernelEnd /\ Rounded(InfoSize) \in Nat
  <2>1. InfoSize <= KernelEnd
    BY <1>1, LoaderFacts, Sizes DEF IsReadable, IsMapped
  <2> QED BY <2>1, RoundedSize, Sizes
<1>3. /\ loader.memMapPresent => loader.mmapLength <= KernelEnd
      /\ MemMapSpace \in Nat
  <2>1. loader.memMapPresent => loader.mmapLength <= KernelEnd
    BY <1>1, LoaderFacts, Sizes DEF IsReadable, IsMapped
  <2>2. loader.mmapLength \in Nat
    BY <1>1, LoaderFacts
  <2> QED BY <2>1, <2>2, RoundedSize DEF MemMapSpace
<1>4. /\ loader.modulesPresent => Len(ModuleNames) * ModuleSize \in Nat
                                  /\ Len(ModuleNames) * ModuleSize <= KernelEnd
      /\ ModulesSpace \in Nat
  <2> DEFINE y == Len(ModuleNames) * ModuleSize
  <2>1. y \in Nat
    <3>1. Len(ModuleNames) \in Nat /\ ModuleSize \in Nat
      BY <1>1, LoaderFacts, Sizes
    <3> QED BY <3>1, Products
  <2>2. loader.modulesPresent => IsMapped(loader.modsAddr, y)
    BY <1>1 DEF IsReadable
  <2> HIDE DEF y
  <2>3. loader.modulesPresent => y <= KernelEnd
    BY <1>1, <2>1, <2>2, LoaderFacts, Sizes DEF IsMapped
  <2>4. loader.modulesPresent => Rounded(y) \in Nat
    BY <2>1, <2>3, RoundedSize
  <2>5. ModulesSpace \in Nat
    BY <2>4 DEF ModulesSpace, y
  <2> QED BY <2>1, <2>3, <2>5 DEF y
<1>5. StringSpace(CommandLine) \in Nat
  BY <1>1, LoaderFacts, SpaceOfMapped DEF IsReadable
<1>6. \A m \in 1 .. Len(ModuleNames) : StringIsMapped(ModuleNames[m])
  BY <1>1 DEF IsReadable
<1>7. \A m \in 1 .. Len(ModuleNames) : StringSpace(ModuleNames[m]) \in Nat
  BY <1>1, <1>6, LoaderFacts, SpaceOfMapped
<1>8. /\ StringsSpace(ModuleNames)[0] = 0
      /\ \A k \in 1 .. Len(ModuleNames) :
           StringsSpace(ModuleNames)[k] =
             StringsSpace(ModuleNames)[k - 1] + StringSpace(ModuleNames[k])
      /\ \A k \in 0 .. Len(ModuleNames) : StringsSpace(ModuleNames)[k] \in Nat
      /\ \A k \in 0 .. Len(ModuleNames) :
           StringsSpace(ModuleNames)[k] <= StringsSpace(ModuleNames)[Len(ModuleNames)]
  BY <1>1, <1>6, NamesSpace
<1> QED BY <1>2, <1>3, <1>4, <1>5, <1>7, <1>8

(* A part is copied, if it fits.                                           *)
Copied(original, size) ==
  /\ dest + Rounded(size) <= SpaceAddress + SpaceSize
  /\ dest' = dest + Rounded(size) /\ dest' \in Nat /\ IsAligned(dest', Alignment)
  /\ HeldIn(space', dest', dest, original, size)
  /\ \A k \in Offsets : k + SpaceAddress < dest => space'[k] = space[k]
  /\ DOMAIN space' = Offsets
  /\ touched' \in Int /\ touched' < KernelEnd

LEMMA CopiesPart ==
  ASSUME TranslatorInv, step \in CopySteps,
         NEW original \in Nat, NEW size \in Nat, original + size <= KernelEnd,
         NEW source, source = original + VirtualBase,
         NEW pointers, NEW strings, NEW next, CopyPart(source, size, pointers, strings, next)
  PROVE  \/ /\ Copied(original, size)
            /\ copy' = pointers /\ copiedModStrings' = strings
            /\ step' = next /\ result' = result
         \/ /\ dest + Rounded(size) > SpaceAddress + SpaceSize
            /\ step' = "done" /\ result' = "NULL"
            /\ space' = space /\ touched' = touched /\ copy' = copy
<1>1. /\ dest \in Nat /\ IsAligned(dest, Alignment) /\ SpaceAddress <= dest
      /\ touched \in Int /\ touched < KernelEnd
  <2>1. DestInv /\ step # "done"
    BY DEF TranslatorInv, CopyInv, CopySteps
  <2>2. NamesCopied \in 0 .. Len(ModuleNames) /\ Len(ModuleNames) \in Nat
    BY <2>1, Readable, LoaderFacts DEF DestInv
  <2>3. StringsSpace(ModuleNames)[NamesCopied] \in Nat
    BY <2>2, PartSizes
  <2>4. SpaceUsed \in Nat
    <3>1. /\ Rounded(InfoSize) \in Nat /\ MemMapSpace \in Nat /\ ModulesSpace \in Nat
          /\ StringSpace(CommandLine) \in Nat
      BY PartSizes
    <3> QED BY ONLY <2>3, <3>1 DEF SpaceUsed
  <2>5. touched \in Int /\ touched < KernelEnd
    BY DEF TranslatorInv, TranslatorTypes
  <2> QED BY <2>1, <2>4, <2>5, Sizes DEF DestInv
<1>2. size <= KernelEnd
  BY Sizes
<1>3. Rounded(size) \in Nat
  BY <1>2, RoundedSize
<1>4. /\ dest + Rounded(size) <= SpaceAddress + SpaceSize
           <=> dest + size <= SpaceAddress + SpaceSize
      /\ dest + size <= SpaceAddress + SpaceSize =>
           /\ MakeAligned(dest + size, Alignment, Wrap) = dest + Rounded(size)
           /\ IsAligned(dest + Rounded(size), Alignment)
  BY <1>1, <1>2, RoundedPlace
<1>5. Fits(size) <=> dest + size <= SpaceAddress + SpaceSize
  BY <1>1, Sizes DEF Fits
<1>6. CASE Fits(size)
  <2>1. /\ space' = [k \in Offsets |->
              IF k + SpaceAddress \in dest .. dest + size - 1
                THEN source - VirtualBase + (k + SpaceAddress - dest) ELSE space[k]]
        /\ dest' = MakeAligned(dest + size, Alignment, Wrap)
        /\ touched' = Max({source - VirtualBase + size - 1} \cup {touched})
        /\ copy' = pointers /\ copiedModStrings' = strings
        /\ step' = next /\ result' = result
    BY <1>6 DEF CopyPart, Touch
  <2>2. dest' = dest + Rounded(size) /\ dest' \in Nat /\ IsAligned(dest', Alignment)
        /\ dest + Rounded(size) <= SpaceAddress + SpaceSize
    BY <1>1, <1>3, <1>4, <1>5, <1>6, <2>1
  <2>3. /\ HeldIn(space', dest + Rounded(size), dest, original, size)
        /\ \A k \in Offsets : k + SpaceAddress < dest => space'[k] = space[k]
        /\ DOMAIN space' = Offsets
    BY <1>1, <1>2, <1>5, <1>6, <2>1, PartIsCopied
  <2>4. touched' \in Int /\ touched' < KernelEnd
    <3>1. VirtualBase \in Nat /\ KernelEnd \in Nat
      BY Sizes
    <3>2. source - VirtualBase + size - 1 = original + size - 1
      BY <3>1
    <3>3. original + size - 1 \in Int /\ original + size - 1 < KernelEnd
      BY <3>1
    <3> QED BY <1>1, <2>1, <3>2, <3>3, TouchedBelow
  <2> QED BY <2>1, <2>2, <2>3, <2>4 DEF Copied
<1>7. CASE ~ Fits(size)
  <2>1. step' = "done" /\ result' = "NULL"
        /\ space' = space /\ touched' = touched /\ copy' = copy
    BY <1>7 DEF CopyPart
  <2>2. dest + Rounded(size) > SpaceAddress + SpaceSize
    BY <1>1, <1>3, <1>4, <1>5, <1>7, Sizes
  <2> QED BY <2>1, <2>2
<1> QED BY <1>6, <1>7

(* What the parts are that have been copied, for a buffer filled up to an  *)
(* end and pointers to the parts in it.                                    *)
PartsHeld(buffer, end, pointers, strings) ==
  /\ HeldIn(buffer, end, SpaceAddress, loader.address, InfoSize)
  /\ step # "copyMemMap" /\ loader.memMapPresent =>
       HeldIn(buffer, end, pointers.mmapAddr, loader.mmapAddr, loader.mmapLength)
  /\ step \notin {"copyMemMap", "copyModules"} /\ loader.modulesPresent =>
       HeldIn(buffer, end, pointers.modsAddr, loader.modsAddr, Len(ModuleNames) * ModuleSize)
  /\ step \notin {"copyMemMap", "copyModules"} =>
       \A m \in 1 .. Len(ModuleNames) :
         m <= NamesCopied => StringHeldIn(buffer, end, strings[m], ModuleNames[m])
  /\ step = "publish" => StringHeldIn(buffer, end, pointers.commandLine, CommandLine)

LEMMA PartsStay ==
  ASSUME TranslatorInv, step \in CopySteps \ {"copyInfo"},
         NEW buffer, NEW end \in Nat, dest <= end,
         \A k \in Offsets : k + SpaceAddress < dest => buffer[k] = space[k]
  PROVE  PartsHeld(buffer, end, copy, copiedModStrings)
<1>1. /\ DestInv /\ HeldIn(space, dest, SpaceAddress, loader.address, InfoSize)
      /\ CopiedMemMapInv /\ CopiedModulesInv /\ CopiedLineInv
  BY DEF TranslatorInv, CopyInv
<1>2. dest \in Nat /\ dest <= SpaceAddress + SpaceSize
  BY <1>1 DEF DestInv
<1>3. loader \in Loaders
  BY Readable
<1>4. HeldIn(buffer, end, SpaceAddress, loader.address, InfoSize)
  BY <1>1, <1>2, StaysHeld, Sizes
<1>5. ASSUME step # "copyMemMap", loader.memMapPresent
      PROVE  HeldIn(buffer, end, copy.mmapAddr, loader.mmapAddr, loader.mmapLength)
  <2>1. HeldIn(space, dest, copy.mmapAddr, loader.mmapAddr, loader.mmapLength)
    BY <1>1, <1>5 DEF CopiedMemMapInv
  <2>2. loader.mmapLength \in Nat
    BY <1>3, LoaderFacts
  <2> QED BY <1>2, <2>1, <2>2, StaysHeld
<1>6. ASSUME step \notin {"copyMemMap", "copyModules"}, loader.modulesPresent
      PROVE  HeldIn(buffer, end, copy.modsAddr, loader.modsAddr, Len(ModuleNames) * ModuleSize)
  <2>1. HeldIn(space, dest, copy.modsAddr, loader.modsAddr, Len(ModuleNames) * ModuleSize)
    BY <1>1, <1>6 DEF CopiedModulesInv
  <2>2. Len(ModuleNames) * ModuleSize \in Nat
    BY <1>6, PartSizes
  <2> QED BY <1>2, <2>1, <2>2, StaysHeld
<1>7. ASSUME step \notin {"copyMemMap", "copyModules"}, NEW m \in 1 .. Len(ModuleNames),
             m <= NamesCopied
      PROVE  StringHeldIn(buffer, end, copiedModStrings[m], ModuleNames[m])
  <2>1. StringHeldIn(space, dest, copiedModStrings[m], ModuleNames[m])
    BY <1>1, <1>7 DEF CopiedModulesInv
  <2>2. ModuleNames[m] \in {0} \cup DOMAIN Strings
    BY <1>3, LoaderFacts
  <2> QED BY <1>2, <2>1, <2>2, StringStaysHeld
<1>8. ASSUME step = "publish"
      PROVE  StringHeldIn(buffer, end, copy.commandLine, CommandLine)
  <2>1. StringHeldIn(space, dest, copy.commandLine, CommandLine)
    BY <1>1, <1>8 DEF CopiedLineInv
  <2>2. CommandLine \in {0} \cup DOMAIN Strings
    BY <1>3, LoaderFacts
  <2> QED BY <1>2, <2>1, <2>2, StringStaysHeld
<1> QED BY <1>4, <1>5, <1>6, <1>7, <1>8 DEF PartsHeld

LEMMA CopyGoesOn ==
  ASSUME TranslatorInv, step \in CopySteps, step' \in CopySteps \ {"copyInfo"},
         loader' = loader, mbInfo' = mbInfo, modStrings' = modStrings, result' = result,
         index' \in Nat \ {0}, touched' \in Int, touched' < KernelEnd, DOMAIN space' = Offsets,
         copy' = [commandLine |-> copy'.commandLine, mmapAddr |-> copy'.mmapAddr,
                  modsAddr |-> copy'.modsAddr],
         DestInv', HeldIn(space', dest', SpaceAddress, loader.address, InfoSize),
         CopiedMemMapInv', CopiedModulesInv', CopiedLineInv'
  PROVE  TranslatorInv'
<1>1. MapInv'
  BY StaysMapped
<1>2. CopyInv'
  BY DEF CopyInv
<1>3. step # "done" /\ step' \in MapSteps \cup CopySteps
  BY DEF CopySteps
<1>4. mbInfo' = [commandLine |-> mbInfo'.commandLine, mmapAddr |-> mbInfo'.mmapAddr,
                 modsAddr |-> mbInfo'.modsAddr]
  BY DEF TranslatorInv, TranslatorTypes
<1> QED BY <1>1, <1>2, <1>3, <1>4, GoesOn

LEMMA CopyGivesUp ==
  ASSUME TranslatorInv, step \in CopySteps, step' = "done", result' = "NULL",
         loader' = loader, mbInfo' = mbInfo, copy' = copy, space' = space, touched' = touched,
         index' \in Nat \ {0}, ~ (SpaceNeeded <= SpaceSize)
  PROVE  TranslatorInv'
<1>1. touched' \in Int /\ touched' < KernelEnd
  BY DEF TranslatorInv, TranslatorTypes
<1> QED BY <1>1, GivesUp

(* The buffer, up to where it has been used.                               *)
LEMMA Used ==
  ASSUME TranslatorInv, step \in CopySteps
  PROVE  /\ dest = SpaceAddress + SpaceUsed /\ dest \in Nat /\ dest <= SpaceAddress + SpaceSize
         /\ IsAligned(dest, Alignment)
         /\ SpaceUsed \in Nat /\ NamesCopied \in 0 .. Len(ModuleNames)
         /\ Len(ModuleNames) \in Nat /\ loader \in Loaders
         /\ touched \in Int /\ touched < KernelEnd /\ index \in Nat \ {0}
         /\ copy = [commandLine |-> copy.commandLine, mmapAddr |-> copy.mmapAddr,
                    modsAddr |-> copy.modsAddr]
         /\ mbInfo = [commandLine |-> mbInfo.commandLine, mmapAddr |-> mbInfo.mmapAddr,
                      modsAddr |-> mbInfo.modsAddr]
         /\ DOMAIN space = Offsets
<1>1. DestInv
  BY DEF TranslatorInv, CopyInv
<1>2. loader \in Loaders /\ Len(ModuleNames) \in Nat
  BY Readable, LoaderFacts
<1>3. NamesCopied \in 0 .. Len(ModuleNames)
  BY <1>1 DEF DestInv
<1>4. StringsSpace(ModuleNames)[NamesCopied] \in Nat
  BY <1>3, PartSizes
<1>5. SpaceUsed \in Nat
  BY SMTT(40), <1>4, PartSizes DEF SpaceUsed
<1> QED BY <1>1, <1>2, <1>3, <1>5 DEF DestInv, TranslatorInv, TranslatorTypes

LEMMA CopyInfoKeeps ==
  ASSUME TranslatorInv, CopyInfo
  PROVE  TranslatorInv'
<1>1. /\ step = "copyInfo" /\ step \in CopySteps
      /\ CopyPart(loader.address + VirtualBase, InfoSize, mbInfo, << >>, "copyMemMap")
      /\ index' = index /\ loader' = loader /\ mbInfo' = mbInfo /\ modStrings' = modStrings
  BY DEF CopyInfo, CopyUnchanged, CopySteps
<1>2. /\ loader \in Loaders /\ IsReadable /\ loader.address \in Nat /\ InfoSize \in Nat
      /\ loader.address + InfoSize <= KernelEnd
  BY <1>1, Readable, LoaderFacts, Sizes DEF IsReadable, IsMapped
<1>3. dest = SpaceAddress
  <2>1. NamesCopied = 0 /\ StringsSpace(ModuleNames)[0] = 0
    BY <1>1, PartSizes DEF NamesCopied
  <2>2. SpaceUsed = 0
    BY <1>1, <2>1 DEF SpaceUsed
  <2> QED BY <1>1, <2>2, Used, Sizes
<1>4. \/ /\ Copied(loader.address, InfoSize)
         /\ copy' = mbInfo /\ copiedModStrings' = << >>
         /\ step' = "copyMemMap" /\ result' = result
      \/ /\ dest + Rounded(InfoSize) > SpaceAddress + SpaceSize
         /\ step' = "done" /\ result' = "NULL"
         /\ space' = space /\ touched' = touched /\ copy' = copy
  <2>1. PICK a, p, q : a = loader.address /\ p = mbInfo /\ q = << >>
    OBVIOUS
  <2>2. CopyPart(a + VirtualBase, InfoSize, p, q, "copyMemMap")
    BY <1>1, <2>1
  <2>3. a \in Nat /\ a + InfoSize <= KernelEnd
    BY <1>2, <2>1
  <2>4. \/ /\ Copied(a, InfoSize)
           /\ copy' = p /\ copiedModStrings' = q
           /\ step' = "copyMemMap" /\ result' = result
        \/ /\ dest + Rounded(InfoSize) > SpaceAddress + SpaceSize
           /\ step' = "done" /\ result' = "NULL"
           /\ space' = space /\ touched' = touched /\ copy' = copy
    BY <1>1, <1>2, <2>2, <2>3, CopiesPart
  <2> QED BY <2>1, <2>4
<1>5. CASE /\ Copied(loader.address, InfoSize)
           /\ copy' = mbInfo /\ copiedModStrings' = << >>
           /\ step' = "copyMemMap" /\ result' = result
  <2>1. /\ dest' = dest + Rounded(InfoSize) /\ dest' \in Nat /\ IsAligned(dest', Alignment)
        /\ dest' <= SpaceAddress + SpaceSize
        /\ HeldIn(space', dest', SpaceAddress, loader.address, InfoSize)
        /\ DOMAIN space' = Offsets /\ touched' \in Int /\ touched' < KernelEnd
    BY <1>3, <1>5 DEF Copied
  <2>2. DestInv'
    <3>1. NamesCopied' = 0 /\ StringsSpace(ModuleNames)[0] = 0 /\ Rounded(InfoSize) \in Nat
      BY <1>1, <1>5, PartSizes DEF NamesCopied
    <3>2. ModuleNames' = ModuleNames /\ Len(ModuleNames) \in Nat
      BY <1>1, Used, SameLoader
    <3>3. StringsSpace(ModuleNames')[NamesCopied'] = 0
      BY <3>1, <3>2
    <3>4. SpaceUsed' = Rounded(InfoSize)
      BY <1>5, <3>1, <3>3 DEF SpaceUsed
    <3> QED BY <1>3, <2>1, <3>1, <3>2, <3>4 DEF DestInv
  <2>3. CopiedMemMapInv' /\ CopiedModulesInv' /\ CopiedLineInv'
    BY <1>1, <1>5 DEF CopiedMemMapInv, CopiedModulesInv, CopiedLineInv
  <2>4. step' \in CopySteps \ {"copyInfo"}
    BY <1>5 DEF CopySteps
  <2>5. copy' = [commandLine |-> copy'.commandLine, mmapAddr |-> copy'.mmapAddr,
                 modsAddr |-> copy'.modsAddr]
    BY <1>1, <1>5, Used
  <2>6. index' \in Nat \ {0}
    BY <1>1, Used
  <2> QED BY <1>1, <1>5, <2>1, <2>2, <2>3, <2>4, <2>5, <2>6, CopyGoesOn
<1>6. CASE /\ dest + Rounded(InfoSize) > SpaceAddress + SpaceSize
           /\ step' = "done" /\ result' = "NULL"
           /\ space' = space /\ touched' = touched /\ copy' = copy
  <2>1. ~ (SpaceNeeded <= SpaceSize)
    <3>1. /\ Rounded(InfoSize) \in Nat /\ MemMapSpace \in Nat /\ ModulesSpace \in Nat
          /\ StringsSpace(ModuleNames)[Len(ModuleNames)] \in Nat
          /\ StringSpace(CommandLine) \in Nat
      BY <1>1, PartSizes, Used
    <3> QED BY SMTT(40), <1>3, <1>6, <3>1, Sizes DEF SpaceNeeded
  <2>2. index' \in Nat \ {0}
    BY <1>1, Used
  <2> QED BY <1>1, <1>6, <2>1, <2>2, CopyGivesUp
<1> QED BY <1>4, <1>5, <1>6

LEMMA CopyMemMapKeeps ==
  ASSUME TranslatorInv, CopyMemMap
  PROVE  TranslatorInv'
<1>1. /\ step = "copyMemMap" /\ step \in CopySteps /\ step \in CopySteps \ {"copyInfo"}
      /\ index' = index /\ loader' = loader /\ mbInfo' = mbInfo /\ modStrings' = modStrings
  BY DEF CopyMemMap, CopyUnchanged, CopySteps
<1>2. /\ loader \in Loaders /\ IsReadable
      /\ loader.mmapAddr \in Nat /\ loader.mmapLength \in Nat
      /\ index' \in Nat \ {0} /\ touched \in Int /\ touched < KernelEnd
      /\ dest = SpaceAddress + SpaceUsed /\ dest \in Nat /\ dest <= SpaceAddress + SpaceSize
      /\ IsAligned(dest, Alignment) /\ DOMAIN space = Offsets
      /\ copy = [commandLine |-> copy.commandLine, mmapAddr |-> copy.mmapAddr,
                 modsAddr |-> copy.modsAddr]
  BY <1>1, Used, Readable, LoaderFacts
<1>3. /\ copy.mmapAddr = mbInfo.mmapAddr /\ copy.modsAddr = mbInfo.modsAddr
      /\ copy.commandLine = mbInfo.commandLine /\ copiedModStrings = << >>
  BY <1>1 DEF TranslatorInv, CopyInv, CopiedMemMapInv, CopiedModulesInv, CopiedLineInv
<1>4. /\ ModuleNames' = ModuleNames /\ Len(ModuleNames) \in Nat /\ MemMapSpace' = MemMapSpace
  BY <1>1, Used, SameLoader
<1>5. /\ StringsSpace(ModuleNames)[0] = 0 /\ Rounded(InfoSize) \in Nat /\ MemMapSpace \in Nat
      /\ ModulesSpace \in Nat /\ StringSpace(CommandLine) \in Nat
      /\ StringsSpace(ModuleNames)[Len(ModuleNames)] \in Nat
  BY <1>1, <1>4, PartSizes
<1>6. SpaceUsed = Rounded(InfoSize)
  <2>1. NamesCopied = 0
    BY <1>1 DEF NamesCopied
  <2> QED BY <1>1, <1>5, <2>1 DEF SpaceUsed
<1>7. ASSUME NEW p, copy' = [copy EXCEPT !.mmapAddr = p], copiedModStrings' = << >>,
             step' = "copyModules", result' = result, touched' \in Int, touched' < KernelEnd,
             DOMAIN space' = Offsets, dest' = dest + MemMapSpace, IsAligned(dest', Alignment),
             dest' <= SpaceAddress + SpaceSize,
             \A k \in Offsets : k + SpaceAddress < dest => space'[k] = space[k],
             IF loader.memMapPresent
               THEN HeldIn(space', dest', p, loader.mmapAddr, loader.mmapLength) ELSE p = 0
      PROVE  TranslatorInv'
  <2>1. dest' \in Nat /\ dest <= dest'
    BY SMTT(40), <1>2, <1>5, <1>7
  <2>2. PartsHeld(space', dest', copy, copiedModStrings)
    BY <1>1, <1>7, <2>1, PartsStay
  <2>3. HeldIn(space', dest', SpaceAddress, loader.address, InfoSize)
    BY <2>2 DEF PartsHeld
  <2>4. copy' = [commandLine |-> mbInfo.commandLine, mmapAddr |-> p, modsAddr |-> mbInfo.modsAddr]
    BY <1>2, <1>3, <1>7
  <2>5. CopiedMemMapInv'
    BY <1>1, <1>7, <2>4 DEF CopiedMemMapInv
  <2>6. CopiedModulesInv' /\ CopiedLineInv'
    BY <1>1, <1>7, <2>4 DEF CopiedModulesInv, CopiedLineInv
  <2>7. DestInv'
    <3>1. NamesCopied' = 0
      BY <1>7 DEF NamesCopied
    <3>2. StringsSpace(ModuleNames')[NamesCopied'] = 0
      BY <1>4, <1>5, <3>1
    <3>3. SpaceUsed' = Rounded(InfoSize) + MemMapSpace
      BY <1>4, <1>5, <1>7, <3>2 DEF SpaceUsed
    <3>4. NamesCopied' \in 0 .. Len(ModuleNames')
      BY <1>4, <3>1
    <3>5. dest' = SpaceAddress + SpaceUsed'
      BY ONLY SMTT(40), <1>2, <1>5, <1>6, <1>7, <3>3, Sizes
    <3> QED BY <1>7, <2>1, <3>4, <3>5 DEF DestInv
  <2>8. step' \in CopySteps \ {"copyInfo"}
    BY <1>7 DEF CopySteps
  <2>9. copy' = [commandLine |-> copy'.commandLine, mmapAddr |-> copy'.mmapAddr,
                 modsAddr |-> copy'.modsAddr]
    BY <2>4
  <2> QED BY <1>1, <1>2, <1>7, <2>3, <2>5, <2>6, <2>7, <2>8, <2>9, CopyGoesOn
<1>8. CASE loader.memMapPresent
  <2>1. loader.mmapAddr + loader.mmapLength <= KernelEnd
    BY <1>2, <1>8 DEF IsReadable, IsMapped
  <2>2. MemMapSpace = Rounded(loader.mmapLength)
    BY <1>8 DEF MemMapSpace
  <2>3. PICK a, n, source, p, q :
          /\ a = loader.mmapAddr /\ n = loader.mmapLength /\ source = copy.mmapAddr
          /\ p = [copy EXCEPT !.mmapAddr = dest] /\ q = << >>
    OBVIOUS
  <2>4. CopyPart(source, n, p, q, "copyModules")
    BY <1>8, <2>3 DEF CopyMemMap
  <2>5. source = a + VirtualBase
    BY <1>1, <1>3, <1>8, <2>3, Readable
  <2>6. a \in Nat /\ n \in Nat /\ a + n <= KernelEnd
    BY <1>2, <2>1, <2>3
  <2>7. \/ /\ Copied(a, n)
           /\ copy' = p /\ copiedModStrings' = q
           /\ step' = "copyModules" /\ result' = result
        \/ /\ dest + Rounded(n) > SpaceAddress + SpaceSize
           /\ step' = "done" /\ result' = "NULL"
           /\ space' = space /\ touched' = touched /\ copy' = copy
    BY <1>1, <2>4, <2>5, <2>6, CopiesPart
  <2>8. CASE /\ Copied(a, n)
             /\ copy' = p /\ copiedModStrings' = q
             /\ step' = "copyModules" /\ result' = result
    <3>1. PICK d : d = dest
      OBVIOUS
    <3>2. /\ copy' = [copy EXCEPT !.mmapAddr = d] /\ copiedModStrings' = << >>
          /\ touched' \in Int /\ touched' < KernelEnd
          /\ DOMAIN space' = Offsets /\ dest' = dest + MemMapSpace /\ IsAligned(dest', Alignment)
          /\ dest' <= SpaceAddress + SpaceSize
          /\ \A k \in Offsets : k + SpaceAddress < dest => space'[k] = space[k]
          /\ HeldIn(space', dest', d, loader.mmapAddr, loader.mmapLength)
      BY <2>2, <2>3, <2>8, <3>1 DEF Copied
    <3> QED BY <1>7, <1>8, <2>8, <3>2
  <2>9. CASE /\ dest + Rounded(n) > SpaceAddress + SpaceSize
             /\ step' = "done" /\ result' = "NULL"
             /\ space' = space /\ touched' = touched /\ copy' = copy
    <3>1. Rounded(n) = MemMapSpace
      BY <2>2, <2>3
    <3>2. SpaceAddress + Rounded(InfoSize) + MemMapSpace > SpaceAddress + SpaceSize
      BY <1>2, <1>6, <2>9, <3>1
    <3>3. ~ (SpaceNeeded <= SpaceSize)
      BY SMTT(40), <1>5, <3>2, Sizes DEF SpaceNeeded
    <3> QED BY <1>1, <1>2, <2>9, <3>3, CopyGivesUp
  <2> QED BY <2>7, <2>8, <2>9
<1>9. CASE ~ loader.memMapPresent
  <2>1. /\ copy' = [copy EXCEPT !.mmapAddr = 0] /\ step' = "copyModules"
        /\ space' = space /\ dest' = dest /\ touched' = touched /\ result' = result
        /\ copiedModStrings' = << >>
    BY <1>3, <1>9 DEF CopyMemMap, CopyNothing
  <2>2. MemMapSpace = 0
    BY <1>9 DEF MemMapSpace
  <2>3. dest' = dest + MemMapSpace
    BY <1>2, <2>1, <2>2
  <2> QED BY <1>2, <1>7, <1>9, <2>1, <2>3
<1> QED BY <1>8, <1>9

LEMMA CopyModulesKeeps ==
  ASSUME TranslatorInv, CopyModules
  PROVE  TranslatorInv'
<1>1. /\ step = "copyModules" /\ step \in CopySteps /\ step \in CopySteps \ {"copyInfo"}
      /\ index' = 1 /\ loader' = loader /\ mbInfo' = mbInfo /\ modStrings' = modStrings
  BY DEF CopyModules, CopyUnchanged, CopySteps
<1>2. /\ loader \in Loaders /\ IsReadable /\ loader.modsAddr \in Nat
      /\ index' \in Nat \ {0} /\ touched \in Int /\ touched < KernelEnd
      /\ dest = SpaceAddress + SpaceUsed /\ dest \in Nat /\ dest <= SpaceAddress + SpaceSize
      /\ IsAligned(dest, Alignment) /\ DOMAIN space = Offsets
      /\ copy = [commandLine |-> copy.commandLine, mmapAddr |-> copy.mmapAddr,
                 modsAddr |-> copy.modsAddr]
  BY <1>1, Used, Readable, LoaderFacts
<1>3. /\ copy.modsAddr = mbInfo.modsAddr /\ copy.commandLine = mbInfo.commandLine
      /\ copiedModStrings = << >> /\ CopiedMemMapInv
  BY <1>1 DEF TranslatorInv, CopyInv, CopiedModulesInv, CopiedLineInv
<1>4. /\ ModuleNames' = ModuleNames /\ Len(ModuleNames) \in Nat
      /\ MemMapSpace' = MemMapSpace /\ ModulesSpace' = ModulesSpace
  BY <1>1, Used, SameLoader
<1>5. /\ StringsSpace(ModuleNames)[0] = 0 /\ Rounded(InfoSize) \in Nat /\ MemMapSpace \in Nat
      /\ ModulesSpace \in Nat /\ StringSpace(CommandLine) \in Nat
      /\ StringsSpace(ModuleNames)[Len(ModuleNames)] \in Nat
  BY <1>1, <1>4, PartSizes
<1>6. SpaceUsed = Rounded(InfoSize) + MemMapSpace
  <2>1. NamesCopied = 0
    BY <1>1 DEF NamesCopied
  <2> QED BY <1>1, <1>5, <2>1 DEF SpaceUsed
<1>7. ASSUME NEW p, copy' = [copy EXCEPT !.modsAddr = p],
             step' \in {"copyNames", "copyCommandLine"}, NamesCopied' = 0,
             result' = result, touched' \in Int, touched' < KernelEnd,
             DOMAIN space' = Offsets, dest' = dest + ModulesSpace, IsAligned(dest', Alignment),
             dest' <= SpaceAddress + SpaceSize,
             \A k \in Offsets : k + SpaceAddress < dest => space'[k] = space[k],
             CopiedModulesInv'
      PROVE  TranslatorInv'
  <2>1. dest' \in Nat /\ dest <= dest'
    BY <1>2, <1>5, <1>7
  <2>2. PartsHeld(space', dest', copy, copiedModStrings)
    BY <1>1, <1>7, <2>1, PartsStay
  <2>3. HeldIn(space', dest', SpaceAddress, loader.address, InfoSize)
    BY <2>2 DEF PartsHeld
  <2>4. copy' = [commandLine |-> mbInfo.commandLine, mmapAddr |-> copy.mmapAddr, modsAddr |-> p]
    BY <1>2, <1>3, <1>7
  <2>5. CopiedMemMapInv'
    <3>1. loader.memMapPresent =>
            HeldIn(space', dest', copy.mmapAddr, loader.mmapAddr, loader.mmapLength)
      BY <1>1, <2>2 DEF PartsHeld
    <3>2. ~ loader.memMapPresent => copy.mmapAddr = 0
      BY <1>1, <1>3 DEF CopiedMemMapInv
    <3>3. copy'.mmapAddr = copy.mmapAddr /\ step' # "copyMemMap"
      BY <1>7, <2>4
    <3> QED BY <1>1, <3>1, <3>2, <3>3 DEF CopiedMemMapInv
  <2>6. CopiedLineInv'
    BY <1>1, <1>7, <2>4 DEF CopiedLineInv
  <2>7. DestInv'
    <3>1. StringsSpace(ModuleNames')[NamesCopied'] = 0
      BY <1>4, <1>5, <1>7
    <3>2. SpaceUsed' = Rounded(InfoSize) + MemMapSpace + ModulesSpace
      BY <1>4, <1>5, <1>7, <3>1 DEF SpaceUsed
    <3>3. dest' = SpaceAddress + SpaceUsed'
      <4>1. dest' = SpaceAddress + (Rounded(InfoSize) + MemMapSpace) + ModulesSpace
        BY <1>2, <1>6, <1>7
      <4> QED BY ONLY <1>5, <3>2, <4>1, Sizes
    <3>4. NamesCopied' \in 0 .. Len(ModuleNames')
      BY <1>4, <1>7
    <3> QED BY <1>7, <2>1, <3>3, <3>4 DEF DestInv
  <2>8. step' \in CopySteps \ {"copyInfo"}
    BY <1>7 DEF CopySteps
  <2>9. copy' = [commandLine |-> copy'.commandLine, mmapAddr |-> copy'.mmapAddr,
                 modsAddr |-> copy'.modsAddr]
    BY <2>4
  <2> QED BY <1>1, <1>2, <1>7, <2>3, <2>5, <2>6, <2>7, <2>8, <2>9, CopyGoesOn
<1>8. CASE loader.modulesPresent
  <2> DEFINE y == Len(ModuleNames) * ModuleSize
  <2>1. loader.modsAddr + y <= KernelEnd /\ y \in Nat
    <3>1. y \in Nat
      BY <1>1, <1>8, PartSizes
    <3>2. IsMapped(loader.modsAddr, y)
      BY <1>2, <1>8 DEF IsReadable
    <3> HIDE DEF y
    <3> QED BY <3>1, <3>2 DEF IsMapped
  <2>2. ModulesSpace = Rounded(y) /\ Len(modStrings) = Len(ModuleNames)
    BY <1>1, <1>8, Readable DEF ModulesSpace
  <2>3. PICK a, n, source, p, q :
          /\ a = loader.modsAddr /\ n = y /\ source = copy.modsAddr
          /\ p = [copy EXCEPT !.modsAddr = dest] /\ q = modStrings
    OBVIOUS
  <2>4. CopyPart(source, n, p, q, "copyNames")
    <3>1. CopyPart(copy.modsAddr, Len(modStrings) * ModuleSize,
                   [copy EXCEPT !.modsAddr = dest], modStrings, "copyNames")
      BY <1>8 DEF CopyModules
    <3>2. Len(modStrings) * ModuleSize = y
      BY <2>2
    <3> HIDE DEF y
    <3> QED BY <2>3, <3>1, <3>2
  <2>5. source = a + VirtualBase
    BY <1>1, <1>3, <1>8, <2>3, Readable
  <2>6. a \in Nat /\ n \in Nat /\ a + n <= KernelEnd
    <3> HIDE DEF y
    <3> QED BY <1>2, <2>1, <2>3
  <2>7. \/ /\ Copied(a, n)
           /\ copy' = p /\ copiedModStrings' = q
           /\ step' = "copyNames" /\ result' = result
        \/ /\ dest + Rounded(n) > SpaceAddress + SpaceSize
           /\ step' = "done" /\ result' = "NULL"
           /\ space' = space /\ touched' = touched /\ copy' = copy
    BY <1>1, <2>4, <2>5, <2>6, CopiesPart
  <2>8. CASE /\ Copied(a, n)
             /\ copy' = p /\ copiedModStrings' = q
             /\ step' = "copyNames" /\ result' = result
    <3>1. PICK d : d = dest
      OBVIOUS
    <3>2. /\ copy' = [copy EXCEPT !.modsAddr = d] /\ copiedModStrings' = modStrings
          /\ touched' \in Int /\ touched' < KernelEnd
          /\ DOMAIN space' = Offsets /\ dest' = dest + ModulesSpace /\ IsAligned(dest', Alignment)
          /\ dest' <= SpaceAddress + SpaceSize
          /\ \A k \in Offsets : k + SpaceAddress < dest => space'[k] = space[k]
          /\ HeldIn(space', dest', d, loader.modsAddr, y)
      <4> HIDE DEF y
      <4> QED BY <2>2, <2>3, <2>8, <3>1 DEF Copied
    <3>3. NamesCopied' = 0
      BY <1>1, <2>8 DEF NamesCopied
    <3>4. CopiedModulesInv'
      <4>1. copy'.modsAddr = d
        BY <1>2, <3>2
      <4>2. HeldIn(space', dest', copy'.modsAddr, loader'.modsAddr,
                   Len(ModuleNames') * ModuleSize)
        BY <1>1, <1>4, <3>2, <4>1
      <4>3. /\ modStrings \in Seq(Nat) /\ Len(modStrings) = Len(ModuleNames)
            /\ \A m \in 1 .. Len(ModuleNames) : modStrings[m] = Mapped(ModuleNames[m])
        BY <1>1, <2>2, Readable
      <4>4. \A m \in 1 .. Len(ModuleNames) : ~ (m <= NamesCopied')
        BY <1>4, <3>3
      <4> HIDE DEF y
      <4> QED BY <1>1, <1>4, <1>8, <2>8, <3>2, <4>2, <4>3, <4>4
              DEF CopiedModulesInv, Mapped
    <3> HIDE DEF y
    <3> QED BY <1>7, <2>8, <3>2, <3>3, <3>4
  <2>9. CASE /\ dest + Rounded(n) > SpaceAddress + SpaceSize
             /\ step' = "done" /\ result' = "NULL"
             /\ space' = space /\ touched' = touched /\ copy' = copy
    <3>1. Rounded(n) = ModulesSpace
      BY <2>2, <2>3
    <3>2. SpaceAddress + Rounded(InfoSize) + MemMapSpace + ModulesSpace > SpaceAddress + SpaceSize
      <4>1. dest = SpaceAddress + (Rounded(InfoSize) + MemMapSpace)
        BY <1>2, <1>6
      <4>2. dest + ModulesSpace > SpaceAddress + SpaceSize
        BY <2>9, <3>1
      <4> QED BY ONLY <1>5, <4>1, <4>2, Sizes
    <3>3. ~ (SpaceNeeded <= SpaceSize)
      BY SMTT(40), <1>5, <3>2, Sizes DEF SpaceNeeded
    <3> QED BY <1>1, <1>2, <2>9, <3>3, CopyGivesUp
  <2> QED BY <2>7, <2>8, <2>9
<1>9. CASE ~ loader.modulesPresent
  <2>1. /\ copy' = [copy EXCEPT !.modsAddr = 0] /\ step' = "copyCommandLine"
        /\ space' = space /\ dest' = dest /\ touched' = touched /\ result' = result
        /\ copiedModStrings' = << >>
    BY <1>3, <1>9 DEF CopyModules, CopyNothing
  <2>2. ModulesSpace = 0 /\ ModuleNames = << >> /\ Len(ModuleNames) = 0
    BY <1>9, EmptySeq DEF ModulesSpace, ModuleNames
  <2>3. dest' = dest + ModulesSpace
    BY <1>2, <2>1, <2>2
  <2>4. NamesCopied' = 0
    BY <1>4, <2>1, <2>2 DEF NamesCopied
  <2>5. CopiedModulesInv'
    <3>1. copy'.modsAddr = 0
      BY <1>2, <2>1
    <3>2. << >> \in Seq(Nat)
      BY EmptySeq
    <3>3. Len(copiedModStrings') = Len(ModuleNames') /\ 1 .. Len(ModuleNames') = {}
      BY <1>4, <2>1, <2>2
    <3> QED BY <1>1, <1>9, <2>1, <3>1, <3>2, <3>3 DEF CopiedModulesInv
  <2> QED BY <1>2, <1>7, <1>9, <2>1, <2>3, <2>4, <2>5
<1> QED BY <1>8, <1>9

(* One more string, of c bytes, behind a + b others.                       *)
LEMMA OneMore ==
  ASSUME NEW a \in Nat, NEW b \in Nat, NEW c \in Nat, NEW d \in Nat, d = b + c,
         NEW start \in Nat, NEW size \in Nat
  PROVE  /\ start + (a + b) + c = start + (a + d)
         /\ \A e, f \in Nat :
              start + (a + b) + c > start + size /\ d <= e => ~ (a + e + f <= size)
OBVIOUS

LEMMA CopyModuleNameKeeps ==
  ASSUME TranslatorInv, CopyModuleName
  PROVE  TranslatorInv'
<1> DEFINE n == Len(ModuleNames)
           s == ModuleNames[index]
           sum == StringsSpace(ModuleNames)
           front == Rounded(InfoSize) + MemMapSpace + ModulesSpace
<1>1. /\ step = "copyNames" /\ step \in CopySteps /\ step \in CopySteps \ {"copyInfo"}
      /\ index <= Len(copiedModStrings)
      /\ index' = index + 1 /\ loader' = loader /\ mbInfo' = mbInfo /\ modStrings' = modStrings
  BY DEF CopyModuleName, CopyUnchanged, CopySteps
<1>2. /\ loader \in Loaders /\ IsReadable /\ index \in Nat \ {0}
      /\ touched \in Int /\ touched < KernelEnd /\ n \in Nat
      /\ dest = SpaceAddress + SpaceUsed /\ dest \in Nat /\ dest <= SpaceAddress + SpaceSize
      /\ IsAligned(dest, Alignment) /\ DOMAIN space = Offsets
      /\ copy = [commandLine |-> copy.commandLine, mmapAddr |-> copy.mmapAddr,
                 modsAddr |-> copy.modsAddr]
  BY <1>1, Used, Readable
<1>3. NamesCopied = index - 1
  BY <1>1 DEF NamesCopied
<1>4. /\ CopiedMemMapInv /\ CopiedModulesInv /\ copy.commandLine = mbInfo.commandLine
      /\ loader.modulesPresent /\ Len(copiedModStrings) = n /\ copiedModStrings \in Seq(Nat)
      /\ \A m \in 1 .. n :
           IF m <= NamesCopied THEN StringHeldIn(space, dest, copiedModStrings[m], ModuleNames[m])
                               ELSE copiedModStrings[m] = Mapped(ModuleNames[m])
  BY <1>1 DEF TranslatorInv, CopyInv, CopiedModulesInv, CopiedLineInv
<1>5. /\ ModuleNames' = ModuleNames /\ MemMapSpace' = MemMapSpace /\ ModulesSpace' = ModulesSpace
  BY <1>1, SameLoader
<1>6. index \in 1 .. n /\ index - 1 \in 0 .. n /\ index \in 0 .. n /\ n \in 0 .. n
  BY <1>1, <1>2, <1>4
<1>7. /\ s \in {0} \cup DOMAIN Strings /\ copiedModStrings[index] = Mapped(s)
      /\ StringIsMapped(s)
  <2>1. ~ (index <= NamesCopied)
    BY <1>2, <1>3
  <2> HIDE DEF n
  <2> QED BY <1>2, <1>4, <1>6, <2>1, LoaderFacts DEF IsReadable, n
<1>8. /\ sum[index] = sum[index - 1] + StringSpace(s) /\ StringSpace(s) \in Nat
      /\ sum[index - 1] \in Nat /\ sum[index] \in Nat /\ sum[n] \in Nat /\ sum[index] <= sum[n]
      /\ Rounded(InfoSize) \in Nat /\ MemMapSpace \in Nat /\ ModulesSpace \in Nat
      /\ StringSpace(CommandLine) \in Nat
  BY <1>1, <1>6, PartSizes
<1>9. SpaceUsed = front + sum[index - 1] /\ front \in Nat
  <2>1. Rounded(InfoSize) \in Nat /\ MemMapSpace \in Nat /\ ModulesSpace \in Nat
    BY <1>8
  <2>2. front \in Nat
    BY ONLY <2>1
  <2>3. SpaceUsed = front + sum[index - 1] + 0
    BY <1>1, <1>3 DEF SpaceUsed
  <2> HIDE DEF front, sum
  <2> QED BY <1>8, <2>2, <2>3
<1>10. ASSUME NEW strings, copiedModStrings' = strings, strings \in Seq(Nat), Len(strings) = n,
              \A m \in 1 .. n : m # index => strings[m] = copiedModStrings[m],
              StringHeldIn(space', dest', strings[index], s), copy' = copy,
              step' = "copyNames", result' = result, touched' \in Int, touched' < KernelEnd,
              DOMAIN space' = Offsets, dest' = dest + StringSpace(s), IsAligned(dest', Alignment),
              dest' <= SpaceAddress + SpaceSize,
              \A k \in Offsets : k + SpaceAddress < dest => space'[k] = space[k]
      PROVE  TranslatorInv'
  <2>1. dest' \in Nat /\ dest <= dest'
    <3>1. dest \in Nat /\ StringSpace(s) \in Nat /\ dest' = dest + StringSpace(s)
      BY <1>2, <1>8, <1>10
    <3> QED BY ONLY <3>1
  <2>2. PartsHeld(space', dest', copy, copiedModStrings)
    BY <1>1, <1>10, <2>1, PartsStay
  <2>3. /\ HeldIn(space', dest', SpaceAddress, loader.address, InfoSize)
        /\ loader.memMapPresent =>
             HeldIn(space', dest', copy.mmapAddr, loader.mmapAddr, loader.mmapLength)
        /\ HeldIn(space', dest', copy.modsAddr, loader.modsAddr, n * ModuleSize)
        /\ \A m \in 1 .. n :
             m <= NamesCopied => StringHeldIn(space', dest', copiedModStrings[m], ModuleNames[m])
    BY <1>1, <1>4, <2>2 DEF PartsHeld
  <2>4. NamesCopied' = index
    BY <1>1, <1>2, <1>10 DEF NamesCopied
  <2>5. CopiedMemMapInv'
    <3>1. ~ loader.memMapPresent => copy.mmapAddr = 0
      BY <1>1, <1>4 DEF CopiedMemMapInv
    <3> QED BY <1>1, <1>10, <2>3, <3>1 DEF CopiedMemMapInv
  <2>6. CopiedLineInv'
    BY <1>1, <1>4, <1>10 DEF CopiedLineInv
  <2>7. CopiedModulesInv'
    <3>1. ASSUME NEW m \in 1 .. n
          PROVE  IF m <= index THEN StringHeldIn(space', dest', strings[m], ModuleNames[m])
                               ELSE strings[m] = Mapped(ModuleNames[m])
      <4>1. CASE m < index
        <5>1. m <= NamesCopied /\ m <= index /\ strings[m] = copiedModStrings[m]
          BY <1>2, <1>3, <1>10, <4>1
        <5> QED BY <2>3, <5>1
      <4>2. CASE m = index
        BY <1>2, <1>10, <4>2
      <4>3. CASE m > index
        <5>1. ~ (m <= NamesCopied) /\ ~ (m <= index) /\ strings[m] = copiedModStrings[m]
          BY <1>2, <1>3, <1>10, <4>3
        <5> QED BY <1>4, <5>1
      <4> QED BY <1>2, <4>1, <4>2, <4>3
    <3>2. HeldIn(space', dest', copy'.modsAddr, loader'.modsAddr, Len(ModuleNames') * ModuleSize)
      BY <1>1, <1>5, <1>10, <2>3
    <3>3. \A m \in 1 .. Len(ModuleNames') :
            IF m <= NamesCopied'
              THEN StringHeldIn(space', dest', copiedModStrings'[m], ModuleNames'[m])
              ELSE copiedModStrings'[m] = Mapped(ModuleNames'[m])
      BY <1>5, <1>10, <2>4, <3>1
    <3>4. copiedModStrings' \in Seq(Nat) /\ Len(copiedModStrings') = Len(ModuleNames')
      BY <1>5, <1>10
    <3>5. step' \notin {"copyMemMap", "copyModules"} /\ loader'.modulesPresent
      BY <1>1, <1>4, <1>10
    <3> QED BY <3>2, <3>3, <3>4, <3>5 DEF CopiedModulesInv, Mapped
  <2>8. DestInv'
    <3>1. StringsSpace(ModuleNames')[NamesCopied'] = sum[index]
      BY <1>5, <2>4
    <3>2. SpaceUsed' = front + sum[index]
      BY <1>5, <1>8, <1>10, <3>1 DEF SpaceUsed
    <3>3. dest' = SpaceAddress + SpaceUsed'
      <4>1. dest' = SpaceAddress + (front + sum[index - 1]) + StringSpace(s)
        BY <1>2, <1>9, <1>10
      <4> HIDE DEF s, sum, front
      <4>2. SpaceAddress + (front + sum[index - 1]) + StringSpace(s)
              = SpaceAddress + (front + sum[index])
        <5> DEFINE b == sum[index - 1]
                   d == sum[index]
                   c == StringSpace(s)
        <5>1. b \in Nat /\ c \in Nat /\ d \in Nat /\ d = b + c /\ front \in Nat
          BY <1>8, <1>9
        <5> HIDE DEF b, c, d
        <5>2. SpaceAddress + (front + b) + c = SpaceAddress + (front + d)
          BY ONLY <5>1, Sizes, OneMore
        <5> QED BY <5>2 DEF b, c, d
      <4> QED BY ONLY <3>2, <4>1, <4>2
    <3>4. NamesCopied' \in 0 .. Len(ModuleNames')
      BY <1>5, <1>6, <2>4
    <3> QED BY <1>10, <2>1, <3>3, <3>4 DEF DestInv
  <2>9. step' \in CopySteps \ {"copyInfo"} /\ index' \in Nat \ {0}
    BY <1>1, <1>2, <1>10
  <2>10. copy' = [commandLine |-> copy'.commandLine, mmapAddr |-> copy'.mmapAddr,
                  modsAddr |-> copy'.modsAddr]
    BY <1>2, <1>10
  <2> QED BY <1>1, <1>10, <2>3, <2>5, <2>6, <2>7, <2>8, <2>9, <2>10, CopyGoesOn
<1>11. CASE s = 0
  <2>1. copiedModStrings[index] = 0 /\ StringSpace(s) = 0
    BY <1>7, <1>11 DEF Mapped, StringSpace
  <2>2. /\ copy' = copy /\ step' = "copyNames"
        /\ space' = space /\ dest' = dest /\ touched' = touched /\ result' = result
        /\ copiedModStrings' = copiedModStrings
    BY <2>1 DEF CopyModuleName, CopyNothing
  <2>3. StringHeldIn(space', dest', copiedModStrings[index], s)
    BY <1>11, <2>1 DEF StringHeldIn
  <2>4. dest' = dest + StringSpace(s)
    BY <1>2, <2>1, <2>2
  <2> HIDE DEF s, n
  <2> QED BY <1>2, <1>4, <1>10, <2>2, <2>3, <2>4
<1>12. CASE s # 0
  <2>1. /\ s \in DOMAIN Strings /\ s \in Nat /\ Strings[s] + 1 \in Nat
        /\ s + (Strings[s] + 1) <= KernelEnd
    BY <1>7, <1>12, StringFacts DEF StringIsMapped, IsMapped
  <2>2. /\ copiedModStrings[index] = s + VirtualBase /\ copiedModStrings[index] # 0
        /\ StringSize(copiedModStrings[index]) = Strings[s] + 1
    <3>1. copiedModStrings[index] = s + VirtualBase
      BY <1>7, <1>12 DEF Mapped
    <3>2. s \in Nat /\ VirtualBase \in Nat /\ 0 < VirtualBase
      BY <2>1, Sizes
    <3> HIDE DEF s
    <3>3. PICK name : name = copiedModStrings[index]
      OBVIOUS
    <3>4. name # 0 /\ name - VirtualBase = s
      <4>1. name = s + VirtualBase
        BY ONLY <3>1, <3>3
      <4> QED BY ONLY <3>2, <4>1
    <3>5. StringSize(name) = Strings[s] + 1
      BY ONLY <3>4, Zenon DEF StringSize
    <3> QED BY ONLY <3>1, <3>3, <3>4, <3>5
  <2>3. StringSpace(s) = Rounded(Strings[s] + 1)
    BY <1>12 DEF StringSpace
  <2>4. PICK a, size, source, p, q :
          /\ a = s /\ size = Strings[s] + 1 /\ source = copiedModStrings[index]
          /\ p = copy /\ q = [copiedModStrings EXCEPT ![index] = dest]
    OBVIOUS
  <2>5. CopyPart(source, size, p, q, "copyNames")
    <3>1. CopyPart(copiedModStrings[index], StringSize(copiedModStrings[index]), copy,
                   [copiedModStrings EXCEPT ![index] = dest], "copyNames")
      BY <2>2 DEF CopyModuleName
    <3> QED BY <2>2, <2>4, <3>1
  <2>6. /\ source = a + VirtualBase /\ a \in Nat /\ size \in Nat /\ a + size <= KernelEnd
    BY <2>1, <2>2, <2>4
  <2>7. \/ /\ Copied(a, size)
           /\ copy' = p /\ copiedModStrings' = q
           /\ step' = "copyNames" /\ result' = result
        \/ /\ dest + Rounded(size) > SpaceAddress + SpaceSize
           /\ step' = "done" /\ result' = "NULL"
           /\ space' = space /\ touched' = touched /\ copy' = copy
    BY <1>1, <2>5, <2>6, CopiesPart
  <2>8. CASE /\ Copied(a, size)
             /\ copy' = p /\ copiedModStrings' = q
             /\ step' = "copyNames" /\ result' = result
    <3>1. /\ copiedModStrings' = q /\ q \in Seq(Nat) /\ Len(q) = n
          /\ q[index] = dest /\ \A m \in 1 .. n : m # index => q[m] = copiedModStrings[m]
      <4> HIDE DEF s, n
      <4> QED BY <1>2, <1>4, <1>6, <2>4, <2>8, ExceptSeq
    <3>2. StringHeldIn(space', dest', q[index], s)
      BY <1>12, <2>4, <2>8, <3>1 DEF StringHeldIn, Copied
    <3>3. /\ touched' \in Int /\ touched' < KernelEnd
          /\ DOMAIN space' = Offsets /\ dest' = dest + StringSpace(s)
          /\ IsAligned(dest', Alignment) /\ dest' <= SpaceAddress + SpaceSize
          /\ \A k \in Offsets : k + SpaceAddress < dest => space'[k] = space[k]
          /\ copy' = copy
      BY <2>3, <2>4, <2>8 DEF Copied
    <3> HIDE DEF s, n
    <3> QED BY <1>10, <2>8, <3>1, <3>2, <3>3
  <2>9. CASE /\ dest + Rounded(size) > SpaceAddress + SpaceSize
             /\ step' = "done" /\ result' = "NULL"
             /\ space' = space /\ touched' = touched /\ copy' = copy
    <3>1. Rounded(size) = StringSpace(s)
      BY <2>3, <2>4
    <3>2. SpaceAddress + (front + sum[index - 1]) + StringSpace(s) > SpaceAddress + SpaceSize
      BY <1>2, <1>9, <2>9, <3>1
    <3>3. ~ (SpaceNeeded <= SpaceSize)
      <4>1. SpaceNeeded = front + sum[n] + StringSpace(CommandLine)
        BY DEF SpaceNeeded
      <4> HIDE DEF s, sum, front, n
      <4>2. ~ (front + sum[n] + StringSpace(CommandLine) <= SpaceSize)
        BY ONLY <1>8, <1>9, <3>2, Sizes, OneMore
      <4> QED BY ONLY <4>1, <4>2
    <3>4. index' \in Nat \ {0}
      BY <1>1, <1>2
    <3> QED BY <1>1, <2>9, <3>3, <3>4, CopyGivesUp
  <2> QED BY <2>7, <2>8, <2>9
<1> QED BY <1>11, <1>12

LEMMA CopyNamesDoneKeeps ==
  ASSUME TranslatorInv, CopyNamesDone
  PROVE  TranslatorInv'
<1> DEFINE n == Len(ModuleNames)
<1>1. /\ step = "copyNames" /\ step \in CopySteps /\ step \in CopySteps \ {"copyInfo"}
      /\ index > Len(copiedModStrings) /\ step' = "copyCommandLine"
      /\ index' = index /\ loader' = loader /\ mbInfo' = mbInfo /\ modStrings' = modStrings
      /\ space' = space /\ dest' = dest /\ touched' = touched /\ copy' = copy
      /\ copiedModStrings' = copiedModStrings /\ result' = result
  BY DEF CopyNamesDone, CopyNothing, CopyUnchanged, CopySteps
<1>2. /\ loader \in Loaders /\ index \in Nat \ {0}
      /\ touched \in Int /\ touched < KernelEnd /\ n \in Nat
      /\ dest = SpaceAddress + SpaceUsed /\ dest \in Nat /\ dest <= SpaceAddress + SpaceSize
      /\ IsAligned(dest, Alignment) /\ DOMAIN space = Offsets /\ NamesCopied \in 0 .. n
      /\ copy = [commandLine |-> copy.commandLine, mmapAddr |-> copy.mmapAddr,
                 modsAddr |-> copy.modsAddr]
  BY <1>1, Used
<1>3. /\ HeldIn(space, dest, SpaceAddress, loader.address, InfoSize)
      /\ CopiedMemMapInv /\ CopiedModulesInv /\ CopiedLineInv
      /\ Len(copiedModStrings) = n
  BY <1>1 DEF TranslatorInv, CopyInv, CopiedModulesInv
<1>4. /\ ModuleNames' = ModuleNames /\ MemMapSpace' = MemMapSpace /\ ModulesSpace' = ModulesSpace
  BY <1>1, SameLoader
<1>5. NamesCopied = n /\ NamesCopied' = n
  <2>1. NamesCopied = index - 1
    BY <1>1 DEF NamesCopied
  <2>2. NamesCopied' = n
    BY <1>1, <1>4 DEF NamesCopied
  <2> HIDE DEF n
  <2> QED BY ONLY <1>1, <1>2, <1>3, <2>1, <2>2
<1>6. SpaceUsed' = SpaceUsed
  <2>1. StringsSpace(ModuleNames')[NamesCopied'] = StringsSpace(ModuleNames)[NamesCopied]
    BY <1>4, <1>5
  <2> QED BY <1>1, <1>4, <2>1 DEF SpaceUsed
<1>7. DestInv'
  <2>1. NamesCopied' \in 0 .. Len(ModuleNames')
    BY <1>2, <1>4, <1>5
  <2> QED BY <1>1, <1>2, <1>6, <2>1 DEF DestInv
<1>8. CopiedMemMapInv'
  BY <1>1, <1>3 DEF CopiedMemMapInv
<1>9. CopiedLineInv'
  BY <1>1, <1>3 DEF CopiedLineInv
<1>10. CopiedModulesInv'
  BY <1>1, <1>3, <1>4, <1>5 DEF CopiedModulesInv, Mapped
<1>11. step' \in CopySteps \ {"copyInfo"}
  BY <1>1 DEF CopySteps
<1> QED BY <1>1, <1>2, <1>3, <1>7, <1>8, <1>9, <1>10, <1>11, CopyGoesOn

LEMMA CopyCommandLineKeeps ==
  ASSUME TranslatorInv, CopyCommandLine
  PROVE  TranslatorInv'
<1> DEFINE n == Len(ModuleNames)
           s == CommandLine
           front == Rounded(InfoSize) + MemMapSpace + ModulesSpace
                      + StringsSpace(ModuleNames)[n]
<1>1. /\ step = "copyCommandLine" /\ step \in CopySteps /\ step \in CopySteps \ {"copyInfo"}
      /\ index' = index /\ loader' = loader /\ mbInfo' = mbInfo /\ modStrings' = modStrings
  BY DEF CopyCommandLine, CopyUnchanged, CopySteps
<1>2. /\ loader \in Loaders /\ IsReadable /\ index \in Nat \ {0}
      /\ touched \in Int /\ touched < KernelEnd /\ n \in Nat
      /\ dest = SpaceAddress + SpaceUsed /\ dest \in Nat /\ dest <= SpaceAddress + SpaceSize
      /\ IsAligned(dest, Alignment) /\ DOMAIN space = Offsets
      /\ copy = [commandLine |-> copy.commandLine, mmapAddr |-> copy.mmapAddr,
                 modsAddr |-> copy.modsAddr]
  BY <1>1, Used, Readable
<1>3. NamesCopied = n
  BY <1>1 DEF NamesCopied
<1>4. CopiedMemMapInv /\ CopiedModulesInv /\ copy.commandLine = Mapped(s)
  <2>1. CopiedMemMapInv /\ CopiedModulesInv /\ copy.commandLine = mbInfo.commandLine
    BY <1>1 DEF TranslatorInv, CopyInv, CopiedLineInv
  <2> QED BY <1>1, <2>1, Readable
<1>5. /\ ModuleNames' = ModuleNames /\ MemMapSpace' = MemMapSpace /\ ModulesSpace' = ModulesSpace
      /\ CommandLine' = CommandLine
  BY <1>1, SameLoader
<1>6. /\ s \in {0} \cup DOMAIN Strings /\ StringIsMapped(s) /\ (s # 0 => loader.commandLinePresent)
  BY <1>2, LoaderFacts DEF IsReadable, CommandLine
<1>7. front \in Nat /\ StringSpace(s) \in Nat
  <2>1. /\ Rounded(InfoSize) \in Nat /\ MemMapSpace \in Nat /\ ModulesSpace \in Nat
        /\ StringsSpace(ModuleNames)[n] \in Nat /\ StringSpace(s) \in Nat
    BY <1>1, <1>2, PartSizes
  <2> QED BY ONLY <2>1
<1>8. SpaceUsed = front
  <2>1. SpaceUsed = front + 0
    BY <1>1, <1>3 DEF SpaceUsed
  <2> HIDE DEF front
  <2> QED BY ONLY <1>7, <2>1
<1>9. ASSUME NEW p, copy' = [copy EXCEPT !.commandLine = p],
             copiedModStrings' = copiedModStrings, StringHeldIn(space', dest', p, s),
             step' = "publish", result' = result, touched' \in Int, touched' < KernelEnd,
             DOMAIN space' = Offsets, dest' = dest + StringSpace(s), IsAligned(dest', Alignment),
             dest' <= SpaceAddress + SpaceSize,
             \A k \in Offsets : k + SpaceAddress < dest => space'[k] = space[k]
      PROVE  TranslatorInv'
  <2>1. dest' \in Nat /\ dest <= dest'
    <3>1. dest \in Nat /\ StringSpace(s) \in Nat /\ dest' = dest + StringSpace(s)
      BY <1>2, <1>7, <1>9
    <3> QED BY ONLY <3>1
  <2>2. PartsHeld(space', dest', copy, copiedModStrings)
    BY <1>1, <1>9, <2>1, PartsStay
  <2>3. /\ HeldIn(space', dest', SpaceAddress, loader.address, InfoSize)
        /\ loader.memMapPresent =>
             HeldIn(space', dest', copy.mmapAddr, loader.mmapAddr, loader.mmapLength)
        /\ loader.modulesPresent =>
             HeldIn(space', dest', copy.modsAddr, loader.modsAddr, n * ModuleSize)
        /\ \A m \in 1 .. n :
             m <= NamesCopied => StringHeldIn(space', dest', copiedModStrings[m], ModuleNames[m])
    BY <1>1, <2>2 DEF PartsHeld
  <2>4. NamesCopied' = n
    BY <1>5, <1>9 DEF NamesCopied
  <2>5. copy' = [commandLine |-> p, mmapAddr |-> copy.mmapAddr, modsAddr |-> copy.modsAddr]
    BY <1>2, <1>9
  <2>6. CopiedMemMapInv'
    <3>1. ~ loader.memMapPresent => copy.mmapAddr = 0
      BY <1>1, <1>4 DEF CopiedMemMapInv
    <3> QED BY <1>1, <1>9, <2>3, <2>5, <3>1 DEF CopiedMemMapInv
  <2>7. CopiedLineInv'
    <3>1. StringHeldIn(space', dest', copy'.commandLine, CommandLine')
      BY <1>5, <1>9, <2>5
    <3> QED BY <1>9, <3>1 DEF CopiedLineInv
  <2>8. CopiedModulesInv'
    <3>1. IF loader.modulesPresent
            THEN HeldIn(space', dest', copy'.modsAddr, loader.modsAddr, n * ModuleSize)
            ELSE copy'.modsAddr = 0
      BY <1>1, <1>4, <2>3, <2>5 DEF CopiedModulesInv
    <3>2. copiedModStrings' \in Seq(Nat) /\ Len(copiedModStrings') = Len(ModuleNames')
      BY <1>1, <1>4, <1>5, <1>9 DEF CopiedModulesInv
    <3>3. \A m \in 1 .. Len(ModuleNames') :
            IF m <= NamesCopied'
              THEN StringHeldIn(space', dest', copiedModStrings'[m], ModuleNames'[m])
              ELSE copiedModStrings'[m] = Mapped(ModuleNames'[m])
      <4>1. \A m \in 1 .. n : m <= NamesCopied'
        BY <1>2, <2>4
      <4> QED BY <1>3, <1>5, <1>9, <2>3, <2>4, <4>1
    <3> QED BY <1>1, <1>5, <1>9, <3>1, <3>2, <3>3 DEF CopiedModulesInv, Mapped
  <2>9. DestInv'
    <3>1. StringsSpace(ModuleNames')[NamesCopied'] = StringsSpace(ModuleNames)[n]
      BY <1>5, <2>4
    <3>2. SpaceUsed' = front + StringSpace(s)
      <4>1. StringSpace(CommandLine)' = StringSpace(s)
        BY <1>5 DEF StringSpace, Rounded
      <4> QED BY <1>5, <1>9, <3>1, <4>1 DEF SpaceUsed
    <3>3. dest' = SpaceAddress + SpaceUsed'
      <4>1. dest' = (SpaceAddress + front) + StringSpace(s)
        BY <1>2, <1>8, <1>9
      <4> HIDE DEF s, front
      <4> QED BY ONLY <1>7, <3>2, <4>1, Sizes
    <3>4. NamesCopied' \in 0 .. Len(ModuleNames')
      BY <1>2, <1>5, <2>4
    <3> QED BY <1>9, <2>1, <3>3, <3>4 DEF DestInv
  <2>10. step' \in CopySteps \ {"copyInfo"} /\ index' \in Nat \ {0}
    BY <1>1, <1>2, <1>9 DEF CopySteps
  <2>11. copy' = [commandLine |-> copy'.commandLine, mmapAddr |-> copy'.mmapAddr,
                  modsAddr |-> copy'.modsAddr]
    BY <2>5
  <2> QED BY <1>1, <1>9, <2>3, <2>6, <2>7, <2>8, <2>9, <2>10, <2>11, CopyGoesOn
<1>10. CASE s = 0
  <2>1. copy.commandLine = 0 /\ StringSpace(s) = 0
    BY <1>4, <1>10 DEF Mapped, StringSpace
  <2>2. /\ copy' = [copy EXCEPT !.commandLine = 0] /\ step' = "publish"
        /\ space' = space /\ dest' = dest /\ touched' = touched /\ result' = result
        /\ copiedModStrings' = copiedModStrings
    BY <2>1 DEF CopyCommandLine, CopyNothing
  <2>3. StringHeldIn(space', dest', 0, s)
    BY <1>10 DEF StringHeldIn
  <2>4. dest' = dest + StringSpace(s)
    BY <1>2, <2>1, <2>2
  <2> HIDE DEF s, n
  <2> QED BY <1>2, <1>9, <2>2, <2>3, <2>4
<1>11. CASE s # 0
  <2>1. /\ s \in DOMAIN Strings /\ s \in Nat /\ Strings[s] + 1 \in Nat
        /\ s + (Strings[s] + 1) <= KernelEnd
    <3> HIDE DEF s
    <3> QED BY <1>6, <1>11, StringFacts DEF StringIsMapped, IsMapped
  <2>2. PICK name : name = copy.commandLine
    OBVIOUS
  <2>3. /\ name = s + VirtualBase /\ name # 0 /\ StringSize(name) = Strings[s] + 1
    <3> HIDE DEF s
    <3>1. name = s + VirtualBase
      BY <1>4, <1>11, <2>2 DEF Mapped
    <3>2. s \in Nat /\ VirtualBase \in Nat /\ 0 < VirtualBase
      BY <2>1, Sizes
    <3>3. name # 0 /\ name - VirtualBase = s
      BY ONLY <3>1, <3>2
    <3>4. StringSize(name) = Strings[s] + 1
      BY ONLY <3>3, Zenon DEF StringSize
    <3> QED BY ONLY <3>1, <3>3, <3>4
  <2>4. StringSpace(s) = Rounded(Strings[s] + 1)
    BY <1>11 DEF StringSpace
  <2>5. PICK a, size, d, p, q :
          /\ a = s /\ size = Strings[s] + 1 /\ d = dest
          /\ p = [copy EXCEPT !.commandLine = dest] /\ q = copiedModStrings
    OBVIOUS
  <2>6. CopyPart(name, size, p, q, "publish")
    <3>1. CopyPart(copy.commandLine, StringSize(copy.commandLine),
                   [copy EXCEPT !.commandLine = dest], copiedModStrings, "publish")
      BY <1>6, <1>11, <2>2, <2>3 DEF CopyCommandLine
    <3>2. StringSize(copy.commandLine) = size
      BY <2>2, <2>3, <2>5
    <3> QED BY <2>2, <2>5, <3>1, <3>2
  <2>7. /\ name = a + VirtualBase /\ a \in Nat /\ size \in Nat /\ a + size <= KernelEnd
    BY <2>1, <2>3, <2>5
  <2>8. \/ /\ Copied(a, size)
           /\ copy' = p /\ copiedModStrings' = q
           /\ step' = "publish" /\ result' = result
        \/ /\ dest + Rounded(size) > SpaceAddress + SpaceSize
           /\ step' = "done" /\ result' = "NULL"
           /\ space' = space /\ touched' = touched /\ copy' = copy
    BY <1>1, <2>6, <2>7, CopiesPart
  <2>9. CASE /\ Copied(a, size)
             /\ copy' = p /\ copiedModStrings' = q
             /\ step' = "publish" /\ result' = result
    <3>1. StringHeldIn(space', dest', d, s)
      BY <1>11, <2>5, <2>9 DEF StringHeldIn, Copied
    <3>2. /\ touched' \in Int /\ touched' < KernelEnd
          /\ DOMAIN space' = Offsets /\ dest' = dest + StringSpace(s)
          /\ IsAligned(dest', Alignment) /\ dest' <= SpaceAddress + SpaceSize
          /\ \A k \in Offsets : k + SpaceAddress < dest => space'[k] = space[k]
      BY <2>4, <2>5, <2>9 DEF Copied
    <3>3. /\ copy' = [copy EXCEPT !.commandLine = d] /\ copiedModStrings' = copiedModStrings
      BY <2>5, <2>9
    <3> HIDE DEF s, n
    <3> QED BY <1>9, <2>9, <3>1, <3>2, <3>3
  <2>10. CASE /\ dest + Rounded(size) > SpaceAddress + SpaceSize
              /\ step' = "done" /\ result' = "NULL"
              /\ space' = space /\ touched' = touched /\ copy' = copy
    <3>1. Rounded(size) = StringSpace(s)
      BY <2>4, <2>5
    <3>2. (SpaceAddress + front) + StringSpace(s) > SpaceAddress + SpaceSize
      BY <1>2, <1>8, <2>10, <3>1
    <3>3. ~ (SpaceNeeded <= SpaceSize)
      <4>1. SpaceNeeded = front + StringSpace(s)
        BY DEF SpaceNeeded
      <4> HIDE DEF s, front
      <4>2. ~ (front + StringSpace(s) <= SpaceSize)
        BY ONLY <1>7, <3>2, Sizes
      <4> QED BY ONLY <4>1, <4>2
    <3>4. index' \in Nat \ {0}
      BY <1>1, <1>2
    <3> QED BY <1>1, <2>10, <3>3, <3>4, CopyGivesUp
  <2> QED BY <2>8, <2>9, <2>10
<1> QED BY <1>10, <1>11

(* What is held in the buffer can be read there.                           *)
LEMMA HeldIsThere ==
  ASSUME NEW end \in Nat, end <= SpaceAddress + SpaceSize, NEW pointer, NEW original,
         NEW size \in Nat, HeldIn(space, end, pointer, original, size)
  PROVE  Holds(pointer, original, size)
<1>1. pointer \in Nat /\ SpaceAddress <= pointer /\ pointer + size <= end
  BY DEF HeldIn
<1>2. \A k \in 0 .. size - 1 : space[pointer + k - SpaceAddress] = original + k
  BY DEF HeldIn
<1>3. \A k \in 0 .. size - 1 : pointer + k - SpaceAddress \in Offsets
  BY <1>1, Sizes DEF Offsets
<1> QED BY <1>2, <1>3 DEF Holds

LEMMA StringIsThere ==
  ASSUME NEW end \in Nat, end <= SpaceAddress + SpaceSize, NEW pointer,
         NEW s \in {0} \cup DOMAIN Strings, StringHeldIn(space, end, pointer, s)
  PROVE  HoldsString(pointer, s)
<1>1. CASE s = 0
  BY <1>1 DEF StringHeldIn, HoldsString
<1>2. CASE s # 0
  <2>1. Strings[s] + 1 \in Nat
    BY <1>2, StringFacts
  <2>2. Holds(pointer, s, Strings[s] + 1)
    BY <1>2, <2>1, HeldIsThere DEF StringHeldIn
  <2> QED BY <1>2, <2>2 DEF HoldsString
<1> QED BY <1>1, <1>2

LEMMA PublishKeeps ==
  ASSUME TranslatorInv, Publish
  PROVE  TranslatorInv'
<1> DEFINE n == Len(ModuleNames)
<1>1. /\ step = "publish" /\ step \in CopySteps /\ step \in CopySteps \ {"copyInfo"}
      /\ step' = "done" /\ result' = "info"
      /\ index' = index /\ loader' = loader /\ mbInfo' = mbInfo /\ modStrings' = modStrings
      /\ space' = space /\ dest' = dest /\ touched' = touched /\ copy' = copy
      /\ copiedModStrings' = copiedModStrings
  BY DEF Publish, CopySteps
<1>2. /\ loader \in Loaders /\ IsReadable /\ loader.isMultiboot /\ n \in Nat
      /\ dest = SpaceAddress + SpaceUsed /\ dest \in Nat /\ dest <= SpaceAddress + SpaceSize
      /\ touched < KernelEnd
  BY <1>1, Used, Readable
<1>3. /\ HeldIn(space, dest, SpaceAddress, loader.address, InfoSize)
      /\ CopiedMemMapInv /\ CopiedModulesInv /\ CopiedLineInv
  BY <1>1 DEF TranslatorInv, CopyInv
<1>4. NamesCopied = n
  BY <1>1 DEF NamesCopied
<1>5. TranslatorTypes'
  BY <1>1 DEF TranslatorInv, TranslatorTypes
<1>6. MapInv' /\ CopyInv'
  BY <1>1 DEF MapInv, CopyInv, CopySteps
<1>7. FailsOnlyForCause'
  <2>1. SpaceNeeded <= SpaceSize
    <3>1. SpaceUsed = SpaceNeeded
      BY <1>1, <1>4 DEF SpaceUsed, SpaceNeeded
    <3>2. SpaceUsed \in Nat
      BY <1>1, Used
    <3> QED BY <1>2, <3>1, <3>2, Sizes
  <2>2. (loader.isMultiboot /\ IsReadable /\ SpaceNeeded <= SpaceSize)'
    BY <1>1, <1>2, <2>1, SameLoader
  <2> QED BY <1>1, <1>2, <2>2 DEF FailsOnlyForCause
<1>8. /\ Holds(SpaceAddress, loader.address, InfoSize)
      /\ HoldsString(copy.commandLine, CommandLine)
      /\ IF loader.memMapPresent THEN Holds(copy.mmapAddr, loader.mmapAddr, loader.mmapLength)
                                 ELSE copy.mmapAddr = 0
      /\ IF loader.modulesPresent
           THEN Holds(copy.modsAddr, loader.modsAddr, n * ModuleSize)
           ELSE copy.modsAddr = 0
      /\ Len(copiedModStrings) = n
      /\ \A m \in 1 .. n : HoldsString(copiedModStrings[m], ModuleNames[m])
  <2>1. Holds(SpaceAddress, loader.address, InfoSize)
    BY <1>2, <1>3, HeldIsThere, Sizes
  <2>2. HoldsString(copy.commandLine, CommandLine)
    BY <1>1, <1>2, <1>3, LoaderFacts, StringIsThere DEF CopiedLineInv
  <2>3. IF loader.memMapPresent THEN Holds(copy.mmapAddr, loader.mmapAddr, loader.mmapLength)
                                ELSE copy.mmapAddr = 0
    BY <1>1, <1>2, <1>3, LoaderFacts, HeldIsThere DEF CopiedMemMapInv
  <2>4. IF loader.modulesPresent THEN Holds(copy.modsAddr, loader.modsAddr, n * ModuleSize)
                                 ELSE copy.modsAddr = 0
    <3>1. loader.modulesPresent => n * ModuleSize \in Nat
      BY <1>1, PartSizes
    <3>2. IF loader.modulesPresent
            THEN HeldIn(space, dest, copy.modsAddr, loader.modsAddr, n * ModuleSize)
            ELSE copy.modsAddr = 0
      BY <1>1, <1>3 DEF CopiedModulesInv
    <3> QED BY <1>2, <3>1, <3>2, HeldIsThere
  <2>5. Len(copiedModStrings) = n
    BY <1>1, <1>3 DEF CopiedModulesInv
  <2>6. ASSUME NEW m \in 1 .. n PROVE HoldsString(copiedModStrings[m], ModuleNames[m])
    <3>1. m <= NamesCopied
      BY <1>2, <1>4
    <3>2. StringHeldIn(space, dest, copiedModStrings[m], ModuleNames[m])
      BY <1>1, <1>3, <3>1 DEF CopiedModulesInv
    <3>3. ModuleNames[m] \in {0} \cup DOMAIN Strings
      BY <1>2, LoaderFacts
    <3> QED BY <1>2, <3>2, <3>3, StringIsThere
  <2> QED BY <2>1, <2>2, <2>3, <2>4, <2>5, <2>6
<1>9. InfoAsLoaded'
  BY <1>1, <1>8, SameLoader DEF InfoAsLoaded, Holds, HoldsString
<1> QED BY <1>5, <1>6, <1>7, <1>9 DEF TranslatorInv

LEMMA TranslateKeeps == TranslatorInv /\ Translate => TranslatorInv'
BY CheckMagicKeeps, MapInfoKeeps, MapCommandLineKeeps, MapMemMapKeeps, MapModulesKeeps,
   MapModuleNameKeeps, MapDoneKeeps, CopyInfoKeeps, CopyMemMapKeeps, CopyModulesKeeps,
   CopyModuleNameKeeps, CopyNamesDoneKeeps, CopyCommandLineKeeps, PublishKeeps
   DEF Translate

LEMMA TranslatorStarts == TranslatorInit => TranslatorInv
<1> SUFFICES ASSUME TranslatorInit PROVE TranslatorInv
  OBVIOUS
<1> USE DEF TranslatorInit
<1>1. TranslatorTypes
  BY Sizes DEF TranslatorTypes, MapSteps
<1>2. loader.modStrings \in Seq(Nat)
  <2>1. {0} \cup DOMAIN Strings \subseteq Nat
    BY StringFacts
  <2> QED BY <2>1, LoaderFacts, SeqMonotonic
<1>3. ModuleNamesInv
  <2>1. NamesMapped = 0
    BY DEF NamesMapped, CopySteps
  <2>2. ASSUME NEW m \in 1 .. Len(ModuleNames) PROVE modStrings[m] = ModuleNames[m]
    BY DEF ModuleNames
  <2>3. Len(ModuleNames) \in Nat
    BY LoaderFacts
  <2> QED BY <1>2, <2>1, <2>2, <2>3 DEF ModuleNamesInv
<1>4. MapInv
  BY <1>3 DEF MapInv, CommandLineInv, MemMapInv, ModulesInv, MapSteps
<1>5. CopyInv
  BY DEF CopyInv, CopySteps
<1>6. InfoAsLoaded /\ FailsOnlyForCause
  BY <1>1 DEF InfoAsLoaded, FailsOnlyForCause, TranslatorTypes
<1> QED BY <1>1, <1>4, <1>5, <1>6 DEF TranslatorInv

LEMMA TranslatorStutters == TranslatorInv /\ UNCHANGED translatorVars => TranslatorInv'
<1> SUFFICES ASSUME TranslatorInv, UNCHANGED translatorVars PROVE TranslatorInv'
  OBVIOUS
<1>1. /\ step' = step /\ loader' = loader /\ mbInfo' = mbInfo /\ modStrings' = modStrings
      /\ index' = index /\ touched' = touched /\ space' = space /\ dest' = dest /\ copy' = copy
      /\ copiedModStrings' = copiedModStrings /\ result' = result
  BY DEF translatorVars
<1>2. /\ CommandLine' = CommandLine /\ ModuleNames' = ModuleNames
      /\ IsReadable' <=> IsReadable
      /\ SpaceNeeded' = SpaceNeeded /\ MemMapSpace' = MemMapSpace /\ ModulesSpace' = ModulesSpace
  BY <1>1, SameLoader
<1>3. TranslatorTypes'
  BY <1>1 DEF TranslatorInv, TranslatorTypes
<1>4. MapInv'
  <2>1. NamesMapped' = NamesMapped
    BY <1>1, <1>2 DEF NamesMapped
  <2>2. (CommandLineInv => CommandLineInv') /\ (MemMapInv => MemMapInv')
        /\ (ModulesInv => ModulesInv')
    BY <1>1, <1>2 DEF CommandLineInv, MemMapInv, ModulesInv, StringIsMapped, Mapped
  <2>3. ModuleNamesInv => ModuleNamesInv'
    BY <1>1, <1>2, <2>1 DEF ModuleNamesInv, StringIsMapped, Mapped
  <2> QED BY <1>1, <2>2, <2>3 DEF TranslatorInv, MapInv
<1>5. CopyInv'
  <2>1. NamesCopied' = NamesCopied
    BY <1>1, <1>2 DEF NamesCopied
  <2>2. SpaceUsed' = SpaceUsed
    BY <1>1, <1>2, <2>1 DEF SpaceUsed, StringSpace
  <2>3. DestInv => DestInv'
    BY <1>1, <1>2, <2>1, <2>2 DEF DestInv
  <2>4. (CopiedMemMapInv => CopiedMemMapInv') /\ (CopiedLineInv => CopiedLineInv')
    BY <1>1, <1>2 DEF CopiedMemMapInv, CopiedLineInv
  <2>5. CopiedModulesInv => CopiedModulesInv'
    BY <1>1, <1>2, <2>1 DEF CopiedModulesInv, Mapped
  <2> QED BY <1>1, <2>3, <2>4, <2>5 DEF TranslatorInv, CopyInv
<1>6. InfoAsLoaded'
  BY <1>1, <1>2 DEF TranslatorInv, InfoAsLoaded, Holds, HoldsString
<1>7. FailsOnlyForCause'
  BY <1>1, <1>2 DEF TranslatorInv, FailsOnlyForCause
<1> QED BY <1>3, <1>4, <1>5, <1>6, <1>7 DEF TranslatorInv

(* Nothing but translate() changes what it works on.                       *)
LEMMA OnlyTranslate == Next => Translate \/ UNCHANGED translatorVars
BY DEF Next, CallInitPrimary, CallTranslate, InitExceptionDispatcher, InitInterruptDispatcher,
       CheckBootInfo, Traps, Handlers

(* The inductive invariant of the translation, for any number of modules,  *)
(* strings of any length, and any size and alignment of the space.         *)
THEOREM TranslatorInvariant == Spec => []TranslatorInv
<1>1. Init => TranslatorInv
  BY TranslatorStarts DEF Init
<1>2. TranslatorInv /\ [Next]_vars => TranslatorInv'
  <2>1. UNCHANGED vars => UNCHANGED translatorVars
    BY DEF vars
  <2> QED BY <2>1, TranslateKeeps, TranslatorStutters, OnlyTranslate
<1> QED BY <1>1, <1>2, PTL DEF Spec

(* What the kernel gets is what the loader left: every part of it is still *)
(* in the buffer after the parts behind it were copied, every pointer of   *)
(* the copy points to it, and none points to anything else.                *)
THEOREM InfoAsLoadedAlways == Spec => []InfoAsLoaded
<1>1. TranslatorInv => InfoAsLoaded
  BY DEF TranslatorInv
<1> QED BY <1>1, TranslatorInvariant, PTL

(* translate() gives up just if no Multiboot loader called, something is   *)
(* not mapped or does not fit, and reads nothing that is not mapped.       *)
THEOREM FailsOnlyForCauseAlways == Spec => []FailsOnlyForCause
<1>1. TranslatorInv => FailsOnlyForCause
  BY DEF TranslatorInv
<1> QED BY <1>1, TranslatorInvariant, PTL
=============================================================================
