------------------------- MODULE RunCommandsProofs -------------------------
(***************************************************************************)
(* What holds of a run_commands call for any batch, any sizes, requests    *)
(* and device: its effects come in the documented order, every way out     *)
(* closes the session, the results are those of the batch, each with the   *)
(* output of its own command, and a command fails by its own doing.        *)
(***************************************************************************)
EXTENDS RunCommands, IndexLemmas

-----------------------------------------------------------------------------
(* The session *)

\* The results are a sequence of anything: what a result holds is not typed.
SessionInv ==
  /\ SessionTypeOK
  /\ \E S : results \in Seq(S)
  /\ \A i \in 1..Len(results) : results[i].command = Batch[i]
  /\ at \in {"prompt", "echo", "reading", "classify"} => current <= Len(Batch)
  /\ at = "ended" => current = Len(Batch) + 1

\* The batch is a sequence of commands.
LEMMA BatchTyped ==
  /\ Len(Batch) \in Nat
  /\ \A i \in 1..Len(Batch) : Batch[i] \in ToSet(Batch)
<1>1. Batch \in Seq(ToSet(Batch))
  BY SessionAssumption
<1> QED
  BY <1>1, LenProperties, ElementOfSeq

\* Marks are marks.
LEMMA MarkTyped ==
  ASSUME NEW kind \in {"echo", "data", "pager", "prompt"}, NEW c \in ToSet(Batch) \cup {"device"}, NEW p \in Nat
  PROVE  Mark(kind, c, p) \in Marks
BY DEF Mark, Marks

\* What a device answers to a command is a sequence of marks.
LEMMA ScriptTyped ==
  ASSUME NEW c \in ToSet(Batch)
  PROVE  Script(c) \in Seq(Marks)
<1>1. Pages[c] \in Nat \ {0} 
  BY SessionAssumption
<1>2. Prompt \in Marks /\ Pager \in Marks /\ Mark("echo", c, 0) \in Marks
  BY <1>1, MarkTyped DEF Prompt, Pager
<1>3. ASSUME NEW k \in 1..(2 * Pages[c] + 1) PROVE Mark("data", c, k \div 2) \in Marks
  <2>1. k \div 2 \in Nat
    BY <1>1
  <2> QED
    BY <1>1, <2>1, MarkTyped
<1>4. Script(c) \in [1..(2 * Pages[c] + 1) -> Marks]
  BY <1>2, <1>3 DEF Script
<1>5. 2 * Pages[c] + 1 \in Nat
  <2> DEFINE n == Pages[c]
  <2>1. n \in Nat
    BY <1>1
  <2> HIDE DEF n
  <2>2. 2 * n + 1 \in Nat
    BY <2>1
  <2> QED
    BY <2>2 DEF n
<1> QED
  BY <1>4, <1>5, FunctionIsSeq

\* A command that finishes adds its result behind those before it.
LEMMA FinishResults ==
  ASSUME SessionInv, NEW result, result.command = Command, Finish(result),
         current <= Len(Batch)
  PROVE  /\ current' \in 1..(Len(Batch) + 1) /\ Len(results') = current' - 1
         /\ \E S : results' \in Seq(S)
         /\ \A i \in 1..Len(results') : results'[i].command = Batch[i]
         /\ at' = "next" /\ output' = <<>> /\ paged' = 0
<1>1. PICK S : results \in Seq(S)
  BY DEF SessionInv
<1> DEFINE T == S \cup {result}
<1>2. results \in Seq(T) /\ result \in T
  BY <1>1
<1> HIDE DEF T
<1>3. results' = Append(results, result) /\ current' = current + 1
      /\ at' = "next" /\ output' = <<>> /\ paged' = 0
  BY DEF Finish
<1>4. Append(results, result) \in Seq(T) /\ Len(Append(results, result)) = Len(results) + 1
      /\ (\A i \in 1..Len(results) : Append(results, result)[i] = results[i])
      /\ Append(results, result)[Len(results) + 1] = result
  BY <1>2, AppendProperties
<1>5. Len(results) = current - 1 /\ current \in Nat /\ current >= 1 /\ Len(Batch) \in Nat
  BY BatchTyped DEF SessionInv, SessionTypeOK
<1>6. \A i \in 1..Len(results') : results'[i].command = Batch[i]
  <2> SUFFICES ASSUME NEW i \in 1..current PROVE results'[i].command = Batch[i]
    BY <1>3, <1>4, <1>5
  <2>1. CASE i = current
    BY <1>3, <1>4, <1>5, <2>1 DEF Command
  <2>2. CASE i # current
    BY <1>3, <1>4, <1>5, <2>2 DEF SessionInv
  <2> QED
    BY <2>1, <2>2
<1> QED
  BY <1>3, <1>4, <1>5, <1>6

\* A step that leaves the results alone and the command at hand keeps their part of
\* the invariant.
LEMMA ResultsKept ==
  ASSUME SessionInv, SessionTypeOK', results' = results, current' = current,
         at' \in {"prompt", "echo", "reading", "classify"} => current <= Len(Batch),
         at' = "ended" => current = Len(Batch) + 1
  PROVE  SessionInv'
BY DEF SessionInv

\* A command that finishes keeps the invariant, if the rest is typed.
LEMMA FinishKept ==
  ASSUME SessionInv, NEW result, result.command = Command, Finish(result),
         at \in {"prompt", "echo", "reading", "classify"},
         slow' = slow, typed' \in Seq({Return, Space} \cup ToSet(Batch)),
         screen' \in Seq(Marks), UNCHANGED <<showing, paused, alive, expects>>
  PROVE  SessionInv'
<1>1. current <= Len(Batch)
  BY DEF SessionInv
<1>2. /\ current' \in 1..(Len(Batch) + 1) /\ Len(results') = current' - 1
      /\ (\E S : results' \in Seq(S))
      /\ (\A i \in 1..Len(results') : results'[i].command = Batch[i])
      /\ at' = "next" /\ output' = <<>> /\ paged' = 0
  BY <1>1, FinishResults
<1>3. output' \in Seq(Marks)
  BY <1>2
<1>4. slow' \in BOOLEAN /\ paused' \in BOOLEAN /\ alive' \in BOOLEAN /\ expects' \in Marks \cup {Rule}
  BY DEF SessionInv, SessionTypeOK
<1>5. showing' \in Seq(Marks) /\ paged' \in 0..MAX_PAGES
  <2>1. MAX_PAGES \in Nat
    BY SessionAssumption
  <2> QED
    BY <1>2, <2>1 DEF SessionInv, SessionTypeOK
<1>6. SessionTypeOK'
  BY <1>2, <1>3, <1>4, <1>5 DEF SessionTypeOK
<1> QED
  BY <1>2, <1>6 DEF SessionInv

\* What is typed, and what is thrown away or read, are sequences still.
LEMMA Typing ==
  ASSUME SessionInv
  PROVE  /\ Append(typed, Return) \in Seq({Return, Space} \cup ToSet(Batch))
         /\ Append(typed, Space) \in Seq({Return, Space} \cup ToSet(Batch))
         /\ current <= Len(Batch) =>
              Append(typed, Command) \in Seq({Return, Space} \cup ToSet(Batch))
         /\ <<>> \in Seq(Marks)
         /\ \A k \in 1..Len(screen) :
              /\ SubSeq(screen, k, Len(screen)) \in Seq(Marks)
              /\ SubSeq(screen, k + 1, Len(screen)) \in Seq(Marks)
              /\ output \o Chunk(k) \in Seq(Marks)
<1> DEFINE Keys == {Return, Space} \cup ToSet(Batch)
<1>1. typed \in Seq(Keys) /\ screen \in Seq(Marks) /\ output \in Seq(Marks)
      /\ current \in 1..(Len(Batch) + 1)
  BY DEF SessionInv, SessionTypeOK
<1>2. Return \in Keys /\ Space \in Keys
  OBVIOUS
<1>3. current <= Len(Batch) => Command \in Keys
  BY <1>1, BatchTyped DEF Command
<1> HIDE DEF Keys
<1>4. \A e \in Keys : Append(typed, e) \in Seq(Keys)
  BY <1>1, AppendProperties
<1>5. Len(screen) \in Nat
  BY <1>1, LenProperties
<1>6. ASSUME NEW k \in 1..Len(screen)
      PROVE  /\ SubSeq(screen, k, Len(screen)) \in Seq(Marks)
             /\ SubSeq(screen, k + 1, Len(screen)) \in Seq(Marks)
             /\ output \o Chunk(k) \in Seq(Marks)
  <2>1. SubSeq(screen, k, Len(screen)) \in Seq(Marks)
    BY <1>1, <1>5, SubSeqProperties
  <2>2. SubSeq(screen, k + 1, Len(screen)) \in Seq(Marks)
    BY <1>1, <1>5, SubSeqProperties
  <2>3. Chunk(k) \in Seq(Marks)
    BY <1>1, <1>5, SubSeqProperties DEF Chunk
  <2>4. output \o Chunk(k) \in Seq(Marks)
    BY <1>1, <2>3, ConcatProperties
  <2> QED
    BY <2>1, <2>2, <2>4
<1>7. <<>> \in Seq(Marks)
  OBVIOUS
<1> QED
  BY <1>2, <1>3, <1>4, <1>6, <1>7 DEF Keys

\* A step of the device types nothing and finishes nothing.
LEMMA DeviceKeeps ==
  ASSUME SessionInv, Device \/ Hangs, slow' = slow
  PROVE  SessionInv'
<1> USE DEF SessionInv, SessionTypeOK
<1>1. /\ UNCHANGED <<at, current, expects, output, paged, results>>
  BY DEF Device, ReadsInput, Shows, Hangs
<1>2. CASE ReadsInput
  <2> DEFINE Keys == {Return, Space} \cup ToSet(Batch)
  <2>1. typed \in Seq(Keys) /\ typed # <<>>
    BY <1>2 DEF ReadsInput
  <2>2. Head(typed) \in Keys /\ Tail(typed) \in Seq(Keys)
    BY <2>1, HeadTailProperties
  <2>3. Prompt \in Marks
    BY MarkTyped DEF Prompt
  <2>4. showing' \in Seq(Marks)
    <3> DEFINE c == Head(typed)
    <3>1. \/ showing' = showing
          \/ showing' = IF c = Return THEN <<Prompt>> ELSE IF c = Space THEN <<>> ELSE Script(c)
      BY <1>2 DEF ReadsInput
    <3>2. c = Return \/ c = Space \/ c \in ToSet(Batch)
      BY <2>2
    <3> HIDE DEF c
    <3>3. c \in ToSet(Batch) => Script(c) \in Seq(Marks)
      BY ScriptTyped
    <3>4. <<Prompt>> \in Seq(Marks) /\ <<>> \in Seq(Marks)
      BY <2>3
    <3> QED
      BY <3>1, <3>2, <3>3, <3>4
  <2>5. typed' \in Seq(Keys) /\ screen' = screen /\ alive' = alive /\ paused' \in BOOLEAN
    BY <1>2, <2>2 DEF ReadsInput
  <2>6. SessionTypeOK'
    BY <1>1, <2>4, <2>5
  <2> QED
    BY <1>1, <2>6
<1>3. CASE Shows
  <2>1. Head(showing) \in Marks /\ Tail(showing) \in Seq(Marks)
    BY <1>3, HeadTailProperties DEF Shows
  <2>2. Append(screen, Head(showing)) \in Seq(Marks)
    BY <2>1, AppendProperties
  <2>3. SessionTypeOK'
    BY <1>1, <1>3, <2>1, <2>2 DEF Shows
  <2> QED
    BY <1>1, <2>3
<1>4. CASE Hangs
  BY <1>1, <1>4 DEF Hangs
<1> QED
  BY <1>2, <1>3, <1>4 DEF Device

\* A step of the tool.
LEMMA ToolKeeps ==
  ASSUME SessionInv, Tool, slow' = slow
  PROVE  SessionInv'
<1>1. at \in {"prompt", "echo", "reading", "classify"} => current <= Len(Batch)
  BY DEF SessionInv
<1>2. CASE NextCommand
  <2>1. SessionTypeOK'
    BY <1>2, Typing DEF NextCommand, AskPrompt, SessionInv, SessionTypeOK
  <2> QED
    BY <1>2, <2>1, ResultsKept DEF NextCommand
<1>3. CASE PromptSeen
  <2>2. expects' \in Marks \cup {Rule}
    <3>1. screen \in Seq(Marks) /\ screen # <<>>
      BY <1>3 DEF PromptSeen, SessionInv, SessionTypeOK
    <3>2. Last(screen) \in Marks
      <4>1. Len(screen) \in Nat \ {0}
        BY <3>1, EmptySeq
      <4> QED
        BY <3>1, <4>1, ElementOfSeq DEF Last
    <3>3. expects' \in Lines(Last(screen))
      BY <1>3 DEF PromptSeen
    <3> QED
      BY <3>2, <3>3 DEF Lines
  <2>1. SessionTypeOK'
    BY <1>1, <1>3, <2>2, Typing DEF PromptSeen, SessionInv, SessionTypeOK
  <2> QED
    BY <1>1, <1>3, <2>1, ResultsKept DEF PromptSeen
<1>4. CASE NoPrompt \/ NoEcho \/ ReadTimesOut
  <2> DEFINE result == [command |-> Command, status |-> "error", pages |-> <<>>]
  <2>1. Finish(result) /\ result.command = Command
    BY <1>4 DEF NoPrompt, NoEcho, ReadTimesOut, CommandFails
  <2>2. /\ at \in {"prompt", "echo", "reading", "classify"}
        /\ UNCHANGED <<typed, showing, paused, alive, expects>>
        /\ screen' = screen \/ screen' = <<>>
    BY <1>4 DEF NoPrompt, NoEcho, ReadTimesOut, device
  <2>3. typed' \in Seq({Return, Space} \cup ToSet(Batch)) /\ screen' \in Seq(Marks)
    BY <2>2, Typing DEF SessionInv, SessionTypeOK
  <2> HIDE DEF result
  <2> QED
    BY <2>1, <2>2, <2>3, FinishKept
<1>5. CASE Echoed
  <2>1. screen' \in Seq(Marks)
    BY <1>5, Typing DEF Echoed
  <2>2. SessionTypeOK'
    BY <1>5, <2>1 DEF Echoed, device, SessionInv, SessionTypeOK
  <2> QED
    BY <1>1, <1>5, <2>2, ResultsKept DEF Echoed
<1>6. CASE ReadPage
  <2>1. PICK k \in 1..Len(screen) :
          /\ IF paged < MAX_PAGES
               THEN /\ output' = output \o Chunk(k)
                    /\ paged' = paged + 1
                    /\ typed' = Append(typed, Space)
                    /\ UNCHANGED <<at, current, results>>
               ELSE CommandFails /\ UNCHANGED typed
          /\ screen' = SubSeq(screen, k + 1, Len(screen))
    BY <1>6 DEF ReadPage
  <2>2. at = "reading" /\ UNCHANGED <<showing, paused, alive, expects>>
    BY <1>6 DEF ReadPage
  <2>3. screen' \in Seq(Marks)
    BY <2>1, Typing
  <2>4. CASE paged < MAX_PAGES
    <3>1. output' \in Seq(Marks) /\ typed' \in Seq({Return, Space} \cup ToSet(Batch))
      BY <2>1, <2>4, Typing
    <3>2. paged' \in 0..MAX_PAGES
      <4>1. paged' = paged + 1 /\ paged \in 0..MAX_PAGES /\ MAX_PAGES \in Nat
        BY <2>1, <2>4, SessionAssumption DEF SessionInv, SessionTypeOK
      <4> QED
        BY <2>4, <4>1
    <3>4. UNCHANGED <<at, current, results>>
      BY <2>1, <2>4
    <3>3. SessionTypeOK'
      BY <2>2, <2>3, <3>1, <3>2, <3>4 DEF SessionInv, SessionTypeOK
    <3> QED
      BY <1>1, <2>2, <3>3, <3>4, ResultsKept
  <2>5. CASE ~(paged < MAX_PAGES)
    <3> DEFINE result == [command |-> Command, status |-> "error", pages |-> <<>>]
    <3>1. Finish(result) /\ result.command = Command /\ typed' = typed
      BY <2>1, <2>5 DEF CommandFails
    <3>2. typed' \in Seq({Return, Space} \cup ToSet(Batch))
      BY <3>1 DEF SessionInv, SessionTypeOK
    <3> HIDE DEF result
    <3> QED
      BY <2>2, <2>3, <3>1, <3>2, FinishKept
  <2> QED
    BY <2>4, <2>5
<1>7. CASE ReadLast
  <2>1. output' \in Seq(Marks) /\ screen' = <<>> /\ typed' = Append(typed, Return)
    BY <1>7, Typing DEF ReadLast, AskPrompt
  <2>2. SessionTypeOK'
    BY <1>7, <2>1, Typing DEF ReadLast, SessionInv, SessionTypeOK
  <2> QED
    BY <1>1, <1>7, <2>2, ResultsKept DEF ReadLast
<1>8. CASE Classify
  <2> DEFINE result == [command |-> Command, status |-> StatusOf(PagesIn(output)),
                        pages |-> PagesIn(output)]
  <2>1. Finish(result) /\ result.command = Command
    BY <1>8 DEF Classify
  <2>2. at = "classify" /\ UNCHANGED <<typed, showing, paused, alive, expects>> /\ screen' = <<>>
    BY <1>8 DEF Classify, device
  <2>3. typed' \in Seq({Return, Space} \cup ToSet(Batch)) /\ screen' \in Seq(Marks)
    BY <2>2, Typing DEF SessionInv, SessionTypeOK
  <2> HIDE DEF result
  <2> QED
    BY <2>1, <2>2, <2>3, FinishKept
<1>9. CASE EndBatch
  <2>1. current = Len(Batch) + 1
    BY <1>9, BatchTyped DEF EndBatch, SessionInv, SessionTypeOK
  <2>2. SessionTypeOK'
    BY <1>9 DEF EndBatch, device, SessionInv, SessionTypeOK
  <2> QED
    BY <1>9, <2>1, <2>2, ResultsKept DEF EndBatch
<1> QED
  BY <1>2, <1>3, <1>4, <1>5, <1>6, <1>7, <1>8, <1>9 DEF Tool

-----------------------------------------------------------------------------
(* What a command shows *)

Echo(c) == Mark("echo", c, 0)
PagesOf(c) == [p \in 1..Pages[c] |-> Mark("data", c, p)]

\* The marks of a command's output, place by place: its echo first, the prompt
\* last, between them the pages on even places and the pager on odd ones.
LEMMA ScriptMarks ==
  ASSUME NEW c \in ToSet(Batch)
  PROVE  /\ Pages[c] \in Nat \ {0}
         /\ Script(c) \in Seq(Marks)
         /\ Len(Script(c)) = 2 * Pages[c] + 1
         /\ Script(c)[1] = Echo(c)
         /\ \A d : \A k \in 2..(2 * Pages[c] + 1) : Script(c)[k] # Echo(d)
         /\ \A k \in 1..(2 * Pages[c] + 1) :
              /\ Script(c)[k].kind = "prompt" <=> k = 2 * Pages[c] + 1
              /\ Script(c)[k].kind = "pager" => k < 2 * Pages[c] + 1 /\ \E q \in Nat : k = 2 * q + 3
              /\ Script(c)[k] = Pager <=> Script(c)[k].kind = "pager"
         /\ \A q \in Nat : 2 * q + 3 < 2 * Pages[c] + 1 => Script(c)[2 * q + 3] = Pager
         /\ \A k \in 1..(2 * Pages[c] + 1) :
              Script(c)[k].kind = "data" <=> k % 2 = 0
         /\ \A p \in 1..Pages[c] : Script(c)[2 * p] = Mark("data", c, p)
<1> DEFINE P == Pages[c]
<1>1. P \in Nat \ {0}
  BY SessionAssumption
<1>2. Script(c) = [k \in 1..(2 * P + 1) |->
                     IF k = 1 THEN Mark("echo", c, 0)
                     ELSE IF k = 2 * P + 1 THEN Prompt
                     ELSE IF k % 2 = 0 THEN Mark("data", c, k \div 2)
                     ELSE Pager]
  BY DEF Script
<1>3. Script(c) \in Seq(Marks)
  BY ScriptTyped
<1> HIDE DEF P
<1>4. 2 * P + 1 \in Nat /\ 2 * P + 1 >= 3
  BY <1>1
<1>5. Len(Script(c)) = 2 * P + 1
  <2> DEFINE s == Script(c)
             n == 2 * P + 1
  <2>1. DOMAIN s = 1..n
    BY <1>2
  <2>2. s \in Seq(Marks) /\ n \in Nat
    BY <1>3, <1>4
  <2> HIDE DEF s, n
  <2>3. s \in [1..n -> Marks]
    BY <2>1, <2>2, LenProperties
  <2>4. Len(s) = n
    BY <2>2, <2>3, FunctionIsSeq
  <2> QED
    BY <2>4 DEF s, n
<1>6. Script(c)[1] = Echo(c)
  BY <1>2, <1>4 DEF Echo
<1>7. ASSUME NEW k \in 2..(2 * P + 1)
      PROVE  Script(c)[k] = IF k = 2 * P + 1 THEN Prompt
                            ELSE IF k % 2 = 0 THEN Mark("data", c, k \div 2) ELSE Pager
  <2>1. k \in 1..(2 * P + 1) /\ k # 1
    BY <1>4
  <2> QED
    BY <1>2, <2>1
<1>8. /\ Prompt.kind = "prompt" /\ Pager.kind = "pager" /\ \A d : Echo(d).kind = "echo"
      /\ \A p : Mark("data", c, p).kind = "data"
  BY DEF Prompt, Pager, Echo, Mark
<1>9. \A d : \A k \in 2..(2 * P + 1) : Script(c)[k] # Echo(d)
  BY <1>7, <1>8
<1>10. \A k \in 2..(2 * P + 1) :
         /\ Script(c)[k].kind = "prompt" <=> k = 2 * P + 1
         /\ Script(c)[k].kind = "pager" <=> k # 2 * P + 1 /\ k % 2 # 0
         /\ Script(c)[k].kind = "pager" <=> Script(c)[k] = Pager
         /\ Script(c)[k].kind = "data" <=> k # 2 * P + 1 /\ k % 2 = 0
  BY <1>7, <1>8
<1>11. (2 * P + 1) % 2 # 0 /\ 1 % 2 # 0
  BY <1>1
<1>12. \A k \in 2..(2 * P + 1) : k % 2 # 0 => \E q \in Nat : k = 2 * q + 3
  <2> SUFFICES ASSUME NEW k \in 2..(2 * P + 1), k % 2 # 0 PROVE \E q \in Nat : k = 2 * q + 3
    OBVIOUS
  <2>1. k \in Nat /\ k >= 2
    BY <1>4
  <2>2. k = 2 * (k \div 2) + (k % 2) /\ k % 2 \in 0..1 /\ k \div 2 \in Nat
    BY <2>1
  <2>3. k = 2 * ((k \div 2) - 1) + 3 /\ (k \div 2) - 1 \in Nat
    BY <2>1, <2>2
  <2> QED
    BY <2>3
<1>13. ASSUME NEW q \in Nat, 2 * q + 3 < 2 * P + 1
       PROVE  Script(c)[2 * q + 3] = Pager
  <2>1. 2 * q + 3 \in 2..(2 * P + 1) /\ (2 * q + 3) % 2 # 0
    BY <1>1, <1>13
  <2>2. PICK k \in 2..(2 * P + 1) : k = 2 * q + 3
    BY <2>1
  <2>3. k # 2 * P + 1 /\ k % 2 # 0
    BY <1>1, <1>13, <2>1, <2>2
  <2> QED
    BY <1>7, <2>2, <2>3
<1>14. ASSUME NEW p \in 1..P
       PROVE  Script(c)[2 * p] = Mark("data", c, p)
  <2>1. 2 * p \in 2..(2 * P + 1) /\ (2 * p) % 2 = 0 /\ (2 * p) \div 2 = p /\ 2 * p # 2 * P + 1
    BY <1>1
  <2>2. PICK k \in 2..(2 * P + 1) : k = 2 * p
    BY <2>1
  <2>3. Script(c)[k] = Mark("data", c, k \div 2)
    BY <1>7, <2>1, <2>2
  <2> QED
    BY <2>1, <2>2, <2>3
<1>15. \A k \in 1..(2 * P + 1) :
         /\ Script(c)[k].kind = "prompt" <=> k = 2 * P + 1
         /\ Script(c)[k].kind = "pager" => k < 2 * P + 1 /\ \E q \in Nat : k = 2 * q + 3
         /\ Script(c)[k] = Pager <=> Script(c)[k].kind = "pager"
         /\ Script(c)[k].kind = "data" <=> k % 2 = 0
  <2> SUFFICES ASSUME NEW k \in 1..(2 * P + 1)
               PROVE  /\ Script(c)[k].kind = "prompt" <=> k = 2 * P + 1
                      /\ Script(c)[k].kind = "pager" => k < 2 * P + 1 /\ \E q \in Nat : k = 2 * q + 3
                      /\ Script(c)[k] = Pager <=> Script(c)[k].kind = "pager"
                      /\ Script(c)[k].kind = "data" <=> k % 2 = 0
    OBVIOUS
  <2>1. CASE k = 1
    BY <1>4, <1>6, <1>8, <1>11, <2>1
  <2>2. CASE k # 1
    <3>1. k \in 2..(2 * P + 1) /\ k <= 2 * P + 1
      BY <1>4, <2>2
    <3>2. /\ Script(c)[k].kind = "prompt" <=> k = 2 * P + 1
          /\ Script(c)[k] = Pager <=> Script(c)[k].kind = "pager"
      BY <1>10, <3>1
    <3>3. Script(c)[k].kind = "pager" => k < 2 * P + 1 /\ \E q \in Nat : k = 2 * q + 3
      <4>1. Script(c)[k].kind = "pager" => k # 2 * P + 1 /\ k % 2 # 0
        BY <1>10, <3>1
      <4>2. k # 2 * P + 1 => k < 2 * P + 1
        BY <1>4, <3>1
      <4>3. k % 2 # 0 => \E q \in Nat : k = 2 * q + 3
        BY <1>12, <3>1
      <4> QED
        BY <4>1, <4>2, <4>3
    <3>4. Script(c)[k].kind = "data" <=> k % 2 = 0
      BY <1>10, <1>11, <3>1
    <3> QED
      BY <3>2, <3>3, <3>4
  <2> QED
    BY <2>1, <2>2
<1> QED
  BY <1>1, <1>3, <1>5, <1>6, <1>9, <1>13, <1>14, <1>15 DEF P

\* The pages in a beginning of a command's output are its first pages, in their order.
LEMMA PrefixPages ==
  ASSUME NEW c \in ToSet(Batch), NEW s \in Seq(Marks), Len(s) <= Len(Script(c)),
         \A k \in 1..Len(s) : s[k] = Script(c)[k]
  PROVE  PagesIn(s) = [p \in 1..(Len(s) \div 2) |-> Mark("data", c, p)]
<1> DEFINE P == Len(s) \div 2
           N == Len(s)
           G == [n \in 0..N |-> [p \in 1..(n \div 2) |-> Mark("data", c, p)]]
           Up(f, n) == IF n = 0 THEN <<>>
                       ELSE IF s[n].kind = "data" THEN Append(f[n - 1], s[n])
                       ELSE f[n - 1]
<1>2. N \in Nat /\ N \div 2 = P /\ P \in Nat
  <2>1. N \in Nat
    BY LenProperties
  <2> HIDE DEF N
  <2> QED
    BY <2>1 DEF N
<1>1. /\ \A k \in 1..N : s[k].kind = "data" <=> k % 2 = 0
      /\ \A p \in Nat : 2 * p \in 1..N => s[2 * p] = Mark("data", c, p)
  <2> DEFINE n == 2 * Pages[c] + 1
             t == Script(c)
  <2>1. /\ Pages[c] \in Nat /\ Len(t) = n /\ (\A k \in 1..n : t[k].kind = "data" <=> k % 2 = 0)
        /\ \A p \in 1..Pages[c] : t[2 * p] = Mark("data", c, p)
    BY ScriptMarks
  <2>2. n \in Nat
    BY <2>1
  <2>3. \A p \in Nat : 2 * p \in 1..n => p \in 1..Pages[c]
    BY <2>1
  <2>4. N <= n /\ \A k \in 1..N : s[k] = t[k]
    BY <2>1
  <2> HIDE DEF n, t, N
  <2>5. \A k \in 1..N : k \in 1..n
    BY <1>2, <2>2, <2>4
  <2> QED
    BY <2>1, <2>3, <2>4, <2>5
<1>3. ASSUME NEW n \in 1..N PROVE G[n] = Up(G, n)
  <2>1. n \in Nat /\ n # 0 /\ n - 1 \in 0..N /\ n \in 0..N
    BY <1>2
  <2>2. CASE n % 2 = 0
    <3>1. PICK p \in Nat \ {0} : n = 2 * p
      <4>1. n = 2 * (n \div 2) /\ n \div 2 \in Nat \ {0}
        BY <2>1, <2>2
      <4> QED
        BY <4>1
    <3>2. n \div 2 = p /\ (n - 1) \div 2 = p - 1 /\ p \in Nat /\ p - 1 \in Nat
      BY <3>1
    <3>3. G[n] = [q \in 1..p |-> Mark("data", c, q)]
          /\ G[n - 1] = [q \in 1..(p - 1) |-> Mark("data", c, q)]
      BY <2>1, <3>2
    <3>4. s[n] = Mark("data", c, p) /\ s[n].kind = "data"
      BY <1>1, <2>2, <3>1
    <3>5. Append([q \in 1..(p - 1) |-> Mark("data", c, q)], Mark("data", c, p))
            = [q \in 1..p |-> Mark("data", c, q)]
      <4> DEFINE a == [q \in 1..(p - 1) |-> Mark("data", c, q)]
                 b == [q \in 1..p |-> Mark("data", c, q)]
                 m == Mark("data", c, p)
                 D == {Mark("data", c, q) : q \in Nat}
      <4>1. a \in [1..(p - 1) -> D] /\ b \in [1..p -> D] /\ m \in D
        BY <3>2
      <4>2. \A i \in 1..(p - 1) : a[i] = b[i]
        BY <3>2
      <4>3. b[p] = m
        BY <3>2
      <4> HIDE DEF a, b, m, D
      <4>4. a \in Seq(D) /\ Len(a) = p - 1 /\ b \in Seq(D) /\ Len(b) = p
        BY <3>2, <4>1, FunctionIsSeq
      <4>5. /\ Append(a, m) \in Seq(D) /\ Len(Append(a, m)) = p
            /\ (\A i \in 1..(p - 1) : Append(a, m)[i] = a[i]) /\ Append(a, m)[p] = m
        <5>1. /\ Append(a, m) \in Seq(D) /\ Len(Append(a, m)) = Len(a) + 1
              /\ (\A i \in 1..Len(a) : Append(a, m)[i] = a[i]) /\ Append(a, m)[Len(a) + 1] = m
          BY <4>1, <4>4, AppendProperties
        <5> QED
          BY <3>2, <4>4, <5>1
      <4>6. \A i \in 1..p : Append(a, m)[i] = b[i]
        <5> SUFFICES ASSUME NEW i \in 1..p PROVE Append(a, m)[i] = b[i]
          OBVIOUS
        <5>1. i = p \/ i \in 1..(p - 1)
          BY <3>2
        <5> QED
          BY <4>2, <4>3, <4>5, <5>1
      <4>7. Append(a, m) = b
        BY <4>4, <4>5, <4>6, SeqEqual
      <4> QED
        BY <4>7 DEF a, b, m
    <3> HIDE DEF G
    <3> QED
      BY <2>1, <3>3, <3>4, <3>5
  <2>3. CASE n % 2 # 0
    <3>1. n \div 2 = (n - 1) \div 2
      BY <2>1, <2>3
    <3>2. G[n] = G[n - 1]
      BY <2>1, <3>1
    <3>3. s[n].kind # "data"
      BY <1>1, <2>3
    <3> HIDE DEF G
    <3> QED
      BY <2>1, <3>2, <3>3
  <2> QED
    BY <2>2, <2>3
<1>4. G[0] = Up(G, 0)
  BY <1>2
<1>5. G = [n \in 0..N |-> Up(G, n)]
  <2>1. \A n \in 0..N : n = 0 \/ n \in 1..N
    BY <1>2
  <2>2. \A n \in 0..N : G[n] = Up(G, n)
    <3> HIDE DEF Up
    <3> QED
      BY <1>3, <1>4, <2>1
  <2>3. G = [n \in 0..N |-> G[n]]
    OBVIOUS
  <2> HIDE DEF G, Up
  <2> QED
    BY <2>2, <2>3
<1>6. PICK F : F = [n \in 0..N |-> Up(F, n)] /\ PagesIn(s) = F[N]
  <2> HIDE DEF G
  <2> QED
    BY <1>5 DEF PagesIn
<1>7. F[N] = G[N]
  <2> SUFFICES ASSUME F[N] # G[N] PROVE FALSE
    OBVIOUS
  <2> DEFINE T == {n \in 0..N : F[n] # G[n]}
  <2>1. N \in T /\ T \subseteq Nat
    <3> HIDE DEF N, G
    <3> QED
      BY <1>2
  <2>2. PICK x \in T : \A y \in T : x <= y
    <3> HIDE DEF T
    <3> QED
      BY <2>1, LeastNumber
  <2>3. x \in 0..N /\ F[x] # G[x]
    OBVIOUS
  <2>4. F[x] = Up(F, x)
    <3> HIDE DEF Up
    <3> QED
      BY <1>6, <2>3
  <2>5. x # 0
    BY <1>4, <2>3, <2>4
  <2>6. x \in 1..N /\ x - 1 \in 0..N /\ x \in Int
    <3> HIDE DEF N, G, T
    <3> QED
      BY <1>2, <2>3, <2>5
  <2>7. F[x - 1] = G[x - 1]
    <3>1. x - 1 \notin T
      <4> HIDE DEF T
      <4> QED
        BY <2>1, <2>2, <2>6
    <3> QED
      BY <2>6, <3>1
  <2>8. G[x] = Up(G, x)
    BY <1>3, <2>6
  <2> HIDE DEF G, T
  <2> QED
    BY <2>3, <2>4, <2>5, <2>7, <2>8
<1>8. G[N] = [p \in 1..P |-> Mark("data", c, p)]
  <2>1. N \in 0..N
    <3> HIDE DEF N
    <3> QED
      BY <1>2
  <2> QED
    BY <2>1
<1> QED
  <2> HIDE DEF G
  <2> QED
    BY <1>6, <1>7, <1>8

\* The pages in a command's output are its pages, all of them and in their order.
LEMMA ScriptPages ==
  ASSUME NEW c \in ToSet(Batch)
  PROVE  PagesIn(Script(c)) = PagesOf(c)
<1> DEFINE s == Script(c)
           n == Len(s) \div 2
<1>1. s \in Seq(Marks) /\ Len(s) = 2 * Pages[c] + 1 /\ Pages[c] \in Nat
  BY ScriptMarks
<1>2. Len(s) <= Len(Script(c)) /\ n = Pages[c]
  BY <1>1
<1>3. \A k \in 1..Len(s) : s[k] = Script(c)[k]
  OBVIOUS
<1>4. PagesIn(s) = [p \in 1..n |-> Mark("data", c, p)]
  <2> HIDE DEF s
  <2> QED
    BY <1>1, <1>2, <1>3, PrefixPages
<1> HIDE DEF n
<1> QED
  BY <1>2, <1>4 DEF PagesOf

\* Whose the marks of a command's output are: its echo and its pages are its own.
LEMMA ScriptOf ==
  ASSUME NEW c \in ToSet(Batch), NEW k \in 1..Len(Script(c))
  PROVE  /\ Script(c)[k] = Prompt \/ Script(c)[k] = Pager \/ Script(c)[k].of = c
         /\ Script(c)[k].kind \in {"echo", "data", "pager", "prompt"}
         /\ Script(c)[k].kind = "data" => Script(c)[k].of = c /\ k >= 2
         /\ Script(c)[k].kind = "prompt" => Script(c)[k] = Prompt
<1> DEFINE n == 2 * Pages[c] + 1
<1>1. Len(Script(c)) = n /\ Script(c)[1] = Echo(c)
  BY ScriptMarks
<1>2. Script(c) = [i \in 1..n |->
                     IF i = 1 THEN Mark("echo", c, 0)
                     ELSE IF i = n THEN Prompt
                     ELSE IF i % 2 = 0 THEN Mark("data", c, i \div 2)
                     ELSE Pager]
  BY DEF Script
<1>3. n \in Nat
  BY ScriptMarks
<1> HIDE DEF n
<1>4. k \in 1..n
  BY <1>1
<1>5. Script(c)[k] = IF k = 1 THEN Mark("echo", c, 0)
                     ELSE IF k = n THEN Prompt
                     ELSE IF k % 2 = 0 THEN Mark("data", c, k \div 2)
                     ELSE Pager
  BY <1>2, <1>4
<1> QED
  BY <1>3, <1>4, <1>5 DEF Mark, Prompt, Pager

-----------------------------------------------------------------------------
(* What is still to be read *)

\* Marks the tool has not read, shown or not.
Coming == screen \o showing

\* A sequence has no such element.
Lacks(s, e) == \A i \in 1..Len(s) : s[i] # e

\* The sequences of the session, and how what comes is made of two of them.
LEMMA Streams ==
  ASSUME SessionInv
  PROVE  /\ typed \in Seq({Return, Space} \cup ToSet(Batch)) /\ Len(typed) \in Nat
         /\ screen \in Seq(Marks) /\ Len(screen) \in Nat
         /\ showing \in Seq(Marks) /\ Len(showing) \in Nat
         /\ output \in Seq(Marks) /\ Len(output) \in Nat
         /\ Coming \in Seq(Marks) /\ Len(Coming) \in Nat
         /\ Len(Coming) = Len(screen) + Len(showing)
         /\ \A i \in 1..Len(screen) : Coming[i] = screen[i]
         /\ \A i \in 1..Len(showing) : Coming[Len(screen) + i] = showing[i]
<1>1. /\ typed \in Seq({Return, Space} \cup ToSet(Batch))
      /\ screen \in Seq(Marks) /\ showing \in Seq(Marks) /\ output \in Seq(Marks)
  BY DEF SessionInv, SessionTypeOK
<1>2. Len(typed) \in Nat /\ Len(screen) \in Nat /\ Len(showing) \in Nat /\ Len(output) \in Nat
  BY <1>1, LenProperties
<1>3. /\ Coming \in Seq(Marks) /\ Len(Coming) = Len(screen) + Len(showing)
      /\ \A i \in 1..(Len(screen) + Len(showing)) :
           Coming[i] = IF i <= Len(screen) THEN screen[i] ELSE showing[i - Len(screen)]
  BY <1>1, ConcatProperties DEF Coming
<1>4. \A i \in 1..Len(screen) : Coming[i] = screen[i]
  BY <1>2, <1>3
<1>5. ASSUME NEW i \in 1..Len(showing) PROVE Coming[Len(screen) + i] = showing[i]
  <2>1. PICK j \in 1..(Len(screen) + Len(showing)) : j = Len(screen) + i
    BY <1>2
  <2>2. ~(j <= Len(screen)) /\ j - Len(screen) = i
    BY <1>2, <2>1
  <2> QED
    BY <1>3, <2>1, <2>2
<1> QED
  BY <1>1, <1>2, <1>3, <1>4, <1>5

\* What comes, with the screen in two parts.
LEMMA FrontOff ==
  ASSUME NEW front \in Seq(Marks), NEW rest \in Seq(Marks), showing \in Seq(Marks)
  PROVE  front \o rest = screen => front \o (rest \o showing) = Coming
<1>1. (front \o rest) \o showing = front \o (rest \o showing)
  BY SMTT(30), ConcatAssociative
<1> QED
  BY <1>1 DEF Coming

\* Marks that are read or thrown away from the screen leave the others coming.
LEMMA Dropped ==
  ASSUME SessionInv, showing' = showing, NEW k \in 0..Len(screen),
         screen' = SubSeq(screen, k + 1, Len(screen))
  PROVE  /\ SubSeq(screen, 1, k) \in Seq(Marks) /\ Coming' \in Seq(Marks)
         /\ Len(SubSeq(screen, 1, k)) = k
         /\ \A i \in 1..k : SubSeq(screen, 1, k)[i] = screen[i]
         /\ Len(screen') = Len(screen) - k
         /\ SubSeq(screen, 1, k) \o Coming' = Coming
         /\ Len(Coming') = Len(Coming) - k
         /\ \A i \in 1..Len(Coming') : Coming'[i] = Coming[i + k]
<1>9. PICK front : front = SubSeq(screen, 1, k)
  OBVIOUS
<1>1. screen \in Seq(Marks) /\ showing \in Seq(Marks) /\ Coming \in Seq(Marks)
      /\ Len(screen) \in Nat /\ Len(showing) \in Nat
  BY Streams
<1>2. /\ front \in Seq(Marks) /\ screen' \in Seq(Marks)
      /\ Len(front) = k /\ Len(screen') = Len(screen) - k
      /\ \A i \in 1..k : front[i] = screen[i]
      /\ front \o screen' = screen
  BY <1>1, <1>9, SplitAt
<1>3. Coming' = screen' \o showing /\ Coming = screen \o showing
  BY DEF Coming
<1>4. front \o (screen' \o showing) = screen \o showing
  <2>1. PICK rest \in Seq(Marks) : rest = screen'
    BY <1>2
  <2>2. front \o rest = screen
    BY <1>2, <2>1
  <2>3. front \o (rest \o showing) = Coming
    BY <1>1, <1>2, <2>2, FrontOff
  <2> QED
    BY <1>3, <2>1, <2>3
<1>5. Coming' \in Seq(Marks) /\ Len(Coming') = Len(screen') + Len(showing)
  BY <1>1, <1>2, <1>3, ConcatProperties
<1>6. front \o Coming' = Coming
  BY <1>3, <1>4
<1>7. Len(Coming') = Len(Coming) - k /\ Len(Coming') \in Nat /\ k \in Nat
  BY <1>1, <1>2, <1>5, Streams
<1>8. ASSUME NEW i \in 1..Len(Coming') PROVE Coming'[i] = Coming[i + k]
  <2>1. \A j \in 1..(Len(front) + Len(Coming')) :
          (front \o Coming')[j] = IF j <= Len(front) THEN front[j] ELSE Coming'[j - Len(front)]
    BY <1>2, <1>5, ConcatProperties
  <2>2. PICK j \in 1..(Len(front) + Len(Coming')) : j = i + k
    BY <1>2, <1>7
  <2>3. ~(j <= Len(front)) /\ j - Len(front) = i
    BY <1>2, <1>7, <2>2
  <2> QED
    BY <1>6, <2>1, <2>2, <2>3
<1> QED
  BY <1>2, <1>5, <1>6, <1>7, <1>8, <1>9

\* Throwing away what is on the screen, or nothing, drops marks too.
LEMMA DropsAllOrNone ==
  ASSUME SessionInv
  PROVE  /\ SubSeq(screen, Len(screen) + 1, Len(screen)) = <<>>
         /\ SubSeq(screen, 0 + 1, Len(screen)) = screen
         /\ 0 \in 0..Len(screen) /\ Len(screen) \in 0..Len(screen)
<1>1. screen \in Seq(Marks) /\ Len(screen) \in Nat
  BY Streams
<1>2. SubSeq(screen, Len(screen) + 1, Len(screen)) = <<>>
  <2> DEFINE m == Len(screen) + 1
  <2>1. m \in Int /\ Len(screen) \in Int /\ Len(screen) < m
    BY <1>1
  <2> HIDE DEF m
  <2>2. SubSeq(screen, m, Len(screen)) = <<>>
    BY <2>1, SubSeqEmpty
  <2> QED
    BY <2>2 DEF m
<1>3. SubSeq(screen, 1, Len(screen)) = screen
  BY <1>1, SubSeqFull
<1> QED
  BY <1>1, <1>2, <1>3

\* What the device shows was coming.
LEMMA ShownWasComing ==
  ASSUME SessionInv, Shows
  PROVE  /\ Coming' = Coming /\ typed' = typed
         /\ Len(screen') = Len(screen) + 1 /\ Head(showing) = Coming[Len(screen) + 1]
         /\ Len(screen) < Len(Coming)
<1>1. screen \in Seq(Marks) /\ showing \in Seq(Marks) /\ showing # <<>>
  BY Streams DEF Shows
<1>2. Append(screen, Head(showing)) \o Tail(showing) = screen \o showing
  BY <1>1, HeadMoves
<1>3. Len(showing) \in Nat \ {0} /\ Head(showing) = showing[1] /\ Head(showing) \in Marks
  <2>1. Len(showing) \in Nat \ {0}
    BY <1>1, EmptySeq
  <2>2. Head(showing) \in Marks
    BY <1>1, HeadTailProperties
  <2> QED
    BY <1>1, <2>1, <2>2
<1>4. Len(Append(screen, Head(showing))) = Len(screen) + 1
  BY <1>1, <1>3, AppendProperties
<1>5. 1 \in 1..Len(showing)
  BY <1>3
<1>6. showing[1] = Coming[Len(screen) + 1] /\ Len(Coming) = Len(screen) + Len(showing)
      /\ Len(screen) \in Nat
  BY <1>5, Streams
<1>7. Coming' = Coming /\ typed' = typed /\ screen' = Append(screen, Head(showing))
  BY <1>2 DEF Shows, Coming
<1> QED
  BY <1>3, <1>4, <1>6, <1>7

\* What the device answers to what is typed.
AnswerTo(key) == IF key = Return THEN <<Prompt>> ELSE IF key = Space THEN <<>> ELSE Script(key)

\* Input that the device reads: a key for the pager, or the first thing it does
\* when it has shown all.
LEMMA InputRead ==
  ASSUME SessionInv, ReadsInput
  PROVE  /\ typed # <<>> /\ typed' = Tail(typed) /\ screen' = screen
         /\ Head(typed) = typed[1] /\ Head(typed) \in {Return, Space} \cup ToSet(Batch)
         /\ Tail(typed) \in Seq({Return, Space} \cup ToSet(Batch))
         /\ Len(Tail(typed)) = Len(typed) - 1 /\ Len(typed) \in Nat \ {0}
         /\ \A i \in 1..Len(Tail(typed)) : Tail(typed)[i] = typed[i + 1]
         /\ \/ paused /\ ~paused' /\ Coming' = Coming /\ showing' = showing
            \/ /\ ~paused /\ ~paused' /\ showing = <<>> /\ Coming = screen
               /\ showing' = AnswerTo(Head(typed)) /\ Coming' = screen \o AnswerTo(Head(typed))
               /\ AnswerTo(Head(typed)) \in Seq(Marks)
<1> DEFINE Keys == {Return, Space} \cup ToSet(Batch)
<1>1. typed \in Seq(Keys) /\ typed # <<>> /\ screen \in Seq(Marks)
  BY Streams DEF ReadsInput
<1>2. Len(typed) \in Nat \ {0}
  BY <1>1, EmptySeq
<1>3. /\ Head(typed) \in Keys /\ Tail(typed) \in Seq(Keys) /\ Len(Tail(typed)) = Len(typed) - 1
      /\ \A i \in 1..Len(Tail(typed)) : Tail(typed)[i] = typed[i + 1]
  <2> HIDE DEF Keys
  <2> QED
    BY <1>1, HeadTailProperties
<1>4. Head(typed) = typed[1]
  BY <1>1, <1>2
<1>5. /\ typed' = Tail(typed) /\ screen' = screen
  BY DEF ReadsInput
<1>6. CASE paused /\ paused' = FALSE /\ UNCHANGED showing
  BY <1>1, <1>2, <1>3, <1>4, <1>5, <1>6 DEF Coming
<1>7. CASE /\ ~paused /\ showing = <<>> /\ UNCHANGED paused
           /\ showing' = AnswerTo(Head(typed))
  <2>1. screen \o <<>> = screen
    BY <1>1, ConcatEmptySeq
  <2>2. AnswerTo(Head(typed)) \in Seq(Marks)
    <3>1. Prompt \in Marks /\ <<Prompt>> \in Seq(Marks) /\ <<>> \in Seq(Marks)
      BY MarkTyped DEF Prompt
    <3>2. Head(typed) \in ToSet(Batch) => Script(Head(typed)) \in Seq(Marks)
      BY ScriptTyped
    <3> QED
      BY <1>3, <3>1, <3>2 DEF AnswerTo
  <2> QED
    BY <1>1, <1>2, <1>3, <1>4, <1>5, <1>7, <2>1, <2>2 DEF Coming
<1> QED
  BY <1>6, <1>7 DEF ReadsInput, AnswerTo

-----------------------------------------------------------------------------
(* Each command reads its own output *)

\* Nothing has been read of a command whose echo is still awaited.
Clean == at \in {"next", "prompt", "echo"} => output = <<>> /\ paged = 0

\* A command that has not been typed yet is in nothing the device has to read
\* or shows.
Unasked ==
  \A i \in 1..Len(Batch) :
    i > current \/ (i = current /\ at \in {"next", "prompt"}) =>
      Lacks(typed, Batch[i]) /\ Lacks(Coming, Echo(Batch[i]))

\* The echo of a command that was typed is still to come, if it comes at all: the
\* device may have taken the command for an answer at its pager.
ToCome(c) ==
  /\ Lacks(Coming, Echo(c))
  /\ \/ typed = <<>>
     \/ /\ typed # <<>> /\ typed[Len(typed)] = c
        /\ \A i \in 1..(Len(typed) - 1) : typed[i] # c

\* Or the output of the command is all that comes behind its echo.
Come(c) ==
  /\ typed = <<>>
  /\ \E n \in Nat :
       /\ \A i \in 1..n : Coming[i] # Echo(c)
       /\ Len(Coming) = n + Len(Script(c))
       /\ \A i \in 1..Len(Script(c)) : Coming[n + i] = Script(c)[i]

\* One of the first n commands failed without its output, and its pages, which may
\* still come, have the common line.
LeftOver(n) ==
  \E j \in 1..n : results[j].status = "error" /\ results[j].pages = <<>> /\ Batch[j] \in Alike

\* Pages of a command from the first on, and all of them but for an excuse.
PagesFor(c, pages, excuse) ==
  \E n \in 1..Pages[c] :
    /\ pages = [p \in 1..n |-> Mark("data", c, p)]
    /\ n < Pages[c] => c \in Alike /\ excuse

\* From its echo on, what was read and what comes is the output of the command.
Own ==
  /\ Unasked
  /\ at = "echo" => ToCome(Command) \/ Come(Command)
  /\ at = "reading" => output \o Coming = Script(Command) /\ \A i \in 1..Len(typed) : typed[i] = Space
  /\ at = "classify" => PagesFor(Command, PagesIn(output), LeftOver(Len(results)))

\* The results that were read are whole, or have the excuse.
Whole ==
  \A i \in 1..Len(results) :
    results[i].status = "ok" => PagesFor(Batch[i], results[i].pages, LeftOver(i - 1))

\* Nothing of a command comes before it is typed, so that what was taken for the
\* prompt is not the command's own.
Unseen ==
  /\ \A i \in 1..Len(Batch) :
       i > current \/ (i = current /\ at \in {"next", "prompt"}) =>
         \A m \in 1..Len(Coming) : Coming[m].of # Batch[i]
  /\ at \in {"echo", "reading"} => expects.of # Command

\* The command at hand may still be typed or come.
Hand == IF at \in {"echo", "reading"} THEN {Command} ELSE {}

\* Unless a command failed before, pages with the common line are those of the
\* command at hand, and the line was not taken for the prompt.
Strays ==
  ~LeftOver(Len(results)) =>
    /\ \A m \in 1..Len(Coming) :
         Coming[m].kind = "data" /\ Coming[m].of \in Alike => Coming[m].of \in Hand
    /\ \A m \in 1..Len(typed) : typed[m] \in Alike => typed[m] \in Hand
    /\ at \in {"echo", "reading"} => expects # Rule

OwnInv == IsInjective(Batch) => Own /\ Unseen /\ Strays /\ Whole

\* Commands and keys differ, and so do two commands of the batch.
LEMMA CommandsDiffer ==
  /\ \A i \in 1..Len(Batch) : Batch[i] # Return /\ Batch[i] # Space
  /\ Return # Space
  /\ IsInjective(Batch) => \A i, j \in 1..Len(Batch) : Batch[i] = Batch[j] => i = j
<1>1. {"return", "space", "device"} \cap ToSet(Batch) = {}
  BY SessionAssumption
<1>2. Batch \in Seq(ToSet(Batch))
  BY SessionAssumption
<1>3. DOMAIN Batch = 1..Len(Batch)
  BY <1>2, LenProperties
<1> QED
  BY <1>1, <1>3, BatchTyped DEF Return, Space, IsInjective

\* The answer to one command holds the echo of no other.
LEMMA AnswerLacks ==
  ASSUME NEW c, NEW key \in {Return, Space} \cup ToSet(Batch), key # c
  PROVE  Lacks(AnswerTo(key), Echo(c))
<1>1. Prompt # Echo(c)
  BY DEF Prompt, Echo, Mark
<1>2. CASE key = Return
  BY <1>1, <1>2 DEF AnswerTo, Lacks
<1>3. CASE key = Space /\ key # Return
  BY <1>3 DEF AnswerTo, Lacks
<1>4. CASE key \in ToSet(Batch) /\ key # Space /\ key # Return
  <2>1. Len(Script(key)) = 2 * Pages[key] + 1 /\ Script(key)[1] = Echo(key)
        /\ \A k \in 2..(2 * Pages[key] + 1) : Script(key)[k] # Echo(c)
    BY <1>4, ScriptMarks
  <2>2. Echo(key) # Echo(c)
    BY DEF Echo, Mark
  <2>3. AnswerTo(key) = Script(key)
    BY <1>4 DEF AnswerTo
  <2> DEFINE n == 2 * Pages[key] + 1
  <2>4. \A k \in 1..n : k = 1 \/ k \in 2..n
    <3>1. Pages[key] \in Nat
      BY <1>4, ScriptMarks
    <3>2. n \in Nat
      BY <3>1
    <3> HIDE DEF n
    <3> QED
      BY <3>2
  <2> HIDE DEF n
  <2>5. Len(Script(key)) = n /\ \A k \in 2..n : Script(key)[k] # Echo(c)
    BY <2>1 DEF n
  <2>6. \A k \in 1..Len(Script(key)) : Script(key)[k] # Echo(c)
    BY <2>1, <2>2, <2>4, <2>5
  <2> QED
    BY <2>3, <2>6 DEF Lacks
<1> QED
  BY <1>2, <1>3, <1>4

\* Two sequences that lack an element lack it together.
LEMMA BothLack ==
  ASSUME NEW S, NEW s \in Seq(S), NEW t \in Seq(S), NEW e, Lacks(s, e), Lacks(t, e)
  PROVE  Lacks(s \o t, e)
<1>1. /\ Len(s) \in Nat /\ Len(t) \in Nat /\ Len(s \o t) = Len(s) + Len(t)
      /\ \A i \in 1..(Len(s) + Len(t)) :
           (s \o t)[i] = IF i <= Len(s) THEN s[i] ELSE t[i - Len(s)]
  BY ConcatProperties, LenProperties
<1>2. ASSUME NEW i \in 1..(Len(s) + Len(t)) PROVE (s \o t)[i] # e
  <2>1. CASE i <= Len(s)
    <3>1. i \in 1..Len(s)
      BY <1>1, <2>1
    <3> QED
      BY <1>1, <2>1, <3>1 DEF Lacks
  <2>2. CASE ~(i <= Len(s))
    <3>1. i - Len(s) \in 1..Len(t)
      BY <1>1, <2>2
    <3> QED
      BY <1>1, <2>2, <3>1 DEF Lacks
  <2> QED
    BY <2>1, <2>2
<1> QED
  BY <1>1, <1>2 DEF Lacks

\* What lacks a mark lacks it when some of it is dropped.
LEMMA DroppedLacks ==
  ASSUME SessionInv, showing' = showing, NEW k \in 0..Len(screen),
         screen' = SubSeq(screen, k + 1, Len(screen)), NEW e, Lacks(Coming, e)
  PROVE  Lacks(Coming', e)
<1>1. /\ Len(Coming') = Len(Coming) - k
      /\ \A i \in 1..Len(Coming') : Coming'[i] = Coming[i + k]
  BY Dropped
<1>2. Len(Coming) \in Nat /\ k \in Nat
  BY Streams
<1>3. \A i \in 1..Len(Coming') : i + k \in 1..Len(Coming)
  BY <1>1, <1>2
<1> QED
  BY <1>1, <1>3 DEF Lacks

\* What was typed and one more key.
LEMMA TypedLacks ==
  ASSUME SessionInv, NEW key \in {Return, Space} \cup ToSet(Batch), typed' = Append(typed, key)
  PROVE  /\ \A e : Lacks(typed, e) /\ e # key => Lacks(typed', e)
         /\ typed' # <<>> /\ Len(typed') = Len(typed) + 1 /\ typed'[Len(typed')] = key
         /\ \A i \in 1..Len(typed) : typed'[i] = typed[i]
<1> DEFINE Keys == {Return, Space} \cup ToSet(Batch)
<1>1. typed \in Seq(Keys) /\ Len(typed) \in Nat /\ key \in Keys
  BY Streams
<1> HIDE DEF Keys
<1>2. /\ typed' # <<>> /\ Len(typed') = Len(typed) + 1 /\ typed'[Len(typed) + 1] = key
      /\ \A i \in 1..Len(typed) : typed'[i] = typed[i]
  BY <1>1, AppendProperties
<1>3. \A i \in 1..(Len(typed) + 1) : i = Len(typed) + 1 \/ i \in 1..Len(typed)
  BY <1>1
<1>4. \A e : Lacks(typed, e) /\ e # key => Lacks(typed', e)
  BY <1>2, <1>3 DEF Lacks
<1> QED
  BY <1>2, <1>4

\* The device leaves each command its output.
LEMMA DeviceKeepsOwn ==
  ASSUME SessionInv, Device \/ Hangs, Own
  PROVE  Own'
<1>1. UNCHANGED <<at, current, output, results>>
  BY DEF Device, ReadsInput, Shows, Hangs
<1>5. PagesFor(Command, PagesIn(output), LeftOver(Len(results)))
        => PagesFor(Command, PagesIn(output), LeftOver(Len(results)))'
  <2>1. PagesIn(output)' = PagesIn(output) /\ Command' = Command
    BY <1>1 DEF PagesIn, Command
  <2>2. LeftOver(Len(results))' <=> LeftOver(Len(results))
    BY <1>1 DEF LeftOver
  <2> QED
    BY <2>1, <2>2 DEF PagesFor
<1>6. at' = "classify" => PagesFor(Command, PagesIn(output), LeftOver(Len(results)))'
  BY <1>1, <1>5 DEF Own
<1>2. CASE Coming' = Coming /\ typed' = typed
  <2>1. Unasked'
    BY <1>1, <1>2 DEF Own, Unasked, Lacks
  <2>2. at' = "echo" => ToCome(Command)' \/ Come(Command)'
    BY <1>1, <1>2 DEF Own, ToCome, Come, Lacks, Command
  <2>3. at' = "reading" => output' \o Coming' = Script(Command') /\ \A i \in 1..Len(typed') : typed'[i] = Space
    BY <1>1, <1>2 DEF Own, Command
  <2> QED
    BY <1>6, <2>1, <2>2, <2>3 DEF Own, Command
<1>3. CASE ReadsInput
  <2> DEFINE c == Head(typed)
  <2>1. /\ typed # <<>> /\ typed' = Tail(typed) /\ Len(typed') = Len(typed) - 1
        /\ Len(typed) \in Nat \ {0} /\ c = typed[1]
        /\ c \in {Return, Space} \cup ToSet(Batch)
        /\ \A i \in 1..Len(typed') : typed'[i] = typed[i + 1]
    BY <1>3, InputRead
  <2>2. \/ Coming' = Coming
        \/ /\ Coming = screen /\ Coming' = screen \o AnswerTo(c)
           /\ AnswerTo(c) \in Seq(Marks)
    BY <1>3, InputRead
  <2>3. screen \in Seq(Marks) /\ Len(screen) \in Nat
    BY Streams
  <2> HIDE DEF c
  <2>4. ASSUME NEW e PROVE Lacks(typed, e) => Lacks(typed', e) /\ c # e
    <3>1. \A i \in 1..Len(typed') : i + 1 \in 1..Len(typed)
      BY <2>1
    <3>2. 1 \in 1..Len(typed)
      BY <2>1
    <3> QED
      BY <2>1, <3>1, <3>2 DEF Lacks
  <2>5. ASSUME NEW e, c # e, Lacks(Coming, Echo(e)) PROVE Lacks(Coming', Echo(e))
    <3>1. Lacks(AnswerTo(c), Echo(e))
      BY <2>1, <2>5, AnswerLacks
    <3> QED
      BY <2>2, <2>3, <2>5, <3>1, BothLack
  <2>6. Unasked'
    <3>1. ASSUME NEW i \in 1..Len(Batch), i > current \/ (i = current /\ at \in {"next", "prompt"})
          PROVE  Lacks(typed', Batch[i]) /\ Lacks(Coming', Echo(Batch[i]))
      <4>1. Lacks(typed, Batch[i]) /\ Lacks(Coming, Echo(Batch[i]))
        BY <3>1 DEF Own, Unasked
      <4> QED
        BY <2>4, <2>5, <4>1
    <3> QED
      BY <1>1, <3>1 DEF Unasked
  <2>7. at = "echo" => ToCome(Command)' \/ Come(Command)'
    <3> SUFFICES ASSUME at = "echo" PROVE ToCome(Command)' \/ Come(Command)'
      OBVIOUS
    <3>1. Command' = Command
      BY <1>1 DEF Command
    <3>2. current \in 1..Len(Batch) /\ Command \in ToSet(Batch) /\ Command # Return /\ Command # Space
      <4>1. current \in 1..Len(Batch)
        BY BatchTyped DEF SessionInv, SessionTypeOK
      <4> QED
        BY <4>1, BatchTyped, CommandsDiffer DEF Command
    <3>3. /\ Lacks(Coming, Echo(Command)) /\ typed[Len(typed)] = Command
          /\ \A i \in 1..(Len(typed) - 1) : typed[i] # Command
      BY <2>1 DEF Own, ToCome, Come
    <3>4. CASE Len(typed) = 1
      <4>1. c = Command /\ typed' = <<>>
        <5>1. typed' \in Seq({Return, Space} \cup ToSet(Batch))
          BY <1>3, InputRead
        <5>2. Len(typed') = 0
          BY <2>1, <3>4
        <5> QED
          BY <2>1, <3>3, <3>4, <5>1, <5>2, EmptySeq
      <4>2. CASE Coming' = Coming
        <5>1. Lacks(Coming', Echo(Command'))
          BY <3>1, <3>3, <4>2
        <5> QED
          BY <4>1, <5>1 DEF ToCome
      <4>3. CASE Coming = screen /\ Coming' = screen \o AnswerTo(c) /\ AnswerTo(c) \in Seq(Marks)
        <5> DEFINE s == Script(Command)
        <5>1. AnswerTo(c) = s
          BY <3>2, <4>1 DEF AnswerTo
        <5> HIDE DEF s
        <5>2. s \in Seq(Marks) /\ Len(s) \in Nat
          BY <4>3, <5>1, LenProperties
        <5>3. /\ Len(Coming') = Len(screen) + Len(s)
              /\ \A i \in 1..(Len(screen) + Len(s)) :
                   Coming'[i] = IF i <= Len(screen) THEN screen[i] ELSE s[i - Len(screen)]
          BY <2>3, <4>3, <5>1, <5>2, ConcatProperties
        <5>4. \A i \in 1..Len(screen) : Coming'[i] # Echo(Command)
          <6>1. \A i \in 1..Len(screen) : i \in 1..(Len(screen) + Len(s)) /\ i <= Len(screen)
            BY <2>3, <5>2
          <6> QED
            BY <3>3, <4>3, <5>3, <6>1 DEF Lacks
        <5>5. ASSUME NEW i \in 1..Len(s) PROVE Coming'[Len(screen) + i] = s[i]
          <6>1. PICK j \in 1..(Len(screen) + Len(s)) : j = Len(screen) + i
            BY <2>3, <5>2
          <6>2. ~(j <= Len(screen)) /\ j - Len(screen) = i
            BY <2>3, <5>2, <6>1
          <6> QED
            BY <5>3, <6>1, <6>2
        <5> QED
          BY <2>3, <3>1, <4>1, <5>3, <5>4, <5>5 DEF Come, s
      <4> QED
        BY <2>2, <4>2, <4>3
    <3>5. CASE Len(typed) # 1
      <4>1. Len(typed) - 1 \in Nat \ {0} /\ Len(typed') = Len(typed) - 1
        BY <2>1, <3>5
      <4>2. c # Command
        BY <2>1, <3>3, <4>1
      <4>3. typed' # <<>>
        BY <4>1
      <4>4. typed'[Len(typed')] = Command
        <5>1. Len(typed') \in 1..Len(typed') /\ Len(typed') + 1 = Len(typed)
          BY <4>1
        <5> QED
          BY <2>1, <3>3, <5>1
      <4>5. \A i \in 1..(Len(typed') - 1) : typed'[i] # Command
        <5>1. \A i \in 1..(Len(typed') - 1) : i \in 1..Len(typed') /\ i + 1 \in 1..(Len(typed) - 1)
          BY <4>1
        <5> QED
          BY <2>1, <3>3, <5>1
      <4>6. Lacks(Coming', Echo(Command))
        BY <2>5, <3>3, <4>2
      <4> QED
        BY <3>1, <4>3, <4>4, <4>5, <4>6 DEF ToCome
    <3> QED
      BY <3>4, <3>5
  <2>8. at = "reading" => /\ output \o Coming' = Script(Command)
                          /\ \A i \in 1..Len(typed') : typed'[i] = Space
    <3> SUFFICES ASSUME at = "reading"
                 PROVE  /\ output \o Coming' = Script(Command)
                        /\ \A i \in 1..Len(typed') : typed'[i] = Space
      OBVIOUS
    <3>1. output \o Coming = Script(Command) /\ \A i \in 1..Len(typed) : typed[i] = Space
      BY DEF Own
    <3>2. c = Space /\ AnswerTo(c) = <<>>
      <4>1. 1 \in 1..Len(typed)
        BY <2>1
      <4> QED
        BY <2>1, <3>1, <4>1, CommandsDiffer DEF AnswerTo
    <3>3. Coming' = Coming
      BY <2>2, <2>3, <3>2, ConcatEmptySeq
    <3>4. \A i \in 1..Len(typed') : i + 1 \in 1..Len(typed)
      BY <2>1
    <3> QED
      BY <2>1, <3>1, <3>3, <3>4
  <2> QED
    BY <1>1, <1>6, <2>6, <2>7, <2>8 DEF Own, Command
<1>4. CASE Shows
  BY <1>2, <1>4, ShownWasComing
<1>7. CASE Hangs
  BY <1>2, <1>7 DEF Hangs, Coming
<1> QED
  BY <1>3, <1>4, <1>7 DEF Device

\* A step of the tool reads nothing of a command before its echo.
LEMMA CleanKept ==
  ASSUME Clean, Tool \/ Device \/ Hangs
  PROVE  Clean'
<1>1. CASE Device \/ Hangs
  BY <1>1 DEF Device, ReadsInput, Shows, Hangs, Clean
<1>2. CASE Tool
  BY <1>2 DEF Tool, NextCommand, PromptSeen, NoPrompt, Echoed, NoEcho, ReadPage, ReadLast,
              ReadTimesOut, Classify, EndBatch, CommandFails, Finish, Clean
<1> QED
  BY <1>1, <1>2

\* Any step of the tool drops some of what is on the screen, and what is coming
\* lacks what it lacked.
LEMMA ToolDrops ==
  ASSUME SessionInv, Tool
  PROVE  /\ showing' = showing
         /\ \E k \in 0..Len(screen) : screen' = SubSeq(screen, k + 1, Len(screen))
         /\ \A e : Lacks(Coming, e) => Lacks(Coming', e)
<1>1. showing' = showing
  BY DEF Tool, NextCommand, PromptSeen, NoPrompt, Echoed, NoEcho, ReadPage, ReadLast,
         ReadTimesOut, Classify, EndBatch, device
<1>2. \E k \in 0..Len(screen) : screen' = SubSeq(screen, k + 1, Len(screen))
  <2>1. CASE screen' = screen \/ screen' = <<>>
    BY <2>1, DropsAllOrNone
  <2>2. CASE \E j \in 1..Len(screen) : screen' = SubSeq(screen, j + 1, Len(screen))
    <3>1. PICK j \in 1..Len(screen) : screen' = SubSeq(screen, j + 1, Len(screen))
      BY <2>2
    <3>2. j \in 0..Len(screen)
      BY Streams
    <3> QED
      BY <3>1, <3>2
  <2>3. CASE \E j \in 1..Len(screen) : screen' = SubSeq(screen, j, Len(screen))
    <3>1. PICK j \in 1..Len(screen) : screen' = SubSeq(screen, j, Len(screen))
      BY <2>3
    <3>2. PICK k \in 0..Len(screen) : j = k + 1
      <4>1. j - 1 \in 0..Len(screen) /\ j = (j - 1) + 1
        BY Streams
      <4> QED
        BY <4>1
    <3> QED
      BY <3>1, <3>2
  <2> QED
    BY <2>1, <2>2, <2>3
    DEF Tool, NextCommand, PromptSeen, NoPrompt, Echoed, NoEcho, ReadPage, ReadLast,
        ReadTimesOut, Classify, EndBatch, AskPrompt, device
<1>3. ASSUME NEW e, Lacks(Coming, e) PROVE Lacks(Coming', e)
  BY <1>1, <1>2, <1>3, DroppedLacks
<1> QED
  BY <1>1, <1>2, <1>3

\* A command that finishes leaves the next ones unasked.
LEMMA FinishKeepsOwn ==
  ASSUME SessionInv, Own, Tool, NEW result, Finish(result), typed' = typed
  PROVE  Own'
<1>1. at' = "next" /\ current' = current + 1 /\ current \in Nat
  BY DEF Finish, SessionInv, SessionTypeOK
<1>2. ASSUME NEW i \in 1..Len(Batch), i > current'
             \/ (i = current' /\ at' \in {"next", "prompt"})
      PROVE  Lacks(typed', Batch[i]) /\ Lacks(Coming', Echo(Batch[i]))
  <2>1. i > current
    BY <1>1, <1>2, BatchTyped
  <2>2. Lacks(typed, Batch[i]) /\ Lacks(Coming, Echo(Batch[i]))
    BY <2>1 DEF Own, Unasked
  <2> QED
    BY <2>2, ToolDrops
<1> QED
  BY <1>1, <1>2 DEF Own, Unasked

\* A step that goes on with the command at hand, or ends the batch, and types a
\* key at most leaves the next ones unasked.
LEMMA UnaskedKept ==
  ASSUME SessionInv, Unasked, Tool, current' = current,
         at' \in {"next", "prompt"} => at \in {"next", "prompt"},
         \/ typed' = typed
         \/ typed' = Append(typed, Return)
         \/ typed' = Append(typed, Space)
  PROVE  Unasked'
<1>1. ASSUME NEW i \in 1..Len(Batch), i > current'
             \/ (i = current' /\ at' \in {"next", "prompt"})
      PROVE  Lacks(typed', Batch[i]) /\ Lacks(Coming', Echo(Batch[i]))
  <2>1. Lacks(typed, Batch[i]) /\ Lacks(Coming, Echo(Batch[i]))
    BY <1>1 DEF Unasked
  <2>2. Lacks(typed', Batch[i])
    <3>1. Batch[i] # Return /\ Batch[i] # Space
      BY CommandsDiffer
    <3>2. typed' = Append(typed, Return) => Lacks(typed', Batch[i])
      BY <2>1, <3>1, TypedLacks
    <3>3. typed' = Append(typed, Space) => Lacks(typed', Batch[i])
      BY <2>1, <3>1, TypedLacks
    <3> QED
      BY <2>1, <3>2, <3>3
  <2> QED
    BY <2>1, <2>2, ToolDrops
<1> QED
  BY <1>1 DEF Unasked

\* The mark that a read stops at is one of those it took.
LEMMA Completion ==
  ASSUME SessionInv, NEW k \in 1..Len(screen)
  PROVE  /\ "pager" \in Kinds(Chunk(k)) <=> \E j \in 1..k : screen[j].kind = "pager"
         /\ "prompt" \in Kinds(Chunk(k)) <=> \E j \in 1..k : screen[j].kind = "prompt"
         /\ Completes(k) <=>
              \E j \in 1..k : expects \in Lines(screen[j]) \/ screen[j].kind = "pager"
         /\ Chunk(k) = SubSeq(screen, 1, k)
<1>1. screen \in Seq(Marks) /\ Len(screen) \in Nat
  BY Streams
<1>2. k \in 0..Len(screen)
  BY <1>1
<1>3. Chunk(k) \in Seq(Marks) /\ Len(Chunk(k)) = k /\ \A j \in 1..k : Chunk(k)[j] = screen[j]
  BY <1>1, <1>2, SplitAt DEF Chunk
<1>4. DOMAIN Chunk(k) = 1..k
  BY <1>3, LenProperties
<1>5. Kinds(Chunk(k)) = {screen[j].kind : j \in 1..k}
  BY <1>3, <1>4 DEF Kinds
<1>6. Completes(k) <=>
        \E j \in 1..k : expects \in Lines(screen[j]) \/ screen[j].kind = "pager"
  BY <1>3, <1>4 DEF Completes, Complete
<1> QED
  BY <1>5, <1>6 DEF Chunk

\* What has been read and what comes are the output of the command still, when some
\* of it is read.
LEMMA ReadOn ==
  ASSUME SessionInv, NEW k \in 0..Len(screen), showing' = showing,
         screen' = SubSeq(screen, k + 1, Len(screen)), output' = output \o SubSeq(screen, 1, k)
  PROVE  /\ output' \o Coming' = output \o Coming
         /\ output' \in Seq(Marks) /\ Len(output') = Len(output) + k
<1>1. PICK front, rest : front = SubSeq(screen, 1, k) /\ rest = Coming'
  OBVIOUS
<1>2. /\ front \in Seq(Marks) /\ rest \in Seq(Marks) /\ Len(front) = k /\ front \o rest = Coming
  BY <1>1, Dropped
<1>3. output \in Seq(Marks)
  BY Streams
<1>4. ASSUME NEW a \in Seq(Marks), NEW b \in Seq(Marks), NEW c \in Seq(Marks)
      PROVE  (a \o b) \o c = a \o (b \o c)
  BY SMTT(30), ConcatAssociative
<1>5. (output \o front) \o rest = output \o (front \o rest)
  BY <1>2, <1>3, <1>4
<1>6. output \o front \in Seq(Marks) /\ Len(output \o front) = Len(output) + Len(front)
  BY <1>2, <1>3, ConcatProperties
<1> QED
  BY <1>1, <1>2, <1>5, <1>6

\* The places of what is read and what comes.
LEMMA Places ==
  ASSUME SessionInv, NEW s, output \o Coming = s
  PROVE  /\ Len(s) = Len(output) + Len(Coming) /\ s \in Seq(Marks)
         /\ \A i \in 1..Len(output) : output[i] = s[i]
         /\ \A i \in 1..Len(Coming) : Coming[i] = s[Len(output) + i]
         /\ \A i \in 1..Len(screen) : screen[i] = s[Len(output) + i]
<1>1. /\ output \in Seq(Marks) /\ Coming \in Seq(Marks) /\ Len(output) \in Nat /\ Len(Coming) \in Nat
      /\ Len(screen) \in Nat /\ Len(showing) \in Nat /\ Len(Coming) = Len(screen) + Len(showing)
      /\ \A i \in 1..Len(screen) : Coming[i] = screen[i]
  BY Streams
<1>6. ASSUME NEW a \in Seq(Marks), NEW b \in Seq(Marks)
      PROVE  /\ a \o b \in Seq(Marks) /\ Len(a \o b) = Len(a) + Len(b)
             /\ \A i \in 1..(Len(a) + Len(b)) :
                  (a \o b)[i] = IF i <= Len(a) THEN a[i] ELSE b[i - Len(a)]
  BY ConcatProperties
<1>2. /\ s \in Seq(Marks) /\ Len(s) = Len(output) + Len(Coming)
      /\ \A i \in 1..(Len(output) + Len(Coming)) :
           s[i] = IF i <= Len(output) THEN output[i] ELSE Coming[i - Len(output)]
  BY <1>1, <1>6
<1>3. \A i \in 1..Len(output) : output[i] = s[i]
  BY <1>1, <1>2
<1>4. ASSUME NEW i \in 1..Len(Coming) PROVE Coming[i] = s[Len(output) + i]
  <2>1. PICK j \in 1..(Len(output) + Len(Coming)) : j = Len(output) + i
    BY <1>1
  <2>2. ~(j <= Len(output)) /\ j - Len(output) = i
    BY <1>1, <2>1
  <2> QED
    BY <1>2, <2>1, <2>2
<1>5. \A i \in 1..Len(screen) : i \in 1..Len(Coming)
  BY <1>1
<1> QED
  BY <1>1, <1>2, <1>3, <1>4, <1>5

\* What is on the screen, by its places in the output that is read.
LEMMA OnScreen ==
  ASSUME SessionInv, NEW c \in ToSet(Batch), output \o Coming = Script(c)
  PROVE  \A j \in 1..Len(screen) :
           /\ Len(output) + j \in 1..Len(Script(c))
           /\ screen[j] = Script(c)[Len(output) + j]
<1> DEFINE s == Script(c)
<1>1. output \o Coming = s
  OBVIOUS
<1> HIDE DEF s
<1>2. /\ Len(s) = Len(output) + Len(Coming)
      /\ \A j \in 1..Len(screen) : screen[j] = s[Len(output) + j]
  BY <1>1, Places
<1>3. /\ Len(output) \in Nat /\ Len(screen) \in Nat /\ Len(showing) \in Nat
      /\ Len(Coming) = Len(screen) + Len(showing)
  BY Streams
<1>4. \A j \in 1..Len(screen) : Len(output) + j \in 1..Len(s)
  BY <1>2, <1>3
<1> QED
  BY <1>2, <1>4 DEF s

\* A read that looks for the prompt stops at the prompt or the pager.
LEMMA AtPrompt ==
  ASSUME SessionInv, NEW c \in ToSet(Batch), output \o Coming = Script(c),
         NEW k \in 1..Len(screen), expects = Prompt
  PROVE  Completes(k) <=> "prompt" \in Kinds(Chunk(k)) \/ "pager" \in Kinds(Chunk(k))
<1>1. \A j \in 1..k : j \in 1..Len(screen)
  BY Streams
<1>2. ASSUME NEW j \in 1..k PROVE Prompt \in Lines(screen[j]) <=> screen[j].kind = "prompt"
  <2>1. PICK m : m = screen[j]
    OBVIOUS
  <2>2. m.kind = "prompt" => m = Prompt
    <3> DEFINE i == Len(output) + j
    <3>1. i \in 1..Len(Script(c)) /\ m = Script(c)[i]
      BY <1>1, <2>1, OnScreen
    <3> HIDE DEF i
    <3> QED
      BY <3>1, ScriptOf
  <2>3. Prompt # Rule /\ Prompt.kind = "prompt"
    BY DEF Prompt, Rule, Mark
  <2> QED
    BY <2>1, <2>2, <2>3 DEF Lines
<1> QED
  BY <1>2, Completion

\* A read stops at the pager or the prompt of its command, unless it looks for the
\* line that its pages have in common with another's.
LEMMA ReadEnds ==
  ASSUME SessionInv, NEW c \in ToSet(Batch), output \o Coming = Script(c),
         NEW k \in 1..Len(screen), Completes(k), "pager" \notin Kinds(Chunk(k)), expects.of # c
  PROVE  \/ "prompt" \in Kinds(Chunk(k))
         \/ expects = Rule /\ c \in Alike /\ Len(output) + k >= 2
<1>1. PICK j \in 1..k : expects \in Lines(screen[j])
  BY Completion
<1>2. j \in 1..Len(screen) /\ screen[j].kind # "pager"
  BY <1>1, Streams, Completion
<1> DEFINE i == Len(output) + j
<1>3. PICK m : m = screen[j]
  OBVIOUS
<1>4. i \in 1..Len(Script(c)) /\ m = Script(c)[i]
  BY <1>2, <1>3, OnScreen
<1>5. /\ m = Prompt \/ m = Pager \/ m.of = c
      /\ m.kind = "data" => m.of = c /\ i >= 2
  <2> HIDE DEF i
  <2> QED
    BY <1>4, ScriptOf
<1>6. expects = m \/ (m.kind = "data" /\ m.of \in Alike /\ expects = Rule)
  BY <1>1, <1>3 DEF Lines
<1>7. CASE expects = m
  <2>1. m = Prompt
    BY <1>2, <1>3, <1>5, <1>7 DEF Pager, Mark
  <2>2. screen[j].kind = "prompt"
    BY <1>3, <2>1 DEF Prompt, Mark
  <2> QED
    BY <2>2, Completion
<1>8. CASE m.kind = "data" /\ m.of \in Alike /\ expects = Rule
  <2>1. c \in Alike /\ i >= 2
    BY <1>5, <1>8
  <2>2. Len(output) + k >= 2
    BY <1>2, <2>1, Streams
  <2> QED
    BY <1>8, <2>1, <2>2
<1> QED
  BY <1>6, <1>7, <1>8

\* What is read of a command is a beginning of its output.
LEMMA ReadPrefix ==
  ASSUME SessionInv, NEW c \in ToSet(Batch), output \o Coming = Script(c),
         NEW k \in 1..Len(screen), output' = output \o Chunk(k)
  PROVE  /\ output' \in Seq(Marks) /\ Len(output') = Len(output) + k
         /\ Len(output') <= Len(Script(c))
         /\ \A i \in 1..Len(output') : output'[i] = Script(c)[i]
<1> DEFINE s == Script(c)
<1>1. output \o Coming = s
  OBVIOUS
<1> HIDE DEF s
<1>2. /\ Len(s) = Len(output) + Len(Coming)
      /\ \A i \in 1..Len(output) : output[i] = s[i]
      /\ \A i \in 1..Len(screen) : screen[i] = s[Len(output) + i]
  BY <1>1, Places
<1>3. /\ Len(output) \in Nat /\ Len(screen) \in Nat /\ Len(showing) \in Nat
      /\ Len(Coming) = Len(screen) + Len(showing) /\ screen \in Seq(Marks) /\ output \in Seq(Marks)
  BY Streams
<1>4. k \in 0..Len(screen)
  BY <1>3
<1>5. /\ Chunk(k) \in Seq(Marks) /\ Len(Chunk(k)) = k
      /\ \A i \in 1..k : Chunk(k)[i] = screen[i]
  BY <1>3, <1>4, SplitAt DEF Chunk
<1>6. ASSUME NEW a \in Seq(Marks), NEW b \in Seq(Marks)
      PROVE  /\ a \o b \in Seq(Marks) /\ Len(a \o b) = Len(a) + Len(b)
             /\ \A i \in 1..(Len(a) + Len(b)) :
                  (a \o b)[i] = IF i <= Len(a) THEN a[i] ELSE b[i - Len(a)]
  BY ConcatProperties
<1>7. /\ output' \in Seq(Marks) /\ Len(output') = Len(output) + k
      /\ \A i \in 1..(Len(output) + k) :
           output'[i] = IF i <= Len(output) THEN output[i] ELSE Chunk(k)[i - Len(output)]
  <2>1. output \in Seq(Marks) /\ Chunk(k) \in Seq(Marks)
    BY <1>3, <1>5
  <2>2. PICK d : d = Chunk(k)
    OBVIOUS
  <2>3. /\ output \o d \in Seq(Marks) /\ Len(output \o d) = Len(output) + Len(d)
        /\ \A i \in 1..(Len(output) + Len(d)) :
             (output \o d)[i] = IF i <= Len(output) THEN output[i] ELSE d[i - Len(output)]
    BY <1>6, <2>1, <2>2, Zenon
  <2>4. output' = output \o d /\ Len(d) = k
    BY <1>5, <2>2
  <2> QED
    BY <2>2, <2>3, <2>4, Zenon
<1>8. Len(output') <= Len(s)
  BY <1>2, <1>3, <1>7
<1>9. ASSUME NEW i \in 1..Len(output') PROVE output'[i] = s[i]
  <2>1. CASE i <= Len(output)
    <3>1. i \in 1..Len(output)
      BY <1>3, <2>1
    <3> QED
      BY <1>2, <1>7, <2>1, <3>1
  <2>2. CASE ~(i <= Len(output))
    <3>1. PICK m \in 1..k : m = i - Len(output)
      <4>1. i \in 1..(Len(output) + k) /\ k \in Nat
        BY <1>4, <1>7
      <4>2. i - Len(output) \in 1..k
        BY <1>3, <2>2, <4>1
      <4> QED
        BY <4>2
    <3>2. m \in 1..Len(screen) /\ Len(output) + m = i
      BY <1>3, <3>1
    <3>3. output'[i] = Chunk(k)[m]
      BY <1>7, <2>2, <3>1
    <3>4. Chunk(k)[m] = screen[m] /\ screen[m] = s[Len(output) + m]
      BY <1>2, <1>5, <3>2
    <3> QED
      BY <3>2, <3>3, <3>4
  <2> QED
    BY <2>1, <2>2
<1> QED
  BY <1>7, <1>8, <1>9 DEF s

\* A read that stops at the prompt of the command has read all its output, and
\* nothing more comes.
LEMMA LastRead ==
  ASSUME SessionInv, NEW c \in ToSet(Batch), output \o Coming = Script(c),
         NEW k \in 1..Len(screen), "prompt" \in Kinds(Chunk(k)),
         output' = output \o Chunk(k)
  PROVE  output' = Script(c) /\ showing = <<>>
<1>1. PICK j \in 1..k : screen[j].kind = "prompt"
  BY Completion
<1> DEFINE s == Script(c)
           n == 2 * Pages[c] + 1
<1>2. Len(s) = n /\ s \in Seq(Marks) /\ \A i \in 1..n : s[i].kind = "prompt" <=> i = n
  BY ScriptMarks
<1>3. output \o Coming = s
  OBVIOUS
<1>4. /\ output' \in Seq(Marks) /\ Len(output') = Len(output) + k
      /\ \A i \in 1..Len(output') : output'[i] = s[i]
  BY ReadPrefix
<1> HIDE DEF s, n
<1>5. /\ Len(s) = Len(output) + Len(Coming)
      /\ \A i \in 1..Len(screen) : screen[i] = s[Len(output) + i]
  BY <1>3, Places
<1>6. /\ Len(output) \in Nat /\ Len(screen) \in Nat /\ Len(Coming) \in Nat /\ Len(showing) \in Nat
      /\ Len(Coming) = Len(screen) + Len(showing) /\ showing \in Seq(Marks)
  BY Streams
<1>7. Len(output) + j = n
  <2>1. j \in 1..Len(screen) /\ Len(output) + j \in 1..n
    BY <1>2, <1>5, <1>6
  <2> QED
    BY <1>1, <1>2, <1>5, <2>1
<1>8. k = j /\ k = Len(screen) /\ Len(output) + k = Len(s) /\ Len(showing) = 0
  <2>1. Len(output) + j = Len(output) + Len(screen) + Len(showing)
    BY <1>2, <1>5, <1>6, <1>7
  <2>2. PICK a, b, d, e \in Nat : a = Len(output) /\ b = Len(screen) /\ d = Len(showing) /\ e = Len(Coming)
    BY <1>6
  <2>3. a + j = a + b + d /\ j \in 1..k /\ k \in 1..b /\ e = b + d
    BY <1>6, <2>1, <2>2
  <2>4. k = j /\ k = b /\ d = 0 /\ a + k = a + e
    BY ONLY <2>2, <2>3
  <2> QED
    BY <1>5, <2>2, <2>4
<1>9. output' = s
  BY <1>2, <1>4, <1>8, SeqEqual
<1>10. showing = <<>>
  BY <1>6, <1>8, EmptySeq
<1> QED
  BY <1>9, <1>10 DEF s

\* The results grow at their end only, so that a command left over stays so.
LEMMA Grown ==
  ASSUME SessionInv, NEW result, Finish(result)
  PROVE  /\ Len(results') = Len(results) + 1 /\ results'[Len(results) + 1] = result
         /\ \A i \in 1..Len(results) : results'[i] = results[i]
         /\ Len(results) = current - 1 /\ current \in Nat
<1>1. results' = Append(results, result) /\ Len(results) = current - 1 /\ current \in Nat
  BY DEF Finish, SessionInv, SessionTypeOK
<1>2. PICK S : results \in Seq(S)
  BY DEF SessionInv
<1> DEFINE T == S \cup {result}
<1>3. results \in Seq(T) /\ result \in T
  BY <1>2
<1> HIDE DEF T
<1> QED
  BY <1>1, <1>3, AppendProperties

\* A command that was left over stays so.
LEMMA LeftStays ==
  ASSUME SessionInv, Tool
  PROVE  /\ \A n \in 0..Len(results) : LeftOver(n) => LeftOver(n)'
         /\ LeftOver(Len(results)) => LeftOver(Len(results))'
         /\ results' = results \/ \E result : Finish(result)
<1>1. results' = results \/ \E result : Finish(result)
  BY DEF Tool, NextCommand, PromptSeen, NoPrompt, Echoed, NoEcho, ReadPage, ReadLast,
         ReadTimesOut, Classify, EndBatch, CommandFails
<1>2. Len(results) \in Nat
  BY DEF SessionInv, SessionTypeOK
<1>3. Len(results') \in Nat /\ Len(results) <= Len(results')
      /\ \A i \in 1..Len(results) : results'[i] = results[i]
  BY <1>1, <1>2, Grown
<1>4. \A n \in 0..Len(results) : LeftOver(n) => LeftOver(n)'
  BY <1>2, <1>3 DEF LeftOver
<1>5. LeftOver(Len(results)) => LeftOver(Len(results))'
  BY <1>2, <1>3 DEF LeftOver
<1> QED
  BY <1>1, <1>4, <1>5

\* What still comes after a step of the tool was coming before it.
LEMMA ComingWas ==
  ASSUME SessionInv, Tool
  PROVE  \A m \in 1..Len(Coming') : \E i \in 1..Len(Coming) : Coming'[m] = Coming[i]
<1>1. showing' = showing
  BY ToolDrops
<1>2. PICK k \in 0..Len(screen) : screen' = SubSeq(screen, k + 1, Len(screen))
  BY ToolDrops
<1>3. /\ Len(Coming') = Len(Coming) - k
      /\ \A m \in 1..Len(Coming') : Coming'[m] = Coming[m + k]
  BY <1>1, <1>2, Dropped
<1>4. Len(Coming) \in Nat /\ k \in Nat
  BY Streams
<1>5. \A m \in 1..Len(Coming') : m + k \in 1..Len(Coming)
  BY <1>3, <1>4
<1> QED
  BY <1>3, <1>5

\* What a command shows is its own, but for the pager and the prompt.
LEMMA AnswerOf ==
  ASSUME NEW key \in {Return, Space} \cup ToSet(Batch), NEW i \in 1..Len(AnswerTo(key))
  PROVE  /\ AnswerTo(key)[i].of \in {key, "device"}
         /\ AnswerTo(key)[i].kind = "data" => AnswerTo(key)[i].of = key
<1>1. CASE key = Return
  BY <1>1 DEF AnswerTo, Prompt, Mark
<1>2. CASE key = Space /\ key # Return
  BY <1>2 DEF AnswerTo
<1>3. CASE key # Space /\ key # Return
  <2>1. key \in ToSet(Batch) /\ AnswerTo(key) = Script(key)
    BY <1>3 DEF AnswerTo
  <2>2. /\ Script(key)[i] = Prompt \/ Script(key)[i] = Pager \/ Script(key)[i].of = key
        /\ Script(key)[i].kind = "data" => Script(key)[i].of = key
    BY <2>1, ScriptOf
  <2> QED
    BY <2>1, <2>2 DEF Prompt, Pager, Mark
<1> QED
  BY <1>1, <1>2, <1>3

\* What comes when the device reads its input was coming, or is its answer.
LEMMA ComingNew ==
  ASSUME SessionInv, ReadsInput, NEW m \in 1..Len(Coming')
  PROVE  \/ \E i \in 1..Len(Coming) : Coming'[m] = Coming[i]
         \/ /\ Coming'[m].of \in {typed[1], "device"}
            /\ Coming'[m].kind = "data" => Coming'[m].of = typed[1]
<1>1. CASE Coming' = Coming
  BY <1>1
<1>2. CASE Coming' # Coming
  <2> DEFINE a == AnswerTo(Head(typed))
  <2>1. /\ Coming = screen /\ Coming' = screen \o a /\ a \in Seq(Marks)
        /\ Head(typed) = typed[1] /\ Head(typed) \in {Return, Space} \cup ToSet(Batch)
    BY <1>2, InputRead
  <2>2. screen \in Seq(Marks) /\ Len(screen) \in Nat
    BY Streams
  <2>3. \A i \in 1..Len(a) :
          /\ a[i].of \in {typed[1], "device"}
          /\ a[i].kind = "data" => a[i].of = typed[1]
    BY <2>1, AnswerOf
  <2> HIDE DEF a
  <2>4. Len(a) \in Nat
    BY <2>1, LenProperties
  <2>5. /\ Len(Coming') = Len(screen) + Len(a)
        /\ \A i \in 1..(Len(screen) + Len(a)) :
             Coming'[i] = IF i <= Len(screen) THEN screen[i] ELSE a[i - Len(screen)]
    BY <2>1, <2>2, ConcatProperties
  <2>6. CASE m <= Len(screen)
    <3>1. m \in 1..Len(Coming) /\ Coming'[m] = Coming[m]
      BY <2>1, <2>2, <2>4, <2>5, <2>6
    <3> QED
      BY <3>1
  <2>7. CASE ~(m <= Len(screen))
    <3>1. PICK i \in 1..Len(a) : i = m - Len(screen)
      BY <2>2, <2>4, <2>5, <2>7
    <3>2. Coming'[m] = a[i]
      BY <2>5, <2>7, <3>1
    <3>3. a[i].of \in {typed[1], "device"} /\ (a[i].kind = "data" => a[i].of = typed[1])
      BY <2>3, <3>1
    <3>4. PICK x : x = a[i]
      OBVIOUS
    <3> QED
      BY <3>2, <3>3, <3>4
  <2> QED
    BY <2>6, <2>7
<1> QED
  BY <1>1, <1>2

\* A command is not the device.
LEMMA NotDevice == \A c \in ToSet(Batch) : c # "device" /\ c # Return /\ c # Space
BY SessionAssumption DEF Return, Space

\* The device shows nothing of a command before it is typed, and no more pages with
\* the common line than were asked for.
LEMMA DeviceKeepsUnseen ==
  ASSUME SessionInv, Device \/ Hangs, Own, Unseen, Strays
  PROVE  Unseen' /\ Strays'
<1>1. UNCHANGED <<at, current, expects, results>>
  BY DEF Device, ReadsInput, Shows, Hangs
<1>2. Command' = Command /\ (LeftOver(Len(results)) <=> LeftOver(Len(results))')
      /\ Hand' = Hand
  BY <1>1 DEF Command, LeftOver, Hand
<1>3. CASE Coming' = Coming /\ typed' = typed
  BY <1>1, <1>2, <1>3 DEF Unseen, Strays
<1>4. CASE ReadsInput
  <2> DEFINE c == typed[1]
  <2>1. /\ Len(typed) \in Nat \ {0} /\ Len(typed') = Len(typed) - 1
        /\ \A i \in 1..Len(typed') : typed'[i] = typed[i + 1]
    BY <1>4, InputRead
  <2>2. ASSUME NEW m \in 1..Len(Coming')
        PROVE  \/ \E i \in 1..Len(Coming) : Coming'[m] = Coming[i]
               \/ /\ Coming'[m].of \in {c, "device"}
                  /\ Coming'[m].kind = "data" => Coming'[m].of = c
    BY <1>4, ComingNew
  <2>3. 1 \in 1..Len(typed) /\ \A i \in 1..Len(typed') : i + 1 \in 1..Len(typed)
    BY <2>1
  <2>4. ASSUME NEW i \in 1..Len(Batch), i > current \/ (i = current /\ at \in {"next", "prompt"}),
               NEW m \in 1..Len(Coming')
        PROVE  Coming'[m].of # Batch[i]
    <3>1. c # Batch[i]
      BY <2>3, <2>4 DEF Own, Unasked, Lacks
    <3>2. Batch[i] # "device"
      BY BatchTyped, NotDevice
    <3>3. \A j \in 1..Len(Coming) : Coming[j].of # Batch[i]
      BY <2>4 DEF Unseen
    <3> HIDE DEF c
    <3> QED
      BY <2>2, <3>1, <3>2, <3>3
  <2>5. Unseen'
    BY <1>1, <1>2, <2>4 DEF Unseen
  <2>6. ASSUME ~LeftOver(Len(results)), NEW m \in 1..Len(Coming'),
               Coming'[m].kind = "data", Coming'[m].of \in Alike
        PROVE  Coming'[m].of \in Hand
    <3>1. c \in Alike => c \in Hand
      BY <2>3, <2>6 DEF Strays
    <3>2. \A j \in 1..Len(Coming) :
            Coming[j].kind = "data" /\ Coming[j].of \in Alike => Coming[j].of \in Hand
      BY <2>6 DEF Strays
    <3> HIDE DEF c
    <3> QED
      BY <2>2, <2>6, <3>1, <3>2
  <2>7. ASSUME ~LeftOver(Len(results)), NEW m \in 1..Len(typed'), typed'[m] \in Alike
        PROVE  typed'[m] \in Hand
    BY <2>1, <2>3, <2>7 DEF Strays
  <2>8. Strays'
    BY <1>1, <1>2, <2>6, <2>7 DEF Strays
  <2> QED
    BY <2>5, <2>8
<1>5. CASE Shows
  BY <1>3, <1>5, ShownWasComing
<1>6. CASE Hangs
  BY <1>3, <1>6 DEF Hangs, Coming
<1> QED
  BY <1>4, <1>5, <1>6 DEF Device

\* At its last page a command has its pages from the first on, and all of them unless
\* a line that a command left over is what the read looks for.
LEMMA LastPages ==
  ASSUME SessionInv, Unseen, Strays, ReadLast, at = "reading",
         Command \in ToSet(Batch), output \o Coming = Script(Command)
  PROVE  /\ PagesFor(Command, PagesIn(output'), LeftOver(Len(results)))
         /\ LeftOver(Len(results)) \/ showing = <<>>
<1>1. PICK k \in 1..Len(screen) :
        Completes(k) /\ "pager" \notin Kinds(Chunk(k)) /\ output' = output \o Chunk(k)
  BY DEF ReadLast
<1> DEFINE P == Pages[Command]
<1>2. P \in Nat \ {0} /\ Len(Script(Command)) = 2 * P + 1
  BY ScriptMarks
<1>3. expects.of # Command
  BY DEF Unseen
<1>4. CASE "prompt" \in Kinds(Chunk(k))
  <2>1. output' = Script(Command) /\ showing = <<>>
    BY <1>1, <1>4, LastRead
  <2>2. PagesIn(output') = [p \in 1..P |-> Mark("data", Command, p)]
    BY <2>1, ScriptPages DEF PagesOf
  <2>3. P \in 1..P /\ ~(P < P)
    BY <1>2
  <2> QED
    BY <2>1, <2>2, <2>3 DEF PagesFor
<1>5. CASE expects = Rule /\ Command \in Alike /\ Len(output) + k >= 2
  <2>1. LeftOver(Len(results))
    BY <1>5 DEF Strays
  <2>2. /\ output' \in Seq(Marks) /\ Len(output') = Len(output) + k
        /\ Len(output') <= Len(Script(Command))
        /\ \A i \in 1..Len(output') : output'[i] = Script(Command)[i]
    BY <1>1, ReadPrefix
  <2> DEFINE n == Len(output') \div 2
  <2>3. PagesIn(output') = [p \in 1..n |-> Mark("data", Command, p)]
    BY <2>2, PrefixPages
  <2>4. n \in 1..P
    <3> DEFINE l == Len(output')
    <3>1. l \in Nat /\ l >= 2 /\ l <= 2 * P + 1
      BY <1>2, <1>5, <2>2, LenProperties
    <3> HIDE DEF l, P
    <3>2. l \div 2 \in 1..P
      BY <1>2, <3>1
    <3> QED
      BY <3>2 DEF l
  <2> HIDE DEF n
  <2> QED
    BY <1>5, <2>1, <2>3, <2>4 DEF PagesFor
<1> QED
  BY <1>1, <1>3, <1>4, <1>5, ReadEnds

\* The tool reads each command's own output: what it takes for the output begins
\* with the command's echo and ends with the prompt behind its last page.
LEMMA ToolKeepsOwn ==
  ASSUME SessionInv, Clean, IsInjective(Batch), Own, Unseen, Strays, Tool
  PROVE  Own'
<1>1. current \in Nat /\ Len(Batch) \in Nat
  BY BatchTyped DEF SessionInv, SessionTypeOK
<1>2. at \in {"prompt", "echo", "reading", "classify"} =>
        current \in 1..Len(Batch) /\ Command \in ToSet(Batch)
  <2>1. at \in {"prompt", "echo", "reading", "classify"} => current \in 1..Len(Batch)
    BY BatchTyped DEF SessionInv, SessionTypeOK
  <2> QED
    BY <2>1, BatchTyped DEF Command
<1>3. CASE NextCommand
  <2>1. at = "next" /\ at' = "prompt" /\ current' = current /\ typed' = Append(typed, Return)
    BY <1>3 DEF NextCommand, AskPrompt
  <2>2. Unasked'
    BY <2>1, UnaskedKept DEF Own
  <2> QED
    BY <2>1, <2>2 DEF Own
<1>4. CASE PromptSeen
  <2>1. /\ at = "prompt" /\ at' = "echo" /\ current' = current
        /\ typed' = Append(typed, Command)
    BY <1>4 DEF PromptSeen
  <2>2. current \in 1..Len(Batch) /\ Command \in {Return, Space} \cup ToSet(Batch)
    BY <1>2, <2>1
  <2>3. ASSUME NEW i \in 1..Len(Batch), i > current'
        PROVE  Lacks(typed', Batch[i]) /\ Lacks(Coming', Echo(Batch[i]))
    <3>1. Lacks(typed, Batch[i]) /\ Lacks(Coming, Echo(Batch[i]))
      BY <2>1, <2>3 DEF Own, Unasked
    <3>2. Batch[i] # Command
      BY <1>1, <2>1, <2>2, <2>3, CommandsDiffer DEF Command
    <3>3. Lacks(typed', Batch[i])
      BY <2>1, <2>2, <3>1, <3>2, TypedLacks
    <3> QED
      BY <3>1, <3>3, ToolDrops
  <2>4. Unasked'
    BY <2>1, <2>3 DEF Unasked
  <2>5. ToCome(Command)'
    <3>1. Lacks(typed, Command) /\ Lacks(Coming, Echo(Command))
      BY <2>1, <2>2 DEF Own, Unasked, Command
    <3>2. Command' = Command
      BY <2>1 DEF Command
    <3>3. Lacks(Coming', Echo(Command))
      BY <3>1, ToolDrops
    <3>4. typed' # <<>> /\ Len(typed') = Len(typed) + 1 /\ typed'[Len(typed')] = Command
          /\ \A i \in 1..Len(typed) : typed'[i] = typed[i]
      BY <2>1, <2>2, TypedLacks
    <3>5. Len(typed') - 1 = Len(typed)
      BY <3>4, Streams
    <3>6. \A i \in 1..(Len(typed') - 1) : typed'[i] # Command
      BY <3>1, <3>4, <3>5 DEF Lacks
    <3> QED
      BY <3>2, <3>3, <3>4, <3>6 DEF ToCome
  <2> QED
    BY <2>1, <2>4, <2>5 DEF Own
<1>5. CASE NoPrompt \/ NoEcho \/ ReadTimesOut
  <2> DEFINE result == [command |-> Command, status |-> "error", pages |-> <<>>]
  <2>1. Finish(result) /\ typed' = typed
    BY <1>5 DEF NoPrompt, NoEcho, ReadTimesOut, CommandFails, device
  <2> HIDE DEF result
  <2> QED
    BY <2>1, FinishKeepsOwn
<1>6. CASE Echoed
  <2>1. /\ at = "echo" /\ at' = "reading" /\ typed' = typed /\ current' = current
        /\ output' = output /\ showing' = showing
    BY <1>6 DEF Echoed, device
  <2>2. PICK k \in 1..Len(screen) :
          screen[k] = Echo(Command) /\ screen' = SubSeq(screen, k, Len(screen))
    BY <1>6 DEF Echoed, Echo
  <2>3. Unasked'
    BY <2>1, UnaskedKept DEF Own
  <2>4. k \in 1..Len(Coming) /\ Coming[k] = Echo(Command)
    BY <2>2, Streams
  <2>5. Come(Command)
    BY <2>1, <2>4 DEF Own, ToCome, Lacks
  <2> DEFINE s == Script(Command)
             P == 2 * Pages[Command] + 1
  <2>6. Len(s) = P /\ s \in Seq(Marks) /\ \A i \in 2..P : s[i] # Echo(Command)
    BY <1>2, <2>1, ScriptMarks
  <2>7. PICK n \in Nat :
          /\ \A i \in 1..n : Coming[i] # Echo(Command)
          /\ Len(Coming) = n + Len(s)
          /\ \A i \in 1..Len(s) : Coming[n + i] = s[i]
    BY <2>5 DEF Come
  <2> HIDE DEF s, P
  <2>8. Len(s) \in Nat /\ k \in Nat /\ Len(screen) \in Nat
    BY <2>6, LenProperties, Streams
  <2>9. k = n + 1
    <3>1. k > n
      BY <2>4, <2>7, <2>8
    <3>2. k - n \in 1..Len(s)
      BY <2>4, <2>7, <2>8, <3>1
    <3>3. PICK m \in 1..Len(s) : m = k - n
      BY <3>2
    <3>4. n + m = k
      BY <2>8, <3>3
    <3>5. s[m] = Echo(Command)
      BY <2>4, <2>7, <3>4
    <3>6. m = 1
      BY <2>6, <2>8, <3>5
    <3> QED
      BY <2>8, <3>4, <3>6
  <2>10. n \in 0..Len(screen) /\ screen' = SubSeq(screen, n + 1, Len(screen))
    BY <2>2, <2>8, <2>9
  <2>11. /\ Coming' \in Seq(Marks) /\ Len(Coming') = Len(Coming) - n
         /\ \A i \in 1..Len(Coming') : Coming'[i] = Coming[i + n]
    BY <2>1, <2>10, Dropped
  <2>12. Coming' = s
    <3>1. Len(Coming') = Len(s)
      BY <2>7, <2>8, <2>11
    <3>2. ASSUME NEW i \in 1..Len(s) PROVE Coming'[i] = s[i]
      <4>1. i + n = n + i
        BY <2>8
      <4> QED
        BY <2>7, <2>11, <3>1, <4>1
    <3> QED
      BY <2>6, <2>11, <3>1, <3>2, SeqEqual
  <2>13. output' \o Coming' = s
    BY <2>1, <2>6, <2>12, ConcatEmptySeq DEF Clean
  <2>14. typed' = <<>>
    BY <2>1, <2>5 DEF Come
  <2>15. \A i \in 1..Len(typed') : typed'[i] = Space
    BY <2>14
  <2> QED
    BY <2>1, <2>3, <2>13, <2>15 DEF Own, Command, s
<1>7. CASE ReadPage
  <2>1. PICK k \in 1..Len(screen) :
          /\ IF paged < MAX_PAGES
               THEN /\ output' = output \o Chunk(k)
                    /\ paged' = paged + 1
                    /\ typed' = Append(typed, Space)
                    /\ UNCHANGED <<at, current, results>>
               ELSE CommandFails /\ UNCHANGED typed
          /\ screen' = SubSeq(screen, k + 1, Len(screen))
    BY <1>7 DEF ReadPage
  <2>2. at = "reading" /\ showing' = showing
    BY <1>7 DEF ReadPage
  <2>3. CASE paged < MAX_PAGES
    <3>1. /\ output' = output \o SubSeq(screen, 1, k) /\ typed' = Append(typed, Space)
          /\ UNCHANGED <<at, current>>
      BY <2>1, <2>3 DEF Chunk
    <3>2. k \in 0..Len(screen)
      BY Streams
    <3>3. output' \o Coming' = Script(Command)
      BY <2>1, <2>2, <3>1, <3>2, ReadOn DEF Own
    <3>4. \A i \in 1..Len(typed') : typed'[i] = Space
      <4>1. /\ Len(typed') = Len(typed) + 1 /\ typed'[Len(typed')] = Space
            /\ \A i \in 1..Len(typed) : typed'[i] = typed[i]
        BY <3>1, TypedLacks
      <4>2. \A i \in 1..(Len(typed) + 1) : i = Len(typed) + 1 \/ i \in 1..Len(typed)
        BY Streams
      <4> QED
        BY <2>2, <4>1, <4>2 DEF Own
    <3>5. Unasked'
      BY <3>1, UnaskedKept DEF Own
    <3> QED
      BY <2>2, <3>1, <3>3, <3>4, <3>5 DEF Own, Command
  <2>4. CASE ~(paged < MAX_PAGES)
    <3> DEFINE result == [command |-> Command, status |-> "error", pages |-> <<>>]
    <3>1. Finish(result) /\ typed' = typed
      BY <2>1, <2>4 DEF CommandFails
    <3> HIDE DEF result
    <3> QED
      BY <3>1, FinishKeepsOwn
  <2> QED
    BY <2>3, <2>4
<1>8. CASE ReadLast
  <2>1. /\ at = "reading" /\ at' = "classify" /\ current' = current
        /\ typed' = Append(typed, Return)
    BY <1>8 DEF ReadLast, AskPrompt
  <2>2. PICK k \in 1..Len(screen) :
          Completes(k) /\ "pager" \notin Kinds(Chunk(k)) /\ output' = output \o Chunk(k)
    BY <1>8 DEF ReadLast
  <2>3. output \o Coming = Script(Command) /\ Command \in ToSet(Batch)
    BY <1>2, <2>1 DEF Own
  <2>4. results' = results /\ Command' = Command
    BY <1>8, <2>1 DEF ReadLast, Command
  <2>5. PagesFor(Command, PagesIn(output'), LeftOver(Len(results)))
    BY <1>8, <2>1, <2>3, LastPages
  <2>6. PagesFor(Command, PagesIn(output), LeftOver(Len(results)))'
    BY <2>4, <2>5 DEF PagesFor, PagesIn, LeftOver
  <2>7. Unasked'
    BY <2>1, UnaskedKept DEF Own
  <2> QED
    BY <2>1, <2>6, <2>7 DEF Own
<1>9. CASE Classify
  <2> DEFINE result == [command |-> Command, status |-> StatusOf(PagesIn(output)),
                        pages |-> PagesIn(output)]
  <2>1. Finish(result) /\ typed' = typed
    BY <1>9 DEF Classify, device
  <2> HIDE DEF result
  <2> QED
    BY <2>1, FinishKeepsOwn
<1>10. CASE EndBatch
  <2>1. at' = "ended" /\ current' = current /\ current > Len(Batch)
    BY <1>10 DEF EndBatch
  <2>2. \A i \in 1..Len(Batch) : ~(i > current)
    BY <1>1, <2>1
  <2> QED
    BY <2>1, <2>2 DEF Own, Unasked
<1> QED
  BY <1>3, <1>4, <1>5, <1>6, <1>7, <1>8, <1>9, <1>10 DEF Tool

\* So each result that is not an error has the pages of its command.
LEMMA WholeKept ==
  ASSUME SessionInv, Own, Whole, Tool
  PROVE  Whole'
<1>1. Len(results) \in Nat
  BY DEF SessionInv, SessionTypeOK
<1>2. ASSUME NEW i \in 1..Len(results), results'[i] = results[i], results'[i].status = "ok"
      PROVE  PagesFor(Batch[i], results'[i].pages, LeftOver(i - 1)')
  <2>1. LeftOver(i - 1) => LeftOver(i - 1)'
    BY <1>1, LeftStays
  <2>2. PagesFor(Batch[i], results[i].pages, LeftOver(i - 1))
    BY <1>2 DEF Whole
  <2> QED
    BY <1>2, <2>1, <2>2 DEF PagesFor
<1>3. CASE results' = results
  BY <1>2, <1>3 DEF Whole, PagesFor
<1>4. ASSUME NEW result, Finish(result), current <= Len(Batch),
             result.status = "ok" => PagesFor(Command, result.pages, LeftOver(Len(results)))
      PROVE  Whole'
  <2>1. /\ Len(results') = Len(results) + 1 /\ results'[Len(results) + 1] = result
        /\ \A i \in 1..Len(results) : results'[i] = results[i]
        /\ Len(results) = current - 1 /\ current \in Nat
    BY <1>4, Grown
  <2>2. LeftOver(Len(results)) => LeftOver(Len(results))'
    BY LeftStays
  <2>3. ASSUME NEW i \in 1..Len(results'), results'[i].status = "ok"
        PROVE  PagesFor(Batch[i], results'[i].pages, LeftOver(i - 1)')
    <3>1. CASE i \in 1..Len(results)
      BY <1>2, <2>1, <2>3, <3>1
    <3>2. CASE i \notin 1..Len(results)
      <4>1. i = current /\ i = Len(results) + 1 /\ i - 1 = Len(results)
        BY <1>1, <2>1, <3>2
      <4>2. results'[i] = result /\ Command = Batch[i]
        BY <2>1, <4>1 DEF Command
      <4>3. LeftOver(Len(results)) => LeftOver(i - 1)'
        <5>1. \A n \in 0..Len(results) : LeftOver(n) => LeftOver(n)'
          BY LeftStays
        <5>2. i - 1 \in 0..Len(results)
          BY <1>1, <4>1
        <5> QED
          BY <4>1, <5>1, <5>2
      <4> QED
        BY <1>4, <2>3, <4>2, <4>3 DEF PagesFor
    <3> QED
      BY <3>1, <3>2
  <2> QED
    BY <2>3 DEF Whole, PagesFor
<1>5. CASE NoPrompt \/ NoEcho \/ ReadTimesOut \/ (ReadPage /\ results' # results)
  <2> DEFINE result == [command |-> Command, status |-> "error", pages |-> <<>>]
  <2>1. Finish(result) /\ result.status # "ok" /\ current <= Len(Batch)
    BY <1>5 DEF NoPrompt, NoEcho, ReadTimesOut, ReadPage, CommandFails, SessionInv
  <2> HIDE DEF result
  <2> QED
    BY <1>4, <2>1
<1>6. CASE Classify
  <2> DEFINE result == [command |-> Command, status |-> StatusOf(PagesIn(output)),
                        pages |-> PagesIn(output)]
  <2>1. Finish(result) /\ at = "classify"
    BY <1>6 DEF Classify
  <2>2. current <= Len(Batch)
    BY <2>1 DEF SessionInv
  <2>3. PagesFor(Command, result.pages, LeftOver(Len(results)))
    BY <2>1 DEF Own
  <2> HIDE DEF result
  <2> QED
    BY <1>4, <2>1, <2>2, <2>3
<1> QED
  BY <1>3, <1>5, <1>6
  DEF Tool, NextCommand, PromptSeen, Echoed, ReadPage, ReadLast, EndBatch

\* The tool takes nothing of the command at hand for the prompt, because nothing of
\* it comes before it is typed.
LEMMA ToolKeepsUnseen ==
  ASSUME SessionInv, IsInjective(Batch), Unseen, Tool
  PROVE  Unseen'
<1>1. current \in Nat /\ Len(Batch) \in Nat
  BY BatchTyped DEF SessionInv, SessionTypeOK
<1>2. /\ \A i \in 1..Len(Batch) :
           i > current' \/ (i = current' /\ at' \in {"next", "prompt"}) =>
             i > current \/ (i = current /\ at \in {"next", "prompt"})
      /\ at' \in {"echo", "reading"} =>
           \/ PromptSeen
           \/ at \in {"echo", "reading"} /\ UNCHANGED <<current, expects>>
  BY <1>1 DEF Tool, NextCommand, PromptSeen, NoPrompt, Echoed, NoEcho, ReadPage, ReadLast,
              ReadTimesOut, Classify, EndBatch, CommandFails, Finish
<1>3. ASSUME NEW i \in 1..Len(Batch),
             i > current' \/ (i = current' /\ at' \in {"next", "prompt"}),
             NEW m \in 1..Len(Coming')
      PROVE  Coming'[m].of # Batch[i]
  BY <1>2, <1>3, ComingWas DEF Unseen
<1>4. CASE PromptSeen
  <2>1. /\ at = "prompt" /\ screen # <<>> /\ expects' \in Lines(Last(screen))
        /\ current' = current
    BY <1>4 DEF PromptSeen
  <2>2. current \in 1..Len(Batch) /\ Command' = Command /\ Command = Batch[current]
        /\ Command \in ToSet(Batch)
    BY <2>1, BatchTyped DEF SessionInv, SessionTypeOK, Command
  <2>3. Last(screen).of # Command
    <3>1. screen \in Seq(Marks) /\ Len(screen) \in Nat \ {0}
      BY <2>1, Streams, EmptySeq
    <3>2. PICK j \in 1..Len(screen) : j = Len(screen)
      BY <3>1
    <3>3. j \in 1..Len(Coming) /\ Last(screen) = Coming[j]
      BY <3>1, <3>2, Streams DEF Last
    <3> QED
      BY <2>1, <2>2, <3>3 DEF Unseen
  <2>4. Rule.of # Command
    BY <2>2, NotDevice DEF Rule, Mark
  <2> QED
    BY <1>3, <2>1, <2>2, <2>3, <2>4 DEF Unseen, Lines
<1>5. CASE ~PromptSeen
  <2>1. at' \in {"echo", "reading"} => expects'.of # Command'
    BY <1>2, <1>5 DEF Unseen, Command
  <2> QED
    BY <1>3, <2>1 DEF Unseen
<1> QED
  BY <1>4, <1>5

\* Unless a command fails, what comes with the common line is of the command at hand,
\* and it is read before the next is typed.
LEMMA ToolKeepsStrays ==
  ASSUME SessionInv, IsInjective(Batch), Own, Unseen, Strays, Tool
  PROVE  Strays'
<1> SUFFICES ASSUME ~LeftOver(Len(results))'
             PROVE  /\ \A m \in 1..Len(Coming') :
                         Coming'[m].kind = "data" /\ Coming'[m].of \in Alike => Coming'[m].of \in Hand'
                    /\ \A m \in 1..Len(typed') : typed'[m] \in Alike => typed'[m] \in Hand'
                    /\ at' \in {"echo", "reading"} => expects' # Rule
  BY DEF Strays
<1>1. ~LeftOver(Len(results))
  BY LeftStays
<1>2. /\ \A m \in 1..Len(Coming) :
           Coming[m].kind = "data" /\ Coming[m].of \in Alike => Coming[m].of \in Hand
      /\ \A m \in 1..Len(typed) : typed[m] \in Alike => typed[m] \in Hand
      /\ at \in {"echo", "reading"} => expects # Rule
  BY <1>1 DEF Strays
<1>3. /\ Return \notin Alike /\ Space \notin Alike
  BY NotDevice, SessionAssumption
<1>4. Len(typed) \in Nat
  BY Streams
<1>5. ASSUME NEW key \in {Return, Space} \cup ToSet(Batch), typed' = Append(typed, key),
             NEW m \in 1..Len(typed')
      PROVE  typed'[m] = key \/ (m \in 1..Len(typed) /\ typed'[m] = typed[m])
  <2>1. /\ Len(typed') = Len(typed) + 1 /\ typed'[Len(typed')] = key
        /\ \A i \in 1..Len(typed) : typed'[i] = typed[i]
    BY <1>5, TypedLacks
  <2>2. m = Len(typed') \/ m \in 1..Len(typed)
    BY <1>4, <2>1
  <2> QED
    BY <2>1, <2>2
<1>6. \A m \in 1..Len(Coming') : \E i \in 1..Len(Coming) : Coming'[m] = Coming[i]
  BY ComingWas
\* Steps that stay with the command, or have none
<1>7. CASE NextCommand \/ EndBatch
  <2>1. at = "next" /\ at' \in {"prompt", "ended"}
        /\ (typed' = typed \/ typed' = Append(typed, Return))
    BY <1>7 DEF NextCommand, EndBatch, AskPrompt, device
  <2>2. Hand = {}
    BY <2>1 DEF Hand
  <2> QED
    BY <1>2, <1>3, <1>5, <1>6, <2>1, <2>2
<1>8. CASE PromptSeen
  <2>1. /\ at = "prompt" /\ at' = "echo" /\ screen # <<>> /\ expects' \in Lines(Last(screen))
        /\ current' = current /\ typed' = Append(typed, Command)
    BY <1>8 DEF PromptSeen
  <2>2. Hand = {}
    BY <2>1 DEF Hand
  <2>3. Command \in Hand' /\ Command \in ToSet(Batch)
    BY <2>1, BatchTyped DEF Hand, Command, SessionInv, SessionTypeOK
  <2>4. expects' # Rule
    <3>1. screen \in Seq(Marks) /\ Len(screen) \in Nat \ {0}
      BY <2>1, Streams, EmptySeq
    <3>2. PICK j \in 1..Len(screen) : j = Len(screen)
      BY <3>1
    <3>3. j \in 1..Len(Coming) /\ Last(screen) = Coming[j] /\ Last(screen) \in Marks
      BY <3>1, <3>2, Streams, ElementOfSeq DEF Last
    <3>4. ~(Last(screen).kind = "data" /\ Last(screen).of \in Alike)
      BY <1>2, <2>2, <3>3
    <3>5. expects' = Last(screen)
      BY <2>1, <3>4 DEF Lines
    <3> QED
      BY <3>3, <3>5 DEF Marks, Rule, Mark
  <2>5. \A m \in 1..Len(typed') : typed'[m] \in Alike => typed'[m] \in Hand'
    BY <1>2, <1>5, <2>1, <2>2, <2>3
  <2> QED
    BY <1>2, <1>6, <2>2, <2>4, <2>5
<1>9. CASE Echoed \/ (ReadPage /\ results' = results)
  <2>1. /\ at \in {"echo", "reading"} /\ at' = "reading" /\ UNCHANGED <<current, expects>>
        /\ (typed' = typed \/ typed' = Append(typed, Space))
    <3>1. CASE Echoed
      BY <3>1 DEF Echoed, device
    <3>2. CASE ReadPage /\ results' = results
      <4>1. ~ CommandFails
        BY <3>2, Grown DEF CommandFails, SessionInv, SessionTypeOK
      <4> QED
        BY <3>2, <4>1 DEF ReadPage
    <3> QED
      BY <1>9, <3>1, <3>2
  <2>2. Hand' = Hand
    BY <2>1 DEF Hand, Command
  <2>3. \A m \in 1..Len(typed') : typed'[m] \in Alike => typed'[m] \in Hand'
    <3>1. CASE typed' = typed
      BY <1>2, <2>2, <3>1
    <3>2. CASE typed' = Append(typed, Space)
      BY <1>2, <1>3, <1>5, <2>2, <3>2
    <3> QED
      BY <2>1, <3>1, <3>2
  <2>4. \A m \in 1..Len(Coming') :
          Coming'[m].kind = "data" /\ Coming'[m].of \in Alike => Coming'[m].of \in Hand'
    BY <1>2, <1>6, <2>2
  <2> QED
    BY <1>2, <2>1, <2>3, <2>4
<1>10. CASE ReadLast
  <2>1. /\ at = "reading" /\ at' = "classify" /\ screen' = <<>> /\ showing' = showing
        /\ typed' = Append(typed, Return)
    BY <1>10 DEF ReadLast, AskPrompt
  <2>2. /\ output \o Coming = Script(Command) /\ \A i \in 1..Len(typed) : typed[i] = Space
        /\ Command \in ToSet(Batch)
    BY <2>1, BatchTyped DEF Own, Command, SessionInv, SessionTypeOK
  <2>3. showing = <<>>
    BY <1>1, <1>10, <2>1, <2>2, LastPages
  <2>4. Len(Coming') = 0
    BY <2>1, <2>3 DEF Coming
  <2>5. \A m \in 1..Len(typed') : typed'[m] \notin Alike
    BY <1>3, <1>5, <2>1, <2>2
  <2> QED
    BY <2>1, <2>4, <2>5
\* A command that fails leaves nothing with the common line behind, or is left over
<1>11. CASE NoPrompt \/ NoEcho \/ ReadTimesOut \/ (ReadPage /\ results' # results)
  <2> DEFINE result == [command |-> Command, status |-> "error", pages |-> <<>>]
  <2>1. Finish(result) /\ typed' = typed /\ current <= Len(Batch)
    BY <1>11 DEF NoPrompt, NoEcho, ReadTimesOut, ReadPage, CommandFails, SessionInv, device
  <2>2. result.status = "error" /\ result.pages = <<>>
    OBVIOUS
  <2> HIDE DEF result
  <2>3. /\ Len(results') = Len(results) + 1 /\ results'[Len(results) + 1] = result
        /\ Len(results) = current - 1 /\ current \in Nat
    BY <2>1, Grown
  <2>4. Batch[current] \notin Alike
    <3>1. current \in 1..Len(results') /\ results'[current] = result
      BY <2>3, BatchTyped DEF SessionInv, SessionTypeOK
    <3> QED
      BY <2>2, <3>1 DEF LeftOver
  <2>5. \A c \in Alike : c \notin Hand
    BY <2>4 DEF Hand, Command
  <2>6. at' = "next"
    BY <2>1 DEF Finish
  <2> QED
    BY <1>2, <1>6, <2>1, <2>5, <2>6
<1>12. CASE Classify
  <2>1. at = "classify" /\ at' = "next" /\ typed' = typed
    BY <1>12 DEF Classify, Finish, device
  <2>2. Hand = {}
    BY <2>1 DEF Hand
  <2> QED
    BY <1>2, <1>6, <2>1, <2>2
<1> QED
  BY <1>7, <1>8, <1>9, <1>10, <1>11, <1>12 DEF Tool

-----------------------------------------------------------------------------
(* A command fails by itself *)

\* Nothing has happened that lets a command fail by another's doing: the device
\* responds, no read is cut short, and no command before it was left at its pager.
Good ==
  /\ ~slow /\ alive
  /\ \A j \in 1..(current - 1) : Pages[Batch[j]] <= MAX_PAGES + 1

\* Between commands nothing is typed or to be read; once a Return is typed, the
\* prompt is all that comes of it.
Idle == ~paused /\ typed = <<>> /\ Coming = <<>>
Asked ==
  /\ ~paused
  /\ \/ typed = <<Return>> /\ Coming = <<>>
     \/ typed = <<>> /\ Coming = <<Prompt>>

\* How much of the output has been shown: up to the pager or the prompt that the
\* next read stops at, and the device waits exactly when that is the pager.
Place == Len(output) + Len(screen)
LastPlace(c) == 2 * Pages[c] + 1
InPage ==
  /\ output \o Coming = Script(Command)
  /\ Len(output) = IF paged = 0 THEN 0 ELSE 2 * paged + 1
  /\ Len(output) < LastPlace(Command)
  /\ Place <= 2 * paged + 3
  /\ \/ typed = <<>> /\ (paused <=> Place = 2 * paged + 3 /\ Place < LastPlace(Command))
     \/ typed = <<Space>> /\ paused /\ screen = <<>>

\* The tool and the device are in step.
InStep ==
  /\ at \in {"next", "ended"} => Idle
  /\ at = "prompt" => Asked
  /\ at = "echo" => expects = Prompt /\ ((typed = <<Command>> /\ ~paused /\ Coming = <<>>) \/ InPage)
  /\ at = "reading" => expects = Prompt /\ InPage
  /\ at = "classify" => Asked /\ output = Script(Command)

\* The reasons for a result that is an error, as the batch has them.
Reasons ==
  \A i \in 1..Len(results) :
    \/ results[i].status = "ok" \/ slow \/ ~alive
    \/ Batch[i] \in Rejected
    \/ \E j \in 1..i : Pages[Batch[j]] > MAX_PAGES + 1

\* The marks of the output that has come, by their places in it.
LEMMA PageMarks ==
  ASSUME SessionInv, NEW c \in ToSet(Batch), output \o Coming = Script(c)
  PROVE  /\ LastPlace(c) \in Nat /\ LastPlace(c) >= 3 /\ LastPlace(c) = 2 * Pages[c] + 1 /\ Pages[c] \in Nat
         /\ Len(output) + Len(Coming) = LastPlace(c)
         /\ Len(Coming) = Len(screen) + Len(showing) /\ Len(output) \in Nat
         /\ Len(screen) \in Nat /\ Len(showing) \in Nat /\ Len(Coming) \in Nat
         /\ \A i \in 1..Len(Coming) :
              /\ Len(output) + i = 1 => Coming[i] = Echo(c)
              /\ Coming[i].kind = "prompt" <=> Len(output) + i = LastPlace(c)
              /\ Coming[i].kind = "pager" =>
                   Len(output) + i < LastPlace(c) /\ \E q \in Nat : Len(output) + i = 2 * q + 3
              /\ Coming[i] = Pager <=> Coming[i].kind = "pager"
              /\ \A q \in Nat : Len(output) + i = 2 * q + 3 /\ Len(output) + i < LastPlace(c) => Coming[i] = Pager
         /\ \A i \in 1..Len(screen) : screen[i] = Coming[i]
<1> DEFINE s == Script(c)
           n == LastPlace(c)
<1>1. Pages[c] \in Nat \ {0} /\ n = 2 * Pages[c] + 1
  BY ScriptMarks DEF LastPlace
<1>2. n \in Nat /\ n >= 3
  BY <1>1
<1>3. /\ Len(s) = n /\ s[1] = Echo(c)
      /\ \A k \in 1..n :
           /\ s[k].kind = "prompt" <=> k = n
           /\ s[k].kind = "pager" => k < n /\ \E q \in Nat : k = 2 * q + 3
           /\ s[k] = Pager <=> s[k].kind = "pager"
      /\ \A q \in Nat : 2 * q + 3 < n => s[2 * q + 3] = Pager
  BY ScriptMarks DEF LastPlace
<1>4. output \o Coming = s
  OBVIOUS
<1> HIDE DEF s, n
<1>5. /\ Len(s) = Len(output) + Len(Coming)
      /\ \A i \in 1..Len(Coming) : Coming[i] = s[Len(output) + i]
  BY <1>4, Places
<1>6. /\ Len(output) \in Nat /\ Len(screen) \in Nat /\ Len(Coming) \in Nat /\ Len(showing) \in Nat
      /\ Len(Coming) = Len(screen) + Len(showing)
      /\ \A i \in 1..Len(screen) : Coming[i] = screen[i]
  BY Streams
<1>7. ASSUME NEW i \in 1..Len(Coming)
      PROVE  /\ Len(output) + i = 1 => Coming[i] = Echo(c)
             /\ Coming[i].kind = "prompt" <=> Len(output) + i = n
             /\ Coming[i].kind = "pager" =>
                  Len(output) + i < n /\ \E q \in Nat : Len(output) + i = 2 * q + 3
             /\ Coming[i] = Pager <=> Coming[i].kind = "pager"
             /\ \A q \in Nat : Len(output) + i = 2 * q + 3 /\ Len(output) + i < n => Coming[i] = Pager
  <2>1. PICK k \in 1..n : k = Len(output) + i
    BY <1>3, <1>5, <1>6
  <2>2. Coming[i] = s[k]
    BY <1>5, <2>1
  <2> QED
    BY <1>3, <2>1, <2>2
<1> QED
  BY <1>1, <1>2, <1>3, <1>5, <1>6, <1>7 DEF n

\* What is known of the sizes while a command's output is read.
LEMMA PagedTyped ==
  ASSUME SessionInv
  PROVE  paged \in Nat /\ MAX_PAGES \in Nat /\ paged <= MAX_PAGES
BY SessionAssumption DEF SessionInv, SessionTypeOK

\* The device shows the next mark of the output, and stops at the pager.
LEMMA ShowsPage ==
  ASSUME SessionInv, Shows, NEW c \in ToSet(Batch), c = Command, InPage
  PROVE  InPage'
<1>1. /\ Coming' = Coming /\ typed' = typed /\ Len(screen') = Len(screen) + 1
      /\ Head(showing) = Coming[Len(screen) + 1] /\ Len(screen) < Len(Coming)
  BY ShownWasComing
<1>2. UNCHANGED <<output, paged, current>> /\ ~paused /\ paused' = (Head(showing) = Pager)
  BY DEF Shows
<1>3. Command' = c
  BY <1>2 DEF Command
<1>4. output \o Coming = Script(c)
  BY DEF InPage
<1> DEFINE n == LastPlace(c)
           i == Len(screen) + 1
<1>5. /\ n \in Nat /\ Len(output) + Len(Coming) = n /\ Len(output) \in Nat
      /\ Len(screen) \in Nat /\ Len(Coming) \in Nat
      /\ \A j \in 1..Len(Coming) :
           /\ Coming[j].kind = "pager" =>
                Len(output) + j < n /\ \E q \in Nat : Len(output) + j = 2 * q + 3
           /\ Coming[j] = Pager <=> Coming[j].kind = "pager"
           /\ \A q \in Nat : Len(output) + j = 2 * q + 3 /\ Len(output) + j < n => Coming[j] = Pager
  BY <1>4, PageMarks
<1>6. i \in 1..Len(Coming) /\ Place' = Len(output) + i /\ Place = Len(output) + Len(screen)
  BY <1>1, <1>2, <1>5 DEF Place
<1>7. paged \in Nat
  BY PagedTyped
<1>8. /\ Len(output) = IF paged = 0 THEN 0 ELSE 2 * paged + 1
      /\ Len(output) < n /\ Place <= 2 * paged + 3
      /\ typed = <<>> /\ (paused <=> Place = 2 * paged + 3 /\ Place < n)
  BY <1>2 DEF InPage
<1> HIDE DEF n
<1>9. Place < n /\ Place # 2 * paged + 3 /\ Place' = Place + 1
  BY <1>1, <1>2, <1>5, <1>6, <1>8
<1> HIDE DEF i
<1>10. paused' <=> Place' = 2 * paged + 3 /\ Place' < n
  <2>1. Place \in Nat /\ i \in Nat
    BY <1>5, <1>6
  <2>2. Place' <= 2 * paged + 3
    BY <1>7, <1>8, <1>9, <2>1
  <2>3. paused' <=> Coming[i].kind = "pager"
    BY <1>1, <1>2, <1>5, <1>6 DEF i
  <2>4. ASSUME NEW q \in Nat, Place' = 2 * q + 3 PROVE q = paged
    <3>1. Place' > Len(output)
      BY <1>5, <1>6, <2>1
    <3>2. CASE paged = 0
      BY <2>2, <2>4, <3>2
    <3>3. CASE paged # 0
      <4>1. 2 * q + 3 > 2 * paged + 1 /\ 2 * q + 3 <= 2 * paged + 3
        BY <1>8, <2>2, <2>4, <3>1, <3>3
      <4> QED
        BY <1>7, <4>1
    <3> QED
      BY <3>2, <3>3
  <2>5. ASSUME Coming[i].kind = "pager" PROVE Place' = 2 * paged + 3 /\ Place' < n
    BY <1>5, <1>6, <2>4, <2>5
  <2>6. ASSUME Place' = 2 * paged + 3, Place' < n PROVE Coming[i].kind = "pager"
    BY <1>5, <1>6, <1>7, <2>6
  <2> QED
    BY <2>3, <2>5, <2>6
<1>11. Place' <= 2 * paged + 3
  BY <1>5, <1>6, <1>7, <1>8, <1>9
<1>12. output' \o Coming' = Script(c) /\ Len(output') = Len(output)
  BY <1>1, <1>2, <1>4
<1> QED
  BY <1>1, <1>2, <1>3, <1>8, <1>10, <1>11, <1>12 DEF InPage, n, LastPlace

\* The command at hand is one of the batch.
LEMMA AtHand ==
  ASSUME SessionInv, at \in {"prompt", "echo", "reading", "classify"}
  PROVE  current \in 1..Len(Batch) /\ current <= Len(Batch) /\ Command \in ToSet(Batch)
         /\ Command # Return /\ Command # Space
<1>1. current \in 1..Len(Batch) /\ current <= Len(Batch)
  BY BatchTyped DEF SessionInv, SessionTypeOK
<1> QED
  BY <1>1, BatchTyped, CommandsDiffer DEF Command

\* Nothing comes when nothing is on the screen and nothing is to be shown.
LEMMA NothingComes ==
  ASSUME SessionInv
  PROVE  /\ Coming = <<>> => screen = <<>> /\ showing = <<>>
         /\ screen = <<>> /\ showing = <<>> => Coming = <<>>
         /\ screen = <<>> => Coming = showing
         /\ Coming = <<Prompt>> /\ screen # <<>> => screen = <<Prompt>> /\ showing = <<>>
<1>1. screen \in Seq(Marks) /\ showing \in Seq(Marks) /\ Coming = screen \o showing
      /\ Len(Coming) = Len(screen) + Len(showing)
      /\ Len(screen) \in Nat /\ Len(showing) \in Nat
      /\ \A i \in 1..Len(screen) : Coming[i] = screen[i]
  BY Streams DEF Coming
<1>2. Coming = <<>> => screen = <<>> /\ showing = <<>>
  <2>1. Coming = <<>> => Len(screen) = 0 /\ Len(showing) = 0
    BY <1>1
  <2> QED
    BY <1>1, <2>1, EmptySeq
<1>3. <<>> \o showing = showing
  BY <1>1, ConcatEmptySeq
<1>4. ASSUME Coming = <<Prompt>>, screen # <<>> PROVE screen = <<Prompt>> /\ showing = <<>>
  <2>1. Len(Coming) = 1 /\ Coming[1] = Prompt
    BY <1>4
  <2>2. Len(screen) # 0
    BY <1>1, <1>4, EmptySeq
  <2>3. Len(screen) = 1 /\ Len(showing) = 0
    <3>1. Len(screen) + Len(showing) = 1 /\ Len(screen) \in Nat /\ Len(showing) \in Nat
      BY <1>1, <2>1
    <3>2. ASSUME NEW a \in Nat, NEW b \in Nat, a # 0, a + b = 1 PROVE a = 1 /\ b = 0
      BY <3>2
    <3> QED
      BY <2>2, <3>1, <3>2
  <2>4. screen[1] = Prompt
    BY <1>1, <2>1, <2>3
  <2>5. <<Prompt>> \in Seq(Marks) /\ Len(<<Prompt>>) = 1 /\ <<Prompt>>[1] = Prompt
    BY MarkTyped DEF Prompt
  <2>6. \A i \in 1..Len(screen) : screen[i] = <<Prompt>>[i]
    BY <2>3, <2>4, <2>5
  <2> DEFINE p == <<Prompt>>
  <2>7. p \in Seq(Marks) /\ Len(screen) = Len(p) /\ \A i \in 1..Len(screen) : screen[i] = p[i]
    BY <2>3, <2>5, <2>6
  <2> HIDE DEF p
  <2>8. screen = p
    BY <1>1, <2>7, SeqEqual
  <2> QED
    BY <1>1, <2>3, <2>8, EmptySeq DEF p
<1> QED
  BY <1>1, <1>2, <1>3, <1>4

\* What a key leaves of one that was typed.
LEMMA OneRead ==
  ASSUME SessionInv, ReadsInput, NEW key, typed = <<key>>
  PROVE  /\ typed' = <<>> /\ ~paused' /\ screen' = screen
         /\ \/ paused /\ Coming' = Coming
            \/ ~paused /\ Coming = screen /\ Coming' = screen \o AnswerTo(key)
<1>1. Tail(typed) = <<>> /\ Head(typed) = key
  OBVIOUS
<1> QED
  BY <1>1, InputRead

\* The device stays in step with the tool.
LEMMA DeviceInStep ==
  ASSUME SessionInv, Clean, Device, InStep
  PROVE  InStep'
<1>1. UNCHANGED <<at, current, expects, output, paged>> /\ Command' = Command
  BY DEF Device, ReadsInput, Shows, Command
<1>2. CASE Shows
  <2>1. /\ Coming' = Coming /\ typed' = typed /\ Len(screen) < Len(Coming) /\ ~paused
        /\ Head(showing) = Coming[Len(screen) + 1] /\ Len(screen) \in Nat
        /\ paused' = (Head(showing) = Pager)
    BY <1>2, ShownWasComing, Streams DEF Shows
  <2>2. Coming # <<>>
    BY <2>1
  <2>3. Asked => Asked'
    <3> SUFFICES ASSUME Asked PROVE Asked'
      OBVIOUS
    <3>1. Coming = <<Prompt>> /\ typed = <<>>
      BY <2>2 DEF Asked
    <3>2. Head(showing) = Prompt
      BY <2>1, <3>1
    <3>3. Prompt # Pager
      BY DEF Prompt, Pager, Mark
    <3> QED
      BY <2>1, <3>1, <3>2, <3>3 DEF Asked
  <2>4. at \in {"echo", "reading"} /\ InPage => InPage'
    BY <1>2, AtHand, ShowsPage
  <2> QED
    BY <1>1, <2>2, <2>3, <2>4 DEF InStep, Idle
<1>3. CASE ReadsInput
  <2>1. typed # <<>>
    BY <1>3 DEF ReadsInput
  <2>2. Asked => Asked'
    <3> SUFFICES ASSUME Asked PROVE Asked'
      OBVIOUS
    <3>1. typed = <<Return>> /\ Coming = <<>> /\ ~paused
      BY <2>1 DEF Asked
    <3>2. typed' = <<>> /\ ~paused' /\ Coming' = <<>> \o <<Prompt>>
      BY <1>3, <3>1, OneRead DEF AnswerTo
    <3> QED
      BY <3>2 DEF Asked
  <2>3. ASSUME at \in {"echo", "reading"}, InPage PROVE InPage'
    <3>1. typed = <<Space>> /\ paused /\ screen = <<>> /\ output \o Coming = Script(Command)
      BY <2>1, <2>3 DEF InPage
    <3>2. typed' = <<>> /\ ~paused' /\ Coming' = Coming /\ screen' = screen
      BY <1>3, <3>1, OneRead
    <3>3. Len(output) \in Nat /\ Len(screen) = 0 /\ paged \in Nat
      BY <3>1, Streams, PagedTyped
    <3>4. Place' = Place /\ Place = Len(output)
      BY <1>1, <3>2, <3>3 DEF Place
    <3>5. Len(output) = IF paged = 0 THEN 0 ELSE 2 * paged + 1
      BY <2>3 DEF InPage
    <3>6. Place # 2 * paged + 3
      BY <3>3, <3>4, <3>5
    <3> QED
      BY <1>1, <2>3, <3>2, <3>4, <3>6 DEF InPage
  <2>4. ASSUME at = "echo", typed = <<Command>>, ~paused, Coming = <<>> PROVE InPage'
    <3>1. Command \in ToSet(Batch) /\ Command # Return /\ Command # Space
      BY <2>4, AtHand
    <3>2. typed' = <<>> /\ ~paused' /\ screen' = screen /\ screen = <<>>
          /\ Coming' = screen \o AnswerTo(Command)
      BY <1>3, <2>4, OneRead
    <3>3. AnswerTo(Command) = Script(Command)
      BY <3>1 DEF AnswerTo
    <3> DEFINE s == Script(Command)
               n == LastPlace(Command)
    <3>4. s \in Seq(Marks) /\ n = 2 * Pages[Command] + 1 /\ Pages[Command] \in Nat \ {0}
      BY <3>1, ScriptMarks DEF LastPlace
    <3>5. n \in Nat /\ n >= 3
      BY <3>4
    <3>6. output = <<>> /\ paged = 0 /\ Len(output) = 0
      BY <2>4 DEF Clean
    <3>7. <<>> \o s = s
      BY <3>4, ConcatEmptySeq
    <3>8. Coming' = s
      BY <3>2, <3>3, <3>7
    <3>9. output' \o Coming' = s
      BY <1>1, <3>6, <3>7, <3>8
    <3>10. Place' = 0
      BY <1>1, <3>2, <3>6 DEF Place
    <3> HIDE DEF s, n
    <3>11. /\ Len(output') = IF paged' = 0 THEN 0 ELSE 2 * paged' + 1
           /\ Len(output') < n /\ Place' <= 2 * paged' + 3
           /\ ~(Place' = 2 * paged' + 3)
      BY <1>1, <3>5, <3>6, <3>10
    <3> QED
      BY <1>1, <3>2, <3>9, <3>11 DEF InPage, LastPlace, s, n
  <2> QED
    BY <1>1, <2>1, <2>2, <2>3, <2>4 DEF InStep, Idle
<1> QED
  BY <1>2, <1>3 DEF Device

\* What a read may find while the tool and the device are in step: all that was
\* shown of the page and its pager, or the last page and the prompt.
LEMMA PageRead ==
  ASSUME SessionInv, InPage, at = "reading", NEW k \in 1..Len(screen)
  PROVE  /\ typed = <<>> /\ Command \in ToSet(Batch)
         /\ "pager" \in Kinds(Chunk(k)) =>
              k = Len(screen) /\ Place = 2 * paged + 3 /\ Place < LastPlace(Command) /\ paused
         /\ "prompt" \in Kinds(Chunk(k)) =>
              k = Len(screen) /\ Place = LastPlace(Command) /\ showing = <<>> /\ ~paused
<1>1. Command \in ToSet(Batch)
  BY AtHand
<1>2. output \o Coming = Script(Command)
  BY DEF InPage
<1> DEFINE n == LastPlace(Command)
<1>3. /\ n \in Nat /\ Len(output) + Len(Coming) = n /\ Len(Coming) = Len(screen) + Len(showing)
      /\ Len(output) \in Nat /\ Len(screen) \in Nat /\ Len(showing) \in Nat
      /\ \A i \in 1..Len(Coming) :
           /\ Coming[i].kind = "prompt" <=> Len(output) + i = n
           /\ Coming[i].kind = "pager" =>
                Len(output) + i < n /\ \E q \in Nat : Len(output) + i = 2 * q + 3
      /\ \A i \in 1..Len(screen) : screen[i] = Coming[i]
  BY <1>1, <1>2, PageMarks
<1>4. paged \in Nat /\ Place = Len(output) + Len(screen)
  BY PagedTyped DEF Place
<1>5. screen # <<>>
  BY <1>3
<1>6. /\ Len(output) = IF paged = 0 THEN 0 ELSE 2 * paged + 1
      /\ Place <= 2 * paged + 3 /\ typed = <<>>
      /\ (paused <=> Place = 2 * paged + 3 /\ Place < n)
  BY <1>5 DEF InPage
<1> HIDE DEF n
<1>7. ASSUME "pager" \in Kinds(Chunk(k))
      PROVE  k = Len(screen) /\ Place = 2 * paged + 3 /\ Place < n /\ paused
  <2>1. PICK j \in 1..k : screen[j].kind = "pager"
    BY <1>7, Completion
  <2>2. /\ j \in 1..Len(screen) /\ j \in 1..Len(Coming) /\ j \in Nat
        /\ k \in Nat /\ j <= k /\ k <= Len(screen)
    BY <1>3
  <2>3. PICK q \in Nat : Len(output) + j = 2 * q + 3 /\ Len(output) + j < n
    BY <1>3, <2>1, <2>2
  <2>4. q = paged
    <3>1. 2 * q + 3 <= 2 * paged + 3 /\ 2 * q + 3 > Len(output)
      BY <1>3, <1>4, <1>6, <2>2, <2>3
    <3>2. CASE paged = 0
      BY <3>1, <3>2
    <3>3. CASE paged # 0
      BY <1>4, <1>6, <3>1, <3>3
    <3> QED
      BY <3>2, <3>3
  <2>5. j = Len(screen) /\ k = j /\ Place = 2 * paged + 3 /\ Place < n
    <3>1. Len(output) + j = 2 * paged + 3 /\ Len(output) + j < n
      BY <2>3, <2>4
    <3>2. Len(output) + Len(screen) <= 2 * paged + 3
      BY <1>4, <1>6
    <3>3. j = Len(screen)
      BY <1>3, <1>4, <2>2, <3>1, <3>2
    <3> QED
      BY <1>4, <2>2, <3>1, <3>3
  <2> QED
    BY <1>6, <2>5
<1>8. ASSUME "prompt" \in Kinds(Chunk(k))
      PROVE  k = Len(screen) /\ Place = n /\ showing = <<>> /\ ~paused
  <2>1. PICK j \in 1..k : screen[j].kind = "prompt"
    BY <1>8, Completion
  <2>2. j \in 1..Len(screen) /\ j \in 1..Len(Coming) /\ j \in Nat
    BY <1>3
  <2>3. Len(output) + j = n
    BY <1>3, <2>1, <2>2
  <2>4. j = Len(screen) /\ k = j /\ Len(showing) = 0 /\ Place = n
    BY <1>3, <1>4, <2>2, <2>3
  <2>5. showing = <<>>
    BY <2>4, Streams, EmptySeq
  <2>6. ~(Place < n)
    BY <1>3, <2>4
  <2> QED
    BY <1>6, <2>4, <2>5, <2>6
<1> QED
  BY <1>1, <1>6, <1>7, <1>8 DEF n

\* A find_prompt in step with the device is answered, and by a prompt.
LEMMA PromptAnswered ==
  ASSUME SessionInv, Good, Asked
  PROVE  /\ screen = <<>> => ~MayTimeOut
         /\ screen # <<>> => typed = <<>> /\ screen = <<Prompt>> /\ showing = <<>> /\ ~paused
BY NothingComes DEF Asked, Good, MayTimeOut, Quiet

\* Over an output that is being read, no read times out.
LEMMA PageComes ==
  ASSUME SessionInv, Good, InPage, at \in {"echo", "reading"}
  PROVE  /\ at = "echo" /\ Clean /\ (\A k \in 1..Len(screen) : screen[k] # Echo(Command)) => ~MayTimeOut
         /\ at = "reading" /\ expects = Prompt /\ (\A k \in 1..Len(screen) : ~Completes(k)) => ~MayTimeOut
<1>1. Command \in ToSet(Batch) /\ output \o Coming = Script(Command)
  BY AtHand DEF InPage
<1> DEFINE n == LastPlace(Command)
<1>2. /\ n \in Nat /\ n >= 3 /\ Len(output) + Len(Coming) = n
      /\ Len(Coming) = Len(screen) + Len(showing)
      /\ Len(output) \in Nat /\ Len(screen) \in Nat /\ Len(showing) \in Nat
      /\ \A i \in 1..Len(Coming) :
           /\ Len(output) + i = 1 => Coming[i] = Echo(Command)
           /\ Coming[i].kind = "prompt" <=> Len(output) + i = n
           /\ Coming[i] = Pager <=> Coming[i].kind = "pager"
           /\ \A q \in Nat : Len(output) + i = 2 * q + 3 /\ Len(output) + i < n => Coming[i] = Pager
      /\ \A i \in 1..Len(screen) : screen[i] = Coming[i]
  BY <1>1, PageMarks
<1>3. paged \in Nat /\ Place = Len(output) + Len(screen)
  BY PagedTyped DEF Place
<1>4. /\ Len(output) = IF paged = 0 THEN 0 ELSE 2 * paged + 1
      /\ Len(output) < n
      /\ \/ typed = <<>> /\ (paused <=> Place = 2 * paged + 3 /\ Place < n)
         \/ typed = <<Space>> /\ paused /\ screen = <<>>
  BY DEF InPage
<1> HIDE DEF n
<1>5. showing = <<>> => Place = n
  <2>1. showing = <<>> => Len(showing) = 0
    OBVIOUS
  <2> QED
    BY <1>2, <1>3, <2>1
<1>6. MayTimeOut => typed = <<>> /\ (Place = n \/ (Place = 2 * paged + 3 /\ Place < n))
  BY <1>4, <1>5 DEF Good, MayTimeOut, Quiet
<1>7. ASSUME MayTimeOut
      PROVE  /\ Len(screen) \in 1..Len(screen) /\ Len(screen) \in 1..Len(Coming) /\ 1 \in 1..Len(screen)
             /\ screen[Len(screen)].kind \in {"prompt", "pager"}
  <2>1. Len(screen) \in Nat \ {0}
    <3>1. Place > Len(output)
      BY <1>2, <1>3, <1>4, <1>6, <1>7
    <3> QED
      BY <1>2, <1>3, <3>1
  <2>2. Len(screen) \in 1..Len(screen) /\ Len(screen) \in 1..Len(Coming) /\ 1 \in 1..Len(screen)
    BY <1>2, <2>1
  <2>3. CASE Place = n
    BY <1>2, <1>3, <2>2, <2>3
  <2>4. CASE Place = 2 * paged + 3 /\ Place < n
    <3>1. Coming[Len(screen)] = Pager
      BY <1>2, <1>3, <2>2, <2>4
    <3> QED
      BY <1>2, <2>2, <3>1 DEF Pager, Mark
  <2> QED
    BY <1>6, <1>7, <2>2, <2>3, <2>4
<1>8. ASSUME at = "echo", Clean, MayTimeOut PROVE \E k \in 1..Len(screen) : screen[k] = Echo(Command)
  <2>1. Len(output) = 0 /\ 1 \in 1..Len(screen)
    BY <1>7, <1>8 DEF Clean
  <2>2. 1 \in 1..Len(Coming)
    BY <1>2, <2>1
  <2>3. screen[1] = Echo(Command)
    BY <1>2, <2>1, <2>2
  <2> QED
    BY <2>1, <2>3
<1>9. ASSUME expects = Prompt, MayTimeOut PROVE \E k \in 1..Len(screen) : Completes(k)
  <2>1. Len(screen) \in 1..Len(screen) /\ screen[Len(screen)].kind \in {"prompt", "pager"}
    BY <1>7, <1>9
  <2>2. PICK k \in 1..Len(screen) : k = Len(screen)
    BY <2>1
  <2>3. k \in 1..k /\ screen[k].kind \in {"prompt", "pager"}
    BY <1>2, <2>1, <2>2
  <2>4. "prompt" \in Kinds(Chunk(k)) \/ "pager" \in Kinds(Chunk(k))
    BY <2>3, Completion
  <2> QED
    BY <1>1, <1>9, <2>4, AtPrompt
<1> QED
  BY <1>8, <1>9

\* The tool stays in step with the device, unless it leaves a command at its pager,
\* and a command fails by its own doing.
LEMMA ToolInStep ==
  ASSUME SessionInv, Clean, Good, InStep, Tool
  PROVE  /\ InStep' \/ (at' = "next" /\ current' = current + 1 /\ Pages[Command] > MAX_PAGES + 1)
         /\ results' # results =>
              \/ Pages[Command] > MAX_PAGES + 1
              \/ \E result : /\ Finish(result)
                             /\ result.status = "ok" \/ Command \in Rejected
<1>1. screen' = <<>> /\ showing' = showing /\ showing = <<>> => Coming' = <<>>
  BY DEF Coming
<1>2. CASE NextCommand
  <2>1. /\ at = "next" /\ at' = "prompt" /\ screen' = <<>> /\ typed' = Append(typed, Return)
        /\ UNCHANGED <<showing, paused, results>>
    BY <1>2 DEF NextCommand, AskPrompt
  <2>2. typed = <<>> /\ showing = <<>> /\ ~paused
    BY <2>1, NothingComes DEF InStep, Idle
  <2>3. Coming' = <<>> /\ typed' = <<Return>>
    BY <1>1, <2>1, <2>2
  <2> QED
    BY <2>1, <2>2, <2>3 DEF InStep, Asked
<1>3. CASE PromptSeen
  <2>1. /\ at = "prompt" /\ screen # <<>> /\ at' = "echo" /\ screen' = <<>>
        /\ expects' \in Lines(Last(screen)) /\ typed' = Append(typed, Command)
        /\ UNCHANGED <<showing, paused, current, results>>
    BY <1>3 DEF PromptSeen
  <2>2. typed = <<>> /\ screen = <<Prompt>> /\ showing = <<>> /\ ~paused
    BY <2>1, PromptAnswered DEF InStep
  <2>3. Last(screen) = Prompt
    BY <2>2 DEF Last
  <2>4. Coming' = <<>> /\ typed' = <<Command>> /\ Command' = Command
    BY <1>1, <2>1, <2>2 DEF Command
  <2>5. expects' = Prompt
    BY <2>1, <2>3 DEF Lines, Prompt, Mark
  <2> QED
    BY <2>1, <2>2, <2>4, <2>5 DEF InStep
<1>4. CASE NoPrompt
  <2>1. at = "prompt" /\ screen = <<>> /\ MayTimeOut
    BY <1>4 DEF NoPrompt
  <2> QED
    BY <2>1, PromptAnswered DEF InStep
<1>5. CASE Echoed
  <2>1. /\ at = "echo" /\ at' = "reading"
        /\ UNCHANGED <<typed, showing, paused, alive, current, expects, output, paged, results>>
    BY <1>5 DEF Echoed, device
  <2>2. PICK k \in 1..Len(screen) : screen[k] = Echo(Command) /\ screen' = SubSeq(screen, k, Len(screen))
    BY <1>5 DEF Echoed, Echo
  <2>3. Command \in ToSet(Batch) /\ expects = Prompt
    BY <2>1, AtHand DEF InStep
  <2>4. k \in 1..Len(Coming) /\ Coming[k] = Echo(Command) /\ Len(screen) \in Nat /\ k \in Nat
    BY <2>2, Streams
  <2>5. Coming # <<>>
    BY <2>4
  <2>6. InPage
    BY <2>1, <2>5 DEF InStep
  <2>7. k = 1
    <3> DEFINE s == Script(Command)
               n == 2 * Pages[Command] + 1
    <3>1. Len(s) = n /\ \A i \in 2..n : s[i] # Echo(Command)
      BY <2>3, ScriptMarks
    <3>2. output \o Coming = s /\ Len(output) = 0
      BY <2>1, <2>6 DEF InPage, Clean
    <3> HIDE DEF s, n
    <3>3. Len(s) = Len(output) + Len(Coming) /\ \A i \in 1..Len(Coming) : Coming[i] = s[Len(output) + i]
      BY <3>2, Places
    <3>4. Coming[k] = s[k] /\ k \in 1..n
      BY <2>4, <3>1, <3>2, <3>3, Streams
    <3> QED
      BY <2>4, <3>1, <3>4
  <2>8. screen' = screen
    BY <2>2, <2>7, Streams, SubSeqFull
  <2>9. UNCHANGED <<Coming, Place, Command>>
    BY <2>1, <2>8 DEF Coming, Place, Command
  <2>10. InPage'
    BY <2>1, <2>6, <2>8, <2>9 DEF InPage
  <2> QED
    BY <2>1, <2>3, <2>10 DEF InStep
<1>6. CASE NoEcho
  <2>1. /\ at = "echo" /\ MayTimeOut /\ \A k \in 1..Len(screen) : screen[k] # Echo(Command)
    BY <1>6 DEF NoEcho, Echo
  <2>2. InPage
    <3>1. ~(typed = <<Command>> /\ ~paused /\ Coming = <<>>)
      BY <2>1 DEF Good, MayTimeOut, Quiet
    <3> QED
      BY <2>1, <3>1 DEF InStep
  <2> QED
    BY <2>1, <2>2, PageComes
<1>7. CASE ReadPage
  <2>1. PICK k \in 1..Len(screen) :
          /\ "pager" \in Kinds(Chunk(k))
          /\ IF paged < MAX_PAGES
               THEN /\ output' = output \o Chunk(k)
                    /\ paged' = paged + 1
                    /\ typed' = Append(typed, Space)
                    /\ UNCHANGED <<at, current, results>>
               ELSE CommandFails /\ UNCHANGED typed
          /\ screen' = SubSeq(screen, k + 1, Len(screen))
    BY <1>7 DEF ReadPage
  <2>2. at = "reading" /\ UNCHANGED <<showing, paused, alive, expects>>
    BY <1>7 DEF ReadPage
  <2>3. expects = Prompt /\ InPage
    BY <2>2 DEF InStep
  <2>4. /\ typed = <<>> /\ Command \in ToSet(Batch) /\ k = Len(screen)
        /\ Place = 2 * paged + 3 /\ Place < LastPlace(Command) /\ paused
    BY <2>1, <2>2, <2>3, PageRead
  <2>5. paged \in Nat /\ MAX_PAGES \in Nat /\ paged <= MAX_PAGES
    BY PagedTyped
  <2>6. LastPlace(Command) = 2 * Pages[Command] + 1 /\ Pages[Command] \in Nat
    BY <2>4, ScriptMarks DEF LastPlace
  <2>7. CASE paged < MAX_PAGES
    <3>1. /\ output' = output \o SubSeq(screen, 1, k) /\ paged' = paged + 1
          /\ typed' = Append(typed, Space) /\ UNCHANGED <<at, current, results>>
      BY <2>1, <2>7 DEF Chunk
    <3>2. k \in 0..Len(screen)
      BY Streams
    <3>3. output' \o Coming' = output \o Coming /\ Len(output') = Len(output) + k
      BY <2>1, <2>2, <3>1, <3>2, ReadOn
    <3>4. screen' = <<>> /\ typed' = <<Space>>
      BY <2>1, <2>4, <3>1, DropsAllOrNone
    <3>5. Len(output') = Place /\ Place' = Place
      BY <2>4, <3>3, <3>4, Streams DEF Place
    <3>6. UNCHANGED <<LastPlace(Command), Command>>
      BY <3>1 DEF LastPlace, Command
    <3>7. InPage'
      <4>1. output' \o Coming' = Script(Command')
        BY <2>3, <3>3, <3>6 DEF InPage
      <4>2. /\ Len(output') = IF paged' = 0 THEN 0 ELSE 2 * paged' + 1
            /\ Len(output') < LastPlace(Command)'
            /\ Place' <= 2 * paged' + 3
        BY <2>4, <2>5, <3>1, <3>5, <3>6
      <4> QED
        BY <2>2, <2>4, <3>4, <4>1, <4>2 DEF InPage
    <3> QED
      BY <2>2, <2>3, <3>1, <3>7 DEF InStep
  <2>8. CASE ~(paged < MAX_PAGES)
    <3>1. at' = "next" /\ current' = current + 1
      BY <2>1, <2>8 DEF CommandFails, Finish
    <3>2. Pages[Command] > MAX_PAGES + 1
      <4> DEFINE p == Pages[Command]
      <4>1. 2 * paged + 3 < 2 * p + 1 /\ p \in Nat /\ paged = MAX_PAGES
        BY <2>4, <2>5, <2>6, <2>8
      <4> HIDE DEF p
      <4>2. p > MAX_PAGES + 1
        BY <2>5, <4>1
      <4> QED
        BY <4>2 DEF p
    <3> QED
      BY <3>1, <3>2
  <2> QED
    BY <2>7, <2>8
<1>8. CASE ReadLast
  <2>1. /\ at = "reading" /\ at' = "classify" /\ screen' = <<>> /\ typed' = Append(typed, Return)
        /\ UNCHANGED <<showing, paused, current, expects, results>>
    BY <1>8 DEF ReadLast, AskPrompt
  <2>2. PICK k \in 1..Len(screen) :
          Completes(k) /\ "pager" \notin Kinds(Chunk(k)) /\ output' = output \o Chunk(k)
    BY <1>8 DEF ReadLast
  <2>3. InPage /\ "prompt" \in Kinds(Chunk(k))
    <3>1. InPage /\ expects = Prompt /\ Command \in ToSet(Batch)
      BY <2>1, AtHand DEF InStep
    <3> QED
      BY <2>2, <3>1, AtPrompt DEF InPage
  <2>4. typed = <<>> /\ Command \in ToSet(Batch) /\ showing = <<>> /\ ~paused
    BY <2>1, <2>3, PageRead
  <2>5. output' = Script(Command)
    BY <2>2, <2>3, <2>4, LastRead DEF InPage
  <2>6. Coming' = <<>> /\ typed' = <<Return>> /\ Command' = Command
    BY <1>1, <2>1, <2>4 DEF Command
  <2> QED
    BY <2>1, <2>4, <2>5, <2>6 DEF InStep, Asked
<1>9. CASE ReadTimesOut
  <2>1. at = "reading" /\ MayTimeOut /\ \A k \in 1..Len(screen) : ~Completes(k)
    BY <1>9 DEF ReadTimesOut
  <2> QED
    BY <2>1, PageComes DEF InStep
<1>10. CASE Classify
  <2> DEFINE result == [command |-> Command, status |-> StatusOf(PagesIn(output)),
                        pages |-> PagesIn(output)]
  <2>1. /\ at = "classify" /\ (screen # <<>> \/ MayTimeOut) /\ Finish(result) /\ screen' = <<>>
        /\ UNCHANGED <<typed, showing, paused>>
    BY <1>10 DEF Classify, device
  <2>2. typed = <<>> /\ showing = <<>> /\ ~paused
    BY <2>1, PromptAnswered DEF InStep
  <2>3. at' = "next" /\ Coming' = <<>>
    BY <1>1, <2>1, <2>2 DEF Finish
  <2>4. InStep'
    BY <2>1, <2>2, <2>3 DEF InStep, Idle
  <2>5. result.status = "ok" \/ Command \in Rejected
    <3>1. Command \in ToSet(Batch) /\ PagesIn(output) = PagesOf(Command)
      BY <2>1, AtHand, ScriptPages DEF InStep
    <3>2. 1 \in 1..Pages[Command]
      BY <3>1, ScriptMarks
    <3>3. PagesIn(output)[1].of = Command
      BY <3>1, <3>2 DEF PagesOf, Mark
    <3> QED
      BY <3>3 DEF StatusOf
  <2> HIDE DEF result
  <2> QED
    BY <2>1, <2>4, <2>5
<1>11. CASE EndBatch
  <2>1. /\ at = "next" /\ at' = "ended" /\ UNCHANGED <<typed, showing, paused, screen, results>>
    BY <1>11 DEF EndBatch, device
  <2> QED
    BY <2>1 DEF InStep, Idle, Coming
<1> QED
  BY <1>2, <1>3, <1>4, <1>5, <1>6, <1>7, <1>8, <1>9, <1>10, <1>11 DEF Tool

\* What lets a command fail by another's doing stays so.
LEMMA GoodBefore ==
  ASSUME SessionInv, slow' = slow, alive' => alive, current' \in {current, current + 1}, Good'
  PROVE  Good
<1>1. current \in Nat /\ current' \in Nat /\ current <= current'
  BY DEF SessionInv, SessionTypeOK
<1>3. ASSUME NEW a \in Nat, NEW b \in Nat, a <= b PROVE 1..(a - 1) \subseteq 1..(b - 1)
  BY <1>3
<1>2. 1..(current - 1) \subseteq 1..(current' - 1)
  BY <1>1, <1>3
<1> QED
  BY <1>2 DEF Good

\* What each command may fail by, kept by every step.
LEMMA ReasonsKept ==
  ASSUME SessionInv, Clean, Good => InStep, Reasons, slow' = slow, Tool \/ Device \/ Hangs
  PROVE  Reasons' /\ (Good' => InStep')
<1>1. current \in Nat /\ Len(results) = current - 1
  BY DEF SessionInv, SessionTypeOK
<1>2. alive' => alive
  BY DEF Tool, NextCommand, PromptSeen, NoPrompt, Echoed, NoEcho, ReadPage, ReadLast,
         ReadTimesOut, Classify, EndBatch, device, Device, ReadsInput, Shows, Hangs
<1>3. ASSUME results' = results PROVE Reasons'
  BY <1>2, <1>3 DEF Reasons
<1>4. CASE Device \/ Hangs
  <2>1. UNCHANGED <<current, results>>
    BY <1>4 DEF Device, ReadsInput, Shows, Hangs
  <2>2. Good' => Good /\ ~Hangs
    BY <1>2, <2>1, GoodBefore DEF Good, Hangs
  <2> QED
    BY <1>3, <1>4, <2>1, <2>2, DeviceInStep
<1>5. CASE Tool
  <2>1. \/ results' = results /\ current' = current
        \/ \E result : Finish(result) /\ current <= Len(Batch)
    BY <1>5 DEF Tool, NextCommand, PromptSeen, NoPrompt, Echoed, NoEcho, ReadPage, ReadLast,
                ReadTimesOut, Classify, EndBatch, CommandFails, SessionInv
  <2>2. current' \in {current, current + 1} /\ alive' = alive
    BY <1>5, <2>1
    DEF Finish, Tool, NextCommand, PromptSeen, NoPrompt, Echoed, NoEcho, ReadPage, ReadLast,
        ReadTimesOut, Classify, EndBatch, device
  <2>3. Good' => InStep'
    <3> SUFFICES ASSUME Good' PROVE InStep'
      OBVIOUS
    <3>1. Good /\ InStep
      BY <2>2, GoodBefore
    <3>2. ~(current' = current + 1 /\ Pages[Command] > MAX_PAGES + 1)
      <4> SUFFICES ASSUME current' = current + 1, Pages[Command] > MAX_PAGES + 1 PROVE FALSE
        OBVIOUS
      <4>1. current \in 1..(current' - 1)
        BY <1>1 DEF SessionInv, SessionTypeOK
      <4>2. Pages[Batch[current]] <= MAX_PAGES + 1
        BY <4>1 DEF Good
      <4>3. current \in 1..Len(Batch)
        BY <2>1, BatchTyped DEF SessionInv, SessionTypeOK, Finish
      <4>4. Command \in ToSet(Batch)
        BY <4>3, BatchTyped DEF Command
      <4>5. Pages[Command] \in Nat /\ MAX_PAGES \in Nat
        BY <4>4, SessionAssumption
      <4> QED
        BY <4>2, <4>5 DEF Command
    <3> QED
      BY <1>5, <3>1, <3>2, ToolInStep
  <2>4. Reasons'
    <3>1. CASE results' = results
      BY <1>3, <3>1
    <3>2. CASE results' # results
      <4>1. PICK result : Finish(result) /\ current <= Len(Batch)
        BY <2>1, <3>2
      <4>2. PICK S : results \in Seq(S)
        BY DEF SessionInv
      <4> DEFINE T == S \cup {result}
      <4>3. results \in Seq(T) /\ result \in T
        BY <4>2
      <4> HIDE DEF T
      <4>4. results' = Append(results, result) /\ current' = current + 1
        BY <4>1 DEF Finish
      <4>5. /\ Len(results') = Len(results) + 1 /\ results'[Len(results) + 1] = result
            /\ \A i \in 1..Len(results) : results'[i] = results[i]
        BY <4>3, <4>4, AppendProperties
      <4>6. ASSUME NEW i \in 1..Len(results)
            PROVE  \/ results'[i].status = "ok" \/ slow' \/ ~alive' \/ Batch[i] \in Rejected
                   \/ \E j \in 1..i : Pages[Batch[j]] > MAX_PAGES + 1
        BY <2>2, <4>5 DEF Reasons
      <4>7. \/ result.status = "ok" \/ slow' \/ ~alive' \/ Batch[current] \in Rejected
            \/ \E j \in 1..current : Pages[Batch[j]] > MAX_PAGES + 1
        <5>1. CASE Good
          <6>1. \/ Pages[Command] > MAX_PAGES + 1
                \/ \E r : Finish(r) /\ (r.status = "ok" \/ Command \in Rejected)
            BY <1>5, <3>2, <5>1, ToolInStep
          <6>2. ASSUME NEW r, Finish(r) PROVE r = result
            <7> DEFINE U == T \cup {r}
            <7>1. results \in Seq(U) /\ r \in U /\ result \in U
              <8>1. T \subseteq U /\ r \in U
                OBVIOUS
              <8> HIDE DEF U
              <8> QED
                BY <4>3, <8>1, SeqMonotonic
            <7> HIDE DEF U
            <7>2. Append(results, r) = Append(results, result)
              BY <4>4, <6>2 DEF Finish
            <7> QED
              BY <7>1, <7>2, AppendInjective
          <6>3. current \in 1..current
            BY DEF SessionInv, SessionTypeOK
          <6> QED
            BY <6>1, <6>2, <6>3 DEF Command
        <5>2. CASE ~Good
          <6>1. CASE slow \/ ~alive
            BY <2>2, <6>1
          <6>2. CASE \E j \in 1..(current - 1) : ~(Pages[Batch[j]] <= MAX_PAGES + 1)
            <7>1. PICK j \in 1..(current - 1) : ~(Pages[Batch[j]] <= MAX_PAGES + 1)
              BY <6>2
            <7>2. j \in 1..current /\ j \in 1..Len(Batch)
              BY <1>1, <4>1, BatchTyped
            <7>3. Pages[Batch[j]] \in Nat /\ MAX_PAGES \in Nat
              BY <7>2, BatchTyped, SessionAssumption
            <7> QED
              BY <7>1, <7>2, <7>3
          <6> QED
            BY <5>2, <6>1, <6>2 DEF Good
        <5> QED
          BY <5>1, <5>2
      <4>8. ASSUME NEW i \in 1..Len(results')
            PROVE  \/ results'[i].status = "ok" \/ slow' \/ ~alive' \/ Batch[i] \in Rejected
                   \/ \E j \in 1..i : Pages[Batch[j]] > MAX_PAGES + 1
        <5>1. i \in 1..Len(results) \/ i = current
          BY <1>1, <4>5
        <5>2. results'[current] = result
          BY <1>1, <4>5
        <5> QED
          BY <4>6, <4>7, <5>1, <5>2
      <4> QED
        BY <4>8 DEF Reasons
    <3> QED
      BY <3>1, <3>2
  <2> QED
    BY <2>3, <2>4
<1> QED
  BY <1>4, <1>5

\* The rest of what the proofs need of a session.
BatchInv == Clean /\ OwnInv /\ Reasons /\ (Good => InStep)

\* Every step of the session keeps it.
LEMMA BatchKept ==
  ASSUME SessionInv, BatchInv, slow' = slow, Tool \/ Device \/ Hangs
  PROVE  BatchInv'
<1>1. Clean'
  BY CleanKept DEF BatchInv
<1>2. Reasons' /\ (Good' => InStep')
  BY ReasonsKept DEF BatchInv
<1>3. ASSUME IsInjective(Batch) PROVE Own' /\ Unseen' /\ Strays' /\ Whole'
  <2>1. Own /\ Unseen /\ Strays /\ Whole /\ Clean
    BY <1>3 DEF BatchInv, OwnInv
  <2>2. CASE Tool
    BY <1>3, <2>1, <2>2, ToolKeepsOwn, ToolKeepsUnseen, ToolKeepsStrays, WholeKept
  <2>3. CASE Device \/ Hangs
    <3>1. results' = results
      BY <2>3 DEF Device, ReadsInput, Shows, Hangs
    <3> QED
      BY <2>1, <2>3, <3>1, DeviceKeepsOwn, DeviceKeepsUnseen DEF Whole, PagesFor, LeftOver
  <2> QED
    BY <2>2, <2>3
<1>4. OwnInv'
  BY <1>3 DEF OwnInv
<1> QED
  BY <1>1, <1>2, <1>4 DEF BatchInv

\* And so does a session at rest.
LEMMA BatchStays == BatchInv /\ UNCHANGED session => BatchInv'
<1> SUFFICES ASSUME BatchInv, UNCHANGED session PROVE BatchInv'
  OBVIOUS
<1>1. UNCHANGED <<slow, typed, showing, paused, alive, screen, at, current, expects, output,
                  paged, results>>
  BY DEF session
<1>2. UNCHANGED <<Coming, Command, Place>>
  BY <1>1 DEF Coming, Command, Place
<1>3. OwnInv'
  <2>1. PagesIn(output)' = PagesIn(output) /\ \A n : LeftOver(n)' <=> LeftOver(n)
    BY <1>1 DEF PagesIn, LeftOver
  <2>2. Own => Own'
    BY <1>1, <1>2, <2>1 DEF Own, Unasked, ToCome, Come, PagesFor
  <2>3. Unseen => Unseen'
    BY <1>1, <1>2 DEF Unseen
  <2>4. Strays => Strays'
    BY <1>1, <1>2, <2>1 DEF Strays, Hand
  <2>5. Whole => Whole'
    BY <1>1, <2>1 DEF Whole, PagesFor
  <2> QED
    BY <2>2, <2>3, <2>4, <2>5 DEF BatchInv, OwnInv
<1>4. Clean' /\ Reasons'
  BY <1>1 DEF BatchInv, Clean, Reasons
<1>5. Good' => InStep'
  BY <1>1, <1>2 DEF BatchInv, Good, InStep, Idle, Asked, InPage, LastPlace
<1> QED
  BY <1>3, <1>4, <1>5 DEF BatchInv

\* A session begins in step, with nothing typed, read or to come.
LEMMA BatchBegins == Init => BatchInv
<1> SUFFICES ASSUME Init PROVE BatchInv
  OBVIOUS
<1>1. /\ typed = <<>> /\ showing = <<>> /\ screen = <<>> /\ output = <<>> /\ results = <<>>
      /\ paused = FALSE /\ at = "next" /\ current = 1 /\ paged = 0
  BY DEF Init
<1>2. Coming = <<>>
  BY <1>1 DEF Coming
<1> QED
  BY <1>1, <1>2 DEF BatchInv, Clean, OwnInv, Own, Unasked, Lacks, Unseen, Strays, Whole,
                       Reasons, InStep, Idle

-----------------------------------------------------------------------------
(* The call *)

\* What each step of the call already knows: the checks before it have passed,
\* a session is open during the batch and at no other time, and nothing has been
\* typed before.
Passed ==
  /\ request \in Requests /\ pc \in Steps /\ did \subseteq {"resolve", "probe", "connect"}
  /\ reply.kind \in {"none", "error", "raised", "run", "outline"}
  /\ connection \in {"none", "open", "closed"}
  /\ pc = "done" <=> reply.kind # "none"
  /\ pc = "credentials" => Allowed(request)
  /\ pc \in {"target", "resolve", "probe", "connect", "session"} =>
       Allowed(request) /\ Configured(request.env)
  /\ pc = "resolve" => request.element /\ ~request.host
  /\ pc \in {"connect", "session"} => "probe" \in did
  /\ pc = "session" <=> connection = "open"
  /\ pc \notin {"session", "done"} => current = 1 /\ at = "next" /\ typed = <<>>

IInv == Passed /\ EffectsInOrder

\* Credentials that are found are said in one spelling or the other.
LEMMA ConfiguredIsSaid ==
  Configured(request.env) => Said("username") /\ ~(Said("password") <=> Said("private_key"))
<1>1. ASSUME NEW s PROVE Given(request.env, s) <=> Said(s)
  <2>1. ASSUME NEW v, Says(v) PROVE v # Unset
    BY <2>1 DEF Says, Unset
  <2>2. Said(s) <=> Says(request.env[s][1]) \/ Says(request.env[s][2])
    BY DEF Said
  <2> QED
    BY <2>1, <2>2 DEF Given, FirstSet
<1>2. Configured(request.env) <=> /\ Given(request.env, "username")
                                 /\ ~(Given(request.env, "password") <=> Given(request.env, "private_key"))
  BY DEF Configured
<1> QED
  BY <1>1, <1>2

\* A call begins with nothing checked, done or typed.
LEMMA InitEstablishes == Init => IInv /\ SessionInv
<1> SUFFICES ASSUME Init PROVE IInv /\ SessionInv
  OBVIOUS
<1>1. IInv
  BY DEF Init, IInv, Passed, EffectsInOrder, Steps, NoReply
<1>2. SessionTypeOK
  <2>1. Len(Batch) \in Nat /\ MAX_PAGES \in Nat
    BY BatchTyped, SessionAssumption
  <2>2. 1 \in 1..(Len(Batch) + 1) /\ 0 \in 0..MAX_PAGES
    BY <2>1
  <2>3. <<>> \in Seq(Marks) /\ <<>> \in Seq({Return, Space} \cup ToSet(Batch)) /\ Len(<<>>) = 0
    BY EmptySeq
  <2>4. slow \in BOOLEAN /\ typed = <<>> /\ showing = <<>> /\ screen = <<>> /\ output = <<>>
        /\ results = <<>> /\ paused = FALSE /\ alive = TRUE /\ expects = Prompt
        /\ at = "next" /\ current = 1 /\ paged = 0
    BY DEF Init
  <2>5. Len(results) = current - 1
    BY <2>3, <2>4
  <2>6. Prompt \in Marks
    BY MarkTyped DEF Prompt
  <2> QED
    BY <2>2, <2>3, <2>4, <2>5, <2>6 DEF SessionTypeOK
<1>3. results = <<>> /\ at = "next"
  BY DEF Init
<1>4. \E S : results \in Seq(S)
  <2>1. results \in Seq(Nat)
    BY <1>3
  <2> QED
    BY <2>1
<1> QED
  BY <1>1, <1>2, <1>3, <1>4 DEF SessionInv

\* A step before the session keeps the order of effects, if it knows what it must.
LEMMA OutsidePreserves ==
  ASSUME IInv, UNCHANGED <<session, request>>, Passed',
         did \subseteq did', did' \subseteq did \cup {pc},
         pc \in {"policy", "credentials", "target", "resolve", "probe", "connect"},
         did' # did => pc \in {"resolve", "probe", "connect"},
         "probe" \in did' => "probe" \in did \/ Usable(request.env)
  PROVE  IInv'
<1>1. UNCHANGED <<current, at, typed, request>>
  BY DEF session
<1> DEFINE Found == Said("username") /\ ~(Said("password") <=> Said("private_key"))
<1>2. did' # {} => Allowed(request) /\ Found
  BY ConfiguredIsSaid DEF IInv, Passed, EffectsInOrder
<1>3. Found <=> Found'
  BY <1>1 DEF Said
<1> HIDE DEF Found
<1>4. did' # {} => Allowed(request') /\ Found'
  BY <1>1, <1>2, <1>3
<1>5. "resolve" \in did' => request.element /\ ~request.host
  BY DEF IInv, Passed, EffectsInOrder
<1>6. "probe" \in did' => Usable(request.env)
  BY DEF IInv, EffectsInOrder
<1>7. "connect" \in did' => "probe" \in did'
  BY DEF IInv, Passed, EffectsInOrder
<1>8. current = 1 /\ at = "next" /\ typed = <<>>
  BY DEF IInv, Passed
<1> QED
  BY <1>1, <1>4, <1>5, <1>6, <1>7, <1>8 DEF IInv, EffectsInOrder, Found

\* Every early return closes nothing, because nothing is open yet.
LEMMA ReturnPreserves ==
  ASSUME IInv, UNCHANGED <<session, request, connection>>,
         pc' = "done", reply'.kind \in {"error", "raised"},
         did \subseteq did', did' \subseteq did \cup {pc},
         pc \in {"policy", "credentials", "target", "resolve", "probe", "connect"},
         did' # did => pc \in {"resolve", "probe", "connect"},
         "probe" \in did' => "probe" \in did \/ Usable(request.env)
  PROVE  IInv'
<1>1. Passed'
  BY DEF IInv, Passed, Steps, session
<1> QED
  BY <1>1, OutsidePreserves

\* The steps before the session.
LEMMA StepsPreserve ==
  ASSUME IInv, Outside, UNCHANGED <<session, request>>
  PROVE  IInv'
<1> USE DEF Fail, Raise
<1>1. CASE pc' = "done"
  <2>1. UNCHANGED connection /\ reply'.kind \in {"error", "raised"}
    BY <1>1 DEF Outside, Policy, Credentials, Target, Resolve, Probe, Connect
  <2>2. /\ did \subseteq did' /\ did' \subseteq did \cup {pc}
        /\ pc \in {"policy", "credentials", "target", "resolve", "probe", "connect"}
        /\ did' # did => pc \in {"resolve", "probe", "connect"}
        /\ "probe" \in did' => "probe" \in did \/ Usable(request.env)
    BY DEF Outside, Policy, Credentials, Target, Resolve, Probe, Connect
  <2> QED
    BY <1>1, <2>1, <2>2, ReturnPreserves
<1>2. CASE pc' # "done"
  <2> USE DEF IInv, Passed, Steps, session
  <2>1. CASE Policy
    <3>1. Passed'
      BY <1>2, <2>1 DEF Policy
    <3> QED
      BY <2>1, <3>1, OutsidePreserves DEF Policy
  <2>2. CASE Credentials
    <3>1. Passed'
      BY <1>2, <2>2 DEF Credentials
    <3> QED
      BY <2>2, <3>1, OutsidePreserves DEF Credentials
  <2>3. CASE Target
    <3>1. Passed'
      BY <1>2, <2>3 DEF Target
    <3> QED
      BY <2>3, <3>1, OutsidePreserves DEF Target
  <2>4. CASE Resolve
    <3>1. Passed'
      BY <1>2, <2>4 DEF Resolve
    <3> QED
      BY <2>4, <3>1, OutsidePreserves DEF Resolve
  <2>5. CASE Probe
    <3>1. Passed'
      BY <1>2, <2>5 DEF Probe
    <3> QED
      BY <1>2, <2>5, <3>1, OutsidePreserves DEF Probe
  <2>6. CASE Connect
    <3>1. Passed'
      BY <1>2, <2>6 DEF Connect
    <3> QED
      BY <2>6, <3>1, OutsidePreserves DEF Connect
  <2> QED
    BY <2>1, <2>2, <2>3, <2>4, <2>5, <2>6 DEF Outside
<1> QED
  BY <1>1, <1>2

\* A session at rest stays as it is.
LEMMA SessionKept == SessionInv /\ UNCHANGED session => SessionInv'
<1> SUFFICES ASSUME SessionInv, UNCHANGED session PROVE SessionInv'
  OBVIOUS
<1>1. UNCHANGED <<slow, typed, showing, paused, alive, screen, at, current, expects, output,
                  paged, results>>
  BY DEF session
<1>2. SessionTypeOK'
  BY <1>1 DEF SessionInv, SessionTypeOK
<1> QED
  BY <1>1, <1>2, ResultsKept DEF SessionInv

\* The call does nothing while its session is worked on.
LEMMA CallKept ==
  ASSUME IInv, pc = "session", UNCHANGED <<request, pc, did, connection, reply>>
  PROVE  IInv'
BY DEF IInv, Passed, EffectsInOrder, Said

\* Every step keeps both parts of the invariant.
LEMMA NextPreserves == IInv /\ SessionInv /\ [Next]_vars => IInv' /\ SessionInv'
<1> SUFFICES ASSUME IInv, SessionInv, [Next]_vars PROVE IInv' /\ SessionInv'
  OBVIOUS
<1>1. CASE Outside /\ UNCHANGED <<session, request>>
  BY <1>1, StepsPreserve, SessionKept
<1>2. CASE Answer /\ UNCHANGED <<session, request>>
  <2>1. /\ pc = "session" /\ pc' = "done" /\ did' = did
        /\ connection' = "closed" /\ reply'.kind \in {"run", "outline"}
    BY <1>2 DEF Answer, Disconnect
  <2>2. UNCHANGED <<current, at, typed, request>>
    BY <1>2 DEF session
  <2>3. IInv'
    BY <2>1, <2>2 DEF IInv, Passed, EffectsInOrder, Steps, Said
  <2> QED
    BY <1>2, <2>3, SessionKept
<1>3. CASE /\ pc = "session" /\ Tool
           /\ UNCHANGED <<slow, request, pc, did, connection, reply>>
  BY <1>3, CallKept, ToolKeeps
<1>4. CASE Other
  <2>1. /\ pc = "session" /\ (Device \/ Hangs)
        /\ UNCHANGED <<slow, request, pc, did, connection, reply>>
    BY <1>4 DEF Other
  <2> QED
    BY <2>1, CallKept, DeviceKeeps
<1>5. CASE UNCHANGED vars
  <2>1. UNCHANGED session /\ UNCHANGED <<request, pc, did, connection, reply>>
    BY <1>5 DEF vars
  <2>2. UNCHANGED <<current, at, typed>>
    BY <2>1 DEF session
  <2>3. IInv'
    BY <2>1, <2>2 DEF IInv, Passed, EffectsInOrder, Said
  <2> QED
    BY <2>1, <2>3, SessionKept
<1> QED
  BY <1>1, <1>2, <1>3, <1>4, <1>5 DEF Next, Call

\* And what the proofs need of the batch.
LEMMA NextKeepsBatch == SessionInv /\ BatchInv /\ [Next]_vars => BatchInv'
<1> SUFFICES ASSUME SessionInv, BatchInv, [Next]_vars PROVE BatchInv'
  OBVIOUS
<1>1. \/ UNCHANGED session
      \/ slow' = slow /\ (Tool \/ Device \/ Hangs)
  BY DEF Next, Call, Other, vars
<1> QED
  BY <1>1, BatchKept, BatchStays

\* The invariant holds of every call.
LEMMA Invariant == Spec => [](IInv /\ SessionInv /\ BatchInv)
<1>1. Init => IInv /\ SessionInv /\ BatchInv
  BY InitEstablishes, BatchBegins
<1>2. IInv /\ SessionInv /\ BatchInv /\ [Next]_vars => (IInv /\ SessionInv /\ BatchInv)'
  BY NextPreserves, NextKeepsBatch
<1> QED
  BY <1>1, <1>2, PTL DEF Spec

\* Type correctness of the call and of its session, whatever the device shows and
\* whenever it hangs.
THEOREM TypeCorrect == Spec => []TypeOK
<1>1. IInv /\ SessionInv => TypeOK
  <2>1. SessionInv => SessionTypeOK
    BY DEF SessionInv
  <2>2. ASSUME Passed, SessionTypeOK
        PROVE  TypeOK
    <3>1. request \in Requests /\ pc \in Steps /\ did \subseteq {"resolve", "probe", "connect"}
          /\ connection \in {"none", "open", "closed"}
          /\ reply.kind \in {"none", "error", "raised", "run", "outline"}
      BY <2>2 DEF Passed
    <3>2. pc = "done" <=> reply.kind # "none"
      BY <2>2 DEF Passed
    <3> QED
      BY <2>2, <3>1, <3>2, Zenon DEF TypeOK
  <2> QED
    BY <2>1, <2>2 DEF IInv
<1> QED
  BY <1>1, Invariant, PTL

\* The results are in the batch's order, and complete at its end.
LEMMA ResultsOrdered == SessionInv => ResultsInOrder
<1> SUFFICES ASSUME SessionInv PROVE ResultsInOrder
  OBVIOUS
<1>1. PICK S : results \in Seq(S)
  BY DEF SessionInv
<1>2. DOMAIN results = 1..Len(results)
  BY <1>1, LenProperties
<1>3. at = "ended" => Len(results) = Len(Batch)
  BY BatchTyped DEF SessionInv, SessionTypeOK
<1> QED
  BY <1>2, <1>3 DEF SessionInv, ResultsInOrder

\* The results are those of the batch, one each and in its order, although each
\* command may fail in five ways (the loop of execute_commands).
THEOREM ResultsAreTheBatch == Spec => []ResultsInOrder
BY ResultsOrdered, Invariant, PTL

\* A result that is not an error has pages of its own command from the first on and
\* nothing of another's, although the device may still be answering the command before
\* (what send_command drops); and it has all of them, unless a line that an earlier,
\* failed command left was taken for the prompt and comes again in its own pages
\* (the text of _completion_pattern, and where it stops a read).
THEOREM OutputIsOwn == Spec => []OwnOutput
<1>1. SessionInv /\ BatchInv => OwnOutput
  <2> SUFFICES ASSUME SessionInv, BatchInv PROVE OwnOutput
    OBVIOUS
  <2>1. PICK S : results \in Seq(S)
    BY DEF SessionInv
  <2>2. DOMAIN results = 1..Len(results)
    BY <2>1, LenProperties
  <2>3. ResultsInOrder
    BY ResultsOrdered
  <2>4. ASSUME NEW i \in DOMAIN results, results[i].status = "ok", IsInjective(Batch)
        PROVE  \E n \in 1..Pages[Batch[i]] :
                 /\ results[i].pages = [p \in 1..n |-> Mark("data", Batch[i], p)]
                 /\ n < Pages[Batch[i]] => MistakenPrompt(i)
    <3>1. PagesFor(Batch[i], results[i].pages, LeftOver(i - 1))
      BY <2>2, <2>4 DEF BatchInv, OwnInv, Whole
    <3>2. Len(results) \in Nat
      BY DEF SessionInv, SessionTypeOK
    <3>3. \A j \in 1..i : j \in 1..Len(results) /\ results[j].command = Batch[j]
      BY <2>2, <3>2 DEF SessionInv
    <3>4. Batch[i] \in Alike /\ LeftOver(i - 1) => MistakenPrompt(i)
      BY <2>2, <3>2, <3>3 DEF LeftOver, MistakenPrompt
    <3> QED
      BY <3>1, <3>4 DEF PagesFor
  <2> QED
    BY <2>3, <2>4 DEF OwnOutput
<1> QED
  BY <1>1, Invariant, PTL

\* While the device responds and no read is cut short, a command that is not
\* rejected fails only when its output has too many pages, or that of a command
\* before it, which the tool left at its pager (the loop of _command_result).
THEOREM FailuresExplained == Spec => []FailsByItself
<1>1. SessionInv /\ BatchInv => FailsByItself
  <2> SUFFICES ASSUME SessionInv, BatchInv, NEW i \in DOMAIN results
               PROVE  \/ FailsAlone(i)
                      \/ \E j \in 1..(i - 1) : Pages[results[j].command] > MAX_PAGES + 1
    BY DEF FailsByItself
  <2>1. PICK S : results \in Seq(S)
    BY DEF SessionInv
  <2>2. i \in 1..Len(results) /\ i \in Nat /\ Len(results) \in Nat
    BY <2>1, LenProperties
  <2>3. results[i].command = Batch[i]
    BY <2>2 DEF SessionInv
  <2>4. \/ results[i].status = "ok" \/ slow \/ ~alive \/ Batch[i] \in Rejected
        \/ \E j \in 1..i : Pages[Batch[j]] > MAX_PAGES + 1
    BY <2>2 DEF BatchInv, Reasons
  <2>5. ASSUME NEW j \in 1..i, Pages[Batch[j]] > MAX_PAGES + 1
        PROVE  \/ Pages[results[i].command] > MAX_PAGES + 1
               \/ \E m \in 1..(i - 1) : Pages[results[m].command] > MAX_PAGES + 1
    <3>1. j \in 1..Len(results) /\ (j = i \/ j \in 1..(i - 1))
      BY <2>2
    <3>2. results[j].command = Batch[j]
      BY <3>1 DEF SessionInv
    <3> QED
      BY <2>5, <3>1, <3>2
  <2> QED
    BY <2>3, <2>4, <2>5 DEF FailsAlone
<1> QED
  BY <1>1, Invariant, PTL

\* A denial or unusable credentials have no outside effect, a given host is not
\* resolved, nothing is opened that was not probed, and a call that ends in an
\* error has typed nothing (the fixed call order of run_commands).
THEOREM OrderKept == Spec => []EffectsInOrder
<1>1. IInv => EffectsInOrder
  BY DEF IInv
<1> QED
  BY <1>1, Invariant, PTL

\* A call that has ended has no session open, however it ended (the finally
\* clause of execute_commands).
THEOREM SessionClosed == Spec => []NothingLeftOpen
<1>1. IInv => NothingLeftOpen
  BY DEF IInv, Passed, NothingLeftOpen
<1> QED
  BY <1>1, Invariant, PTL

-----------------------------------------------------------------------------
(* A call runs down *)

\* What a call has left to do, the most weighty first: its own steps, commands, the
\* steps of a command and pages, then what the device has to read and to show.
StepsLeft ==
  CASE pc = "policy" -> 7 [] pc = "credentials" -> 6 [] pc = "target" -> 5
    [] pc = "resolve" -> 4 [] pc = "probe" -> 3 [] pc = "connect" -> 2
    [] pc = "session" -> 1 [] OTHER -> 0
CommandsLeft == Len(Batch) + 1 - current
ReadsLeft ==
  CASE at = "next" -> 5 [] at = "prompt" -> 4 [] at = "echo" -> 3
    [] at = "reading" -> 2 [] at = "classify" -> 1 [] OTHER -> 0
PagesLeft == MAX_PAGES - paged
HangsLeft == IF alive THEN 1 ELSE 0
Left ==
  <<StepsLeft, CommandsLeft, ReadsLeft, PagesLeft, Len(typed), Len(showing), HangsLeft>>

\* What is left is never less than nothing.
Measured ==
  /\ StepsLeft \in Nat /\ CommandsLeft \in Nat /\ ReadsLeft \in Nat /\ PagesLeft \in Nat
  /\ Len(typed) \in Nat /\ Len(showing) \in Nat /\ HangsLeft \in Nat

\* While the variables keep their types, what is left is measured in numbers.
LEMMA LeftIsMeasured == SessionInv => Measured
<1> SUFFICES ASSUME SessionInv PROVE Measured
  OBVIOUS
<1>1. CommandsLeft \in Nat
  BY BatchTyped DEF SessionInv, SessionTypeOK, CommandsLeft
<1>2. PagesLeft \in Nat
  BY SessionAssumption DEF SessionInv, SessionTypeOK, PagesLeft
<1>3. Len(typed) \in Nat /\ Len(showing) \in Nat
  BY LenProperties DEF SessionInv, SessionTypeOK
<1> QED
  BY <1>1, <1>2, <1>3 DEF Measured, StepsLeft, ReadsLeft, HangsLeft

\* A step of the tool ends a command, or takes it further, or asks for a page.
LEMMA ToolRunsDown ==
  ASSUME SessionInv, Tool
  PROVE  \/ CommandsLeft' < CommandsLeft
         \/ CommandsLeft' = CommandsLeft /\ ReadsLeft' < ReadsLeft
         \/ CommandsLeft' = CommandsLeft /\ ReadsLeft' = ReadsLeft /\ PagesLeft' < PagesLeft
<1>1. current \in Nat /\ Len(Batch) \in Nat /\ paged \in Nat /\ MAX_PAGES \in Nat
  BY BatchTyped, SessionAssumption DEF SessionInv, SessionTypeOK
<1>f. ASSUME NEW r, Finish(r) PROVE CommandsLeft' < CommandsLeft
  BY <1>1, <1>f DEF Finish, CommandsLeft
<1>2. CASE NoPrompt \/ NoEcho \/ ReadTimesOut \/ Classify
  BY <1>2, <1>f DEF NoPrompt, NoEcho, ReadTimesOut, Classify, CommandFails
<1>3. CASE NextCommand \/ PromptSeen \/ Echoed \/ ReadLast \/ EndBatch
  <2>1. current' = current
    BY <1>3 DEF NextCommand, PromptSeen, Echoed, ReadLast, EndBatch
  <2>2. CommandsLeft' = CommandsLeft
    BY <2>1 DEF CommandsLeft
  <2>3. ReadsLeft' < ReadsLeft
    BY <1>3 DEF NextCommand, PromptSeen, Echoed, ReadLast, EndBatch, ReadsLeft
  <2> QED
    BY <2>2, <2>3
<1>4. CASE ReadPage
  <2>1. CASE CommandFails
    BY <1>f, <2>1 DEF CommandFails
  <2>2. CASE paged' = paged + 1 /\ UNCHANGED <<at, current, results>>
    BY <1>1, <2>2 DEF CommandsLeft, ReadsLeft, PagesLeft
  <2> QED
    BY <1>4, <2>1, <2>2 DEF ReadPage
<1> QED
  BY <1>2, <1>3, <1>4 DEF Tool

\* A step of the device reads something, shows something, or is its last.
LEMMA DeviceRunsDown ==
  ASSUME SessionInv, Device \/ Hangs
  PROVE  \/ Len(typed') < Len(typed)
         \/ typed' = typed /\ Len(showing') < Len(showing)
         \/ typed' = typed /\ showing' = showing /\ HangsLeft' < HangsLeft
<1>t. ASSUME NEW S, NEW s \in Seq(S), s # <<>> PROVE Len(Tail(s)) < Len(s)
  <2>1. Len(s) \in Nat \ {0}
    BY <1>t, EmptySeq, LenProperties
  <2> QED
    BY <1>t, <2>1, HeadTailProperties
<1>1. typed \in Seq({Return, Space} \cup ToSet(Batch)) /\ showing \in Seq(Marks)
  BY DEF SessionInv, SessionTypeOK
<1>2. CASE ReadsInput
  BY <1>1, <1>2, <1>t DEF ReadsInput
<1>3. CASE Shows
  BY <1>1, <1>3, <1>t DEF Shows
<1>4. CASE Hangs
  BY <1>4 DEF Hangs, HangsLeft
<1> QED
  BY <1>2, <1>3, <1>4 DEF Device

\* A step before the session, and the reply after it, are steps of the call.
LEMMA CallRunsOn ==
  ASSUME Outside \/ Answer
  PROVE  StepsLeft' < StepsLeft
<1>1. CASE Policy
  BY <1>1 DEF Policy, Raise, Fail, StepsLeft
<1>2. CASE Credentials
  BY <1>2 DEF Credentials, Fail, StepsLeft
<1>3. CASE Target
  BY <1>3 DEF Target, Raise, Fail, StepsLeft
<1>4. CASE Resolve
  BY <1>4 DEF Resolve, Fail, StepsLeft
<1>5. CASE Probe
  BY <1>5 DEF Probe, Raise, Fail, StepsLeft
<1>6. CASE Connect
  BY <1>6 DEF Connect, Fail, StepsLeft
<1>7. CASE Answer
  BY <1>7 DEF Answer, StepsLeft
<1> QED
  BY <1>1, <1>2, <1>3, <1>4, <1>5, <1>6, <1>7 DEF Outside

\* Every step of a call and of the device lowers what is left.
LEMMA RunsDown ==
  ASSUME SessionInv, Next
  PROVE  Lower(Left', Left)
<1>1. SUFFICES
        \/ StepsLeft' < StepsLeft
        \/ StepsLeft' = StepsLeft /\ CommandsLeft' < CommandsLeft
        \/ /\ StepsLeft' = StepsLeft /\ CommandsLeft' = CommandsLeft
           /\ ReadsLeft' < ReadsLeft
        \/ /\ StepsLeft' = StepsLeft /\ CommandsLeft' = CommandsLeft
           /\ ReadsLeft' = ReadsLeft /\ PagesLeft' < PagesLeft
        \/ /\ StepsLeft' = StepsLeft /\ CommandsLeft' = CommandsLeft
           /\ ReadsLeft' = ReadsLeft /\ PagesLeft' = PagesLeft
           /\ Len(typed') < Len(typed)
        \/ /\ StepsLeft' = StepsLeft /\ CommandsLeft' = CommandsLeft
           /\ ReadsLeft' = ReadsLeft /\ PagesLeft' = PagesLeft
           /\ Len(typed') = Len(typed) /\ Len(showing') < Len(showing)
        \/ /\ StepsLeft' = StepsLeft /\ CommandsLeft' = CommandsLeft
           /\ ReadsLeft' = ReadsLeft /\ PagesLeft' = PagesLeft
           /\ Len(typed') = Len(typed) /\ Len(showing') = Len(showing)
           /\ HangsLeft' < HangsLeft
  <2>1. /\ DOMAIN Left = 1..7 /\ Left[1] = StepsLeft /\ Left[2] = CommandsLeft
        /\ Left[3] = ReadsLeft /\ Left[4] = PagesLeft /\ Left[5] = Len(typed)
        /\ Left[6] = Len(showing) /\ Left[7] = HangsLeft
    BY DEF Left
  <2>2. /\ Left'[1] = StepsLeft' /\ Left'[2] = CommandsLeft'
        /\ Left'[3] = ReadsLeft' /\ Left'[4] = PagesLeft' /\ Left'[5] = Len(typed')
        /\ Left'[6] = Len(showing') /\ Left'[7] = HangsLeft'
    BY DEF Left
  <2>3. \E i \in 1..7 : Left'[i] < Left[i] /\ \A j \in 1..(i - 1) : Left'[j] = Left[j]
    <3>1. CASE StepsLeft' < StepsLeft
      BY <2>1, <2>2, <3>1
    <3>2. CASE StepsLeft' = StepsLeft /\ CommandsLeft' < CommandsLeft
      BY <2>1, <2>2, <3>2
    <3>3. CASE /\ StepsLeft' = StepsLeft /\ CommandsLeft' = CommandsLeft
               /\ ReadsLeft' < ReadsLeft
      BY <2>1, <2>2, <3>3
    <3>4. CASE /\ StepsLeft' = StepsLeft /\ CommandsLeft' = CommandsLeft
               /\ ReadsLeft' = ReadsLeft /\ PagesLeft' < PagesLeft
      BY <2>1, <2>2, <3>4
    <3>5. CASE /\ StepsLeft' = StepsLeft /\ CommandsLeft' = CommandsLeft
               /\ ReadsLeft' = ReadsLeft /\ PagesLeft' = PagesLeft
               /\ Len(typed') < Len(typed)
      BY <2>1, <2>2, <3>5
    <3>6. CASE /\ StepsLeft' = StepsLeft /\ CommandsLeft' = CommandsLeft
               /\ ReadsLeft' = ReadsLeft /\ PagesLeft' = PagesLeft
               /\ Len(typed') = Len(typed) /\ Len(showing') < Len(showing)
      BY <2>1, <2>2, <3>6
    <3>7. CASE /\ StepsLeft' = StepsLeft /\ CommandsLeft' = CommandsLeft
               /\ ReadsLeft' = ReadsLeft /\ PagesLeft' = PagesLeft
               /\ Len(typed') = Len(typed) /\ Len(showing') = Len(showing)
               /\ HangsLeft' < HangsLeft
      BY <2>1, <2>2, <3>7
    <3> QED
      BY <1>1, <3>1, <3>2, <3>3, <3>4, <3>5, <3>6, <3>7
  <2> QED
    BY <2>1, <2>3 DEF Lower
<1>2. CASE Outside \/ Answer
  BY <1>2, CallRunsOn
<1>3. CASE Tool /\ UNCHANGED pc
  <2>1. StepsLeft' = StepsLeft
    BY <1>3 DEF StepsLeft
  <2> QED
    BY <1>3, <2>1, ToolRunsDown
<1>4. CASE (Device \/ Hangs) /\ UNCHANGED pc
  <2>1. at' = at /\ current' = current /\ paged' = paged
    BY <1>4 DEF Device, ReadsInput, Shows, Hangs
  <2>2. /\ StepsLeft' = StepsLeft /\ CommandsLeft' = CommandsLeft
        /\ ReadsLeft' = ReadsLeft /\ PagesLeft' = PagesLeft
    BY <1>4, <2>1 DEF StepsLeft, CommandsLeft, ReadsLeft, PagesLeft
  <2> QED
    BY <1>4, <2>2, DeviceRunsDown
<1> QED
  BY <1>2, <1>3, <1>4 DEF Next, Call, Other

\* Every step of a call, and of the device while a session is open, lowers what is
\* left: a step before the session, a command, a step of one, a page, or what the
\* device still has to read or to show.  By NoEndlessDescent neither of them goes on
\* for ever, whatever is typed on top of what; fairness is needed only for a call
\* not to stand still.
THEOREM CallRunsDown ==
  Spec => [](Left \in [1..7 -> Nat]) /\ [][Lower(Left', Left)]_vars
<1>1. SessionInv => Left \in [1..7 -> Nat]
  BY LeftIsMeasured DEF Measured, Left
<1>2. SessionInv /\ [Next]_vars => [Lower(Left', Left)]_vars
  BY RunsDown
<1> QED
  BY <1>1, <1>2, Invariant, PTL DEF Spec
=============================================================================
