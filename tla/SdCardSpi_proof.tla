--------------------------- MODULE SdCardSpi_proof ---------------------------
(***************************************************************************)
(* Proofs about SdCardSpi, for any number of retries in each loop, any     *)
(* size of card and any number of lost frames, time-outs, failures to      *)
(* program and exchanges:                                                  *)
(*   - the driver knows the card that it has acquired (IInv), whatever a   *)
(*     card does in the middle of a transfer;                              *)
(*   - its variables keep their types (UInv);                              *)
(*   - of a card that does not go on with a transfer for ever, nothing     *)
(*     changes but what a write is asked to change, and Ok means that it   *)
(*     did what it was asked for (DInv).                                   *)
(***************************************************************************)
EXTENDS SdCardSpi, TLAPS

-----------------------------------------------------------------------------
(* The inductive invariant *)

\* The commands of acquire, and those that follow it.
Acquiring == {"CMD0", "CMD59", "CMD8", "CMD55", "ACMD41", "CMD58"}
Using == {"CMD9", "CMD17", "CMD18", "CMD12", "CMD55", "ACMD23", "CMD24", "CMD25", "CMD13"}

Phases == {"wait", "send", "answer", "data", "pause", "block", "stop"}

\* The driver acquires a card if and only if it does not know one.
Phased ==
  /\ \/ Idle
     \/ cardType = None /\ at \in [cmd : Acquiring, phase : {"wait", "send", "answer"}]
     \/ cardType # None /\ at \in [cmd : Using, phase : Phases]
  /\ Idle \/ call.kind \in {"size", "read", "write"}

\* A card that is not initialised sends nothing and programs nothing, one that is
\* off does not answer, and only an idle one says that it is.
Quiet(k) == k.task = None /\ ~ k.busy
Sane(k) ==
  /\ k.mode # "ready" => Quiet(k)
  /\ k.mode = "off" => k.out = NoAnswer
  /\ k.out.r1 = "01" => k.mode = "idle"

\* What is true of card k, unless it has just been put in, when acquire comes to
\* command c with the type f.
Known(c, k, f) ==
  /\ c # "CMD0" => Quiet(k)
  /\ c = "CMD59" => UseCrc
  /\ c \notin {"CMD0", "CMD59"} => k.crc = UseCrc
  /\ c \in {"CMD55", "ACMD41", "CMD58"} =>
       \/ f = "SD1" /\ k.kind = "SD1"
       \/ f = "SD2" /\ k.kind # "SD1"
  /\ c = "CMD58" => f = "SD2"

\* What the answer to c says of it.  The answer is to c, and not to a command
\* before it, or there is none.
Tells(c, k) ==
  /\ c = "CMD0" /\ k.out.r1 = "01" => k.crc = FALSE
  /\ c = "CMD59" => k.crc = TRUE
  /\ c = "CMD8" => (k.out.r1 = "05" <=> k.kind = "SD1")
  /\ c = "CMD58" => (k.out.rest = "C0" <=> k.kind = "SdhcSdxc")

FoundSoFar ==
  cardType = None /\ ~ Idle /\ card.mode # "off" =>
    /\ Known(at.cmd, card, found)
    /\ at.phase = "answer" /\ card.out # NoAnswer => Tells(at.cmd, card)

TypesOK == CardOK /\ {cardType, found} \subseteq CardType \cup {None}

IInv == TypesOK /\ Sane(card) /\ Phased /\ FoundSoFar /\ CardKnown

-----------------------------------------------------------------------------
(* The card *)

CardRec ==
  [kind : CardType, mode : {"off", "idle", "ready"}, crc : BOOLEAN,
   out : [r1 : Byte, rest : {"00", "04", "80", "AA", "C0", "FF"}],
   task : {None, "csd", "read", "stream", "receive", "receiveMany"},
   pos : 0 .. Capacity, busy : BOOLEAN, failed : BOOLEAN]

\* The same card, as far as acquire goes.
Same(k) == k.kind = card.kind /\ k.mode = card.mode /\ k.crc = card.crc

LEMMA Capacious == 0 \in 0 .. Capacity /\ BlockIdx \subseteq 0 .. Capacity
BY SizeAssumption DEF BlockIdx

LEMMA NoAnswerType == NoAnswer \in [r1 : Byte, rest : {"00", "04", "80", "AA", "C0", "FF"}]
BY DEF NoAnswer, Byte

LEMMA InsertedType ==
  ASSUME NEW kind \in CardType
  PROVE  /\ Inserted(kind) \in CardRec /\ Sane(Inserted(kind)) /\ Inserted(kind).kind = kind
         /\ Inserted(kind).mode = "off" /\ Inserted(kind).crc = FALSE
         /\ Quiet(Inserted(kind)) /\ Inserted(kind).out = NoAnswer
BY Capacious, NoAnswerType DEF Inserted, CardRec, Sane, Quiet, None, NoAnswer

\* A card whose answer is taken, that is told to do nothing more, or whose block
\* has gone.
LEMMA Emptied ==
  ASSUME NEW k \in CardRec, Sane(k)
  PROVE  LET e == [k EXCEPT !.out = NoAnswer]
         IN  /\ e \in CardRec /\ Sane(e) /\ e.kind = k.kind /\ e.mode = k.mode /\ e.crc = k.crc
             /\ e.out = NoAnswer /\ e.task = k.task /\ e.busy = k.busy
BY NoAnswerType DEF CardRec, Sane, NoAnswer, Quiet

LEMMA Stopped ==
  ASSUME card \in CardRec, Sane(card)
  PROVE  /\ Dropped \in CardRec /\ Sane(Dropped) /\ Same(Dropped)
         /\ Dropped.out = NoAnswer /\ Dropped.task = None /\ Dropped.busy = card.busy
BY NoAnswerType, Capacious DEF Dropped, CardRec, Sane, NoAnswer, Same, Quiet

LEMMA BlockSent ==
  ASSUME card \in CardRec, Sane(card), NEW task
  PROVE  /\ AfterBlock(task) \in CardRec /\ Sane(AfterBlock(task)) /\ Same(AfterBlock(task))
         /\ AfterBlock(task).out = card.out /\ AfterBlock(task).busy = card.busy
         /\ card.mode # "ready" => AfterBlock(task).task = None
<1>1. CASE card.task = task
  <2>1. AfterBlock(task) = [card EXCEPT !.pos = IF @ < Capacity THEN @ + 1 ELSE @]
    BY <1>1 DEF AfterBlock
  <2>2. (IF card.pos < Capacity THEN card.pos + 1 ELSE card.pos) \in 0 .. Capacity
    BY SizeAssumption DEF CardRec
  <2> QED BY <2>1, <2>2 DEF CardRec, Sane, Same, Quiet
<1>2. CASE card.task # task
  <2>1. AfterBlock(task) = [card EXCEPT !.task = None, !.pos = 0]
    BY <1>2 DEF AfterBlock
  <2> QED BY <2>1, Capacious DEF CardRec, Sane, Same, Quiet
<1> QED BY <1>1, <1>2

\* What one byte tells.
LEMMA Polled ==
  ASSUME card \in CardRec, Sane(card), NEW p \in Poll
  PROVE  /\ p.card \in CardRec /\ Sane(p.card) /\ Same(p.card)
         /\ p.card.out = card.out \/ p.card.out = NoAnswer
         /\ Quiet(card) => /\ Quiet(p.card)
                           /\ p.byte = "FF" \/ (p.byte = card.out.r1 /\ p.rest = card.out.rest)
         /\ p.byte = "01" => card.out.r1 = "01"
         /\ card.mode = "off" => p.byte = "FF"
<1>1. CASE card.busy
  <2> DEFINE e == [card EXCEPT !.busy = FALSE]
  <2>1. e \in CardRec /\ Sane(e) /\ Same(e) /\ e.out = card.out
    BY DEF CardRec, Sane, Same, Quiet
  <2>2. \/ p = [byte |-> "00", rest |-> "FF", card |-> card]
        \/ p = [byte |-> "FF", rest |-> "FF", card |-> e]
    BY <1>1 DEF Poll
  <2>3. card.mode # "off" /\ ~ Quiet(card)
    BY <1>1 DEF Sane, Quiet
  <2> HIDE DEF e
  <2>4. (p.card = card /\ p.byte = "00") \/ (p.card = e /\ p.byte = "FF")
    BY <2>2
  <2> QED BY <2>1, <2>3, <2>4 DEF Same
<1>2. CASE ~ card.busy
  <2>1. CASE p = [byte |-> "FF", rest |-> "FF", card |-> card]
    BY <2>1 DEF Same
  <2>2. CASE p = [byte |-> card.out.r1, rest |-> card.out.rest, card |-> [card EXCEPT !.out = NoAnswer]]
    <3>1. p.byte = card.out.r1 /\ p.rest = card.out.rest /\ p.card = [card EXCEPT !.out = NoAnswer]
      BY <2>2
    <3>2. card.mode = "off" => p.byte = "FF"
      BY <3>1 DEF Sane, NoAnswer, Quiet
    <3>3. /\ p.card \in CardRec /\ Sane(p.card) /\ Same(p.card) /\ p.card.out = NoAnswer
          /\ p.card.task = card.task /\ p.card.busy = card.busy
      BY <3>1, Emptied DEF Same
    <3> QED BY <3>1, <3>2, <3>3 DEF Quiet
  <2>3. CASE Transmitting /\ p = [byte |-> "00", rest |-> "FF", card |-> SentBlock]
    BY <2>3, BlockSent DEF SentBlock, Transmitting, Quiet, None, Sane
  <2> QED BY <1>2, <2>1, <2>2, <2>3 DEF Poll
<1> QED BY <1>1, <1>2

-----------------------------------------------------------------------------
(* Commands *)

\* A response, whatever it is.
LEMMA Responded ==
  ASSUME NEW k \in CardRec, NEW r1 \in Byte, NEW rest \in {"00", "04", "80", "AA", "C0", "FF"}
  PROVE  /\ Respond(k, r1, rest) \in CardRec
         /\ Respond(k, r1, rest).out = [r1 |-> r1, rest |-> rest]
         /\ Respond(k, r1, rest).kind = k.kind /\ Respond(k, r1, rest).mode = k.mode
         /\ Respond(k, r1, rest).crc = k.crc /\ Respond(k, r1, rest).task = k.task
         /\ Respond(k, r1, rest).busy = k.busy
BY DEF Respond, CardRec

LEMMA R1Type == R1 \in {"00", "01"} /\ (R1 = "01" <=> card.mode = "idle")
BY DEF R1

\* What the commands that start a transfer do: nothing but to one that is ready.
LEMMA TaskStarted ==
  ASSUME NEW k \in CardRec, Sane(k), k.mode # "off", card.kind = k.kind, NEW arg,
         NEW task \in {"csd", "read", "stream", "receive", "receiveMany"}
  PROVE  LET s == StartTask(k, task, arg)
         IN  /\ s \in CardRec /\ Sane(s) /\ s.kind = k.kind /\ s.mode = k.mode /\ s.crc = k.crc
<1>1. CASE k.mode = "ready" /\ ValidAddress(arg)
  <2> DEFINE j == [k EXCEPT !.task = task, !.pos = Addressed(arg)]
  <2>1. Addressed(arg) \in 0 .. Capacity
    BY <1>1, Capacious DEF ValidAddress
  <2>2. j \in CardRec /\ j.kind = k.kind /\ j.mode = k.mode /\ j.crc = k.crc
    BY <2>1 DEF CardRec
  <2>3. StartTask(k, task, arg) = Respond(j, "00", "FF")
    BY <1>1 DEF StartTask
  <2> HIDE DEF j
  <2> QED BY <1>1, <2>2, <2>3, Responded DEF Sane, Byte, Quiet
<1>2. CASE ~ (k.mode = "ready" /\ ValidAddress(arg))
  <2>1. PICK r1 \in {"20", "05"} : StartTask(k, task, arg) = Respond(k, r1, "FF")
    BY <1>2 DEF StartTask
  <2> QED BY <2>1, Responded DEF Sane, Byte, Quiet
<1> QED BY <1>1, <1>2

\* What a command does to a card that obeys it.
LEMMA Obeyed ==
  ASSUME card \in CardRec, Sane(card), card.mode # "off", ~ card.busy,
         NEW cmd \in (Acquiring \cup Using) \ {"CMD0"}, NEW arg, Obey(cmd, arg)
  PROVE  /\ card' \in CardRec /\ Sane(card') /\ card'.kind = card.kind
         /\ card'.mode = card.mode \/ (cmd = "ACMD41" /\ card'.mode = "ready")
         /\ cmd # "CMD59" => card'.crc = card.crc
         /\ cmd \in Acquiring => Quiet(card')
         /\ cmd = "CMD59" => card'.crc = TRUE
         /\ cmd = "CMD8" => (card'.out.r1 = "05" <=> card'.kind = "SD1")
         /\ cmd = "CMD58" => (card'.out.rest = "C0" <=> card'.kind = "SdhcSdxc")
<1> DEFINE k == Dropped
<1>1. k \in CardRec /\ Sane(k) /\ Same(k) /\ Quiet(k)
  BY Stopped DEF Quiet
<1>2. R1 \in Byte /\ R1 \in {"00", "01"} /\ (R1 = "01" <=> card.mode = "idle")
  BY R1Type DEF Byte
<1>3. CASE cmd = "CMD8"
  <2>1. card' = IF k.kind = "SD1" THEN Respond(k, "05", "FF") ELSE Respond(k, R1, "AA")
    BY <1>3 DEF Obey, Task
  <2> HIDE DEF k
  <2> QED BY <1>1, <1>2, <1>3, <2>1, Responded DEF Sane, Same, Quiet, Byte
<1>4. CASE cmd = "CMD59"
  <2> DEFINE j == [k EXCEPT !.crc = TRUE]
  <2>1. card' = Respond(j, R1, "FF")
    BY <1>4 DEF Obey, Task
  <2> HIDE DEF k
  <2>2. j \in CardRec /\ j.kind = k.kind /\ j.mode = k.mode /\ j.task = k.task /\ j.busy = k.busy /\ j.crc = TRUE
    BY <1>1 DEF CardRec
  <2> HIDE DEF j
  <2> QED BY <1>1, <1>2, <1>4, <2>1, <2>2, Responded DEF Sane, Same, Quiet, Byte
<1>5. CASE cmd = "ACMD41"
  <2> DEFINE j == [k EXCEPT !.mode = "ready"]
  <2>1. card' = Respond(k, R1, "FF") \/ card' = Respond(j, "00", "FF")
    BY <1>5 DEF Obey, Task
  <2> HIDE DEF k
  <2>2. j \in CardRec /\ j.kind = k.kind /\ j.mode = "ready" /\ j.task = k.task /\ j.busy = k.busy /\ j.crc = k.crc
    BY <1>1 DEF CardRec
  <2> HIDE DEF j
  <2> QED BY <1>1, <1>2, <1>5, <2>1, <2>2, Responded DEF Sane, Same, Quiet, Byte
<1>6. CASE cmd = "CMD58"
  <2>1. card' = Respond(k, R1, IF k.kind = "SdhcSdxc" THEN "C0" ELSE "80")
    BY <1>6 DEF Obey, Task
  <2> HIDE DEF k
  <2> QED BY <1>1, <1>2, <1>6, <2>1, Responded DEF Sane, Same, Quiet, Byte
<1>7. CASE cmd = "CMD13"
  <2> DEFINE j == [k EXCEPT !.failed = FALSE]
  <2>1. card' = Respond(j, R1, IF k.failed THEN "04" ELSE "00")
    BY <1>7 DEF Obey, Task
  <2> HIDE DEF k
  <2>2. j \in CardRec /\ j.kind = k.kind /\ j.mode = k.mode /\ j.task = k.task /\ j.busy = k.busy /\ j.crc = k.crc
    BY <1>1 DEF CardRec
  <2> HIDE DEF j
  <2> QED BY <1>1, <1>2, <1>7, <2>1, <2>2, Responded DEF Sane, Same, Acquiring, Byte, Quiet
<1>8. CASE cmd = "CMD12"
  <2> DEFINE b == (card.task = "stream")
             j == [k EXCEPT !.busy = b]
  <2>1. card' = Respond(j, "00", "FF")
    BY <1>8 DEF Obey, Task
  <2>2. b \in BOOLEAN /\ (card.mode # "ready" => ~ b)
    BY DEF Sane, None, Quiet
  <2> HIDE DEF k, b
  <2>3. j \in CardRec /\ j.kind = k.kind /\ j.mode = k.mode /\ j.task = k.task /\ j.busy = b /\ j.crc = k.crc
    BY <1>1, <2>2 DEF CardRec
  <2> HIDE DEF j
  <2> QED BY <1>1, <1>8, <2>1, <2>2, <2>3, Responded DEF Sane, Same, Byte, Acquiring, Quiet
<1>9. CASE cmd \in DOMAIN Task
  <2>1. Task[cmd] \in {"csd", "read", "stream", "receive", "receiveMany"}
        /\ cmd \in {"CMD9", "CMD17", "CMD18", "CMD24", "CMD25"}
    BY <1>9 DEF Task
  <2>2. card' = StartTask(k, Task[cmd], arg)
    BY <1>9, <2>1 DEF Obey, Task
  <2> HIDE DEF k
  <2> QED BY <1>1, <2>1, <2>2, TaskStarted DEF Same, Acquiring
<1>10. CASE cmd \in {"CMD55", "ACMD23"}
  <2>1. cmd \notin DOMAIN Task
    BY <1>10 DEF Task
  <2>2. card' = Respond(k, R1, "FF")
    BY <1>10, <2>1 DEF Obey, Task
  <2> HIDE DEF k
  <2> QED BY <1>1, <1>2, <1>10, <2>2, Responded DEF Sane, Same, Quiet, Byte
<1> QED BY <1>3, <1>4, <1>5, <1>6, <1>7, <1>8, <1>9, <1>10 DEF Acquiring, Using, Task

\* What a frame does to a card.
LEMMA Received ==
  ASSUME card \in CardRec, Sane(card), NEW cmd \in Acquiring \cup Using, NEW arg, Receive(cmd, arg)
  PROVE  /\ card' \in CardRec /\ Sane(card') /\ card'.kind = card.kind
         /\ card.mode = "off" /\ cmd # "CMD0" => card' = card
         /\ cmd = "CMD0" => (card'.out.r1 = "01" => card'.crc = FALSE)
         /\ cmd # "CMD0" =>
              /\ card'.mode = card.mode \/ (cmd = "ACMD41" /\ card'.mode = "ready")
              /\ cmd # "CMD59" => card'.crc = card.crc
         /\ cmd # "CMD0" /\ cmd \in Acquiring /\ card.mode # "off" /\ Quiet(card) =>
              /\ Quiet(card')
              /\ cmd = "CMD59" => card'.crc = TRUE
              /\ cmd = "CMD8" => (card'.out.r1 = "05" <=> card'.kind = "SD1")
              /\ cmd = "CMD58" => (card'.out.rest = "C0" <=> card'.kind = "SdhcSdxc")
<1>1. CASE Deaf(cmd)
  <2>1. card' = card
    BY <1>1 DEF Receive
  <2>2. card.busy => card.mode = "ready"
    BY DEF Sane, Quiet
  <2> QED BY <1>1, <2>1, <2>2 DEF Deaf, Sane, Quiet
<1>2. CASE cmd = "CMD0" /\ ~ Deaf(cmd)
  <2> DEFINE j == [Inserted(card.kind) EXCEPT !.mode = "idle"]
  <2>1. card' = Respond(j, "01", "FF")
    BY <1>2 DEF Receive
  <2>2. card.kind \in CardType
    BY DEF CardRec
  <2>3. j \in CardRec /\ j.kind = card.kind /\ j.mode = "idle" /\ Quiet(j) /\ j.crc = FALSE
    <3> DEFINE w == Inserted(card.kind)
    <3>1. w \in CardRec /\ w.kind = card.kind /\ Quiet(w) /\ w.crc = FALSE
      BY <2>2, InsertedType
    <3> HIDE DEF w
    <3>2. [w EXCEPT !.mode = "idle"] \in CardRec
      BY <3>1 DEF CardRec
    <3>3. LET i == [w EXCEPT !.mode = "idle"]
          IN  i.kind = w.kind /\ i.mode = "idle" /\ i.task = w.task /\ i.busy = w.busy /\ i.crc = w.crc
      BY <3>1 DEF CardRec
    <3> QED BY <3>1, <3>2, <3>3 DEF Quiet, w
  <2> HIDE DEF j
  <2> QED BY <1>2, <2>1, <2>3, Responded DEF Sane, Quiet, Byte
<1>3. CASE ~ Deaf(cmd) /\ cmd # "CMD0"
  <2>0. ~ card.busy /\ card.mode # "off"
    BY <1>3 DEF Deaf
  <2>1. CASE GoesOn(cmd)
    <3>1. card' = Respond(card, "04", "FF")
      BY <1>3, <2>1 DEF Receive
    <3>2. card.mode = "ready" /\ ~ Quiet(card)
      BY <2>1 DEF GoesOn, Endless, Sane, Quiet, None
    <3> QED BY <1>3, <3>1, <3>2, Responded DEF Sane, Byte, Quiet
  <2>2. CASE ~ GoesOn(cmd)
    <3>1. Obey(cmd, arg)
      BY <1>3, <2>2 DEF Receive
    <3> QED BY <1>3, <2>0, <3>1, Obeyed
  <2> QED BY <2>1, <2>2
<1> QED BY <1>1, <1>2, <1>3

\* One that does not get through.
LEMMA Lost ==
  ASSUME card \in CardRec, Sane(card)
  PROVE  /\ Garbled \in CardRec /\ Sane(Garbled) /\ Same(Garbled)
         /\ Quiet(card) => Quiet(Garbled) /\ Garbled.out = NoAnswer
         /\ Garbled.out = NoAnswer \/ card.mode = "ready"
BY Stopped DEF Garbled, Endless, Quiet, Same, Sane, None

-----------------------------------------------------------------------------
(* How calls go on *)

LEMMA Given ==
  ASSUME IInv
  PROVE  /\ card \in CardRec /\ Sane(card) /\ Phased /\ CardKnown
         /\ cardType \in CardType \cup {None} /\ found \in CardType \cup {None}
BY DEF IInv, TypesOK, CardOK, CardRec

LEMMA Commands == None \notin Acquiring \cup Using /\ None \notin CardType
BY DEF None, Acquiring, Using, CardType

\* A call returns.
LEMMA Ended ==
  ASSUME IInv, at' = Resting, UNCHANGED cardType, found' = None,
         card' \in CardRec, Sane(card'), Same(card')
  PROVE  IInv'
<1>1. Phased' /\ FoundSoFar'
  BY DEF Phased, FoundSoFar, Idle
<1>2. CardKnown'
  BY Given DEF CardKnown, Same
<1>3. TypesOK'
  BY Given DEF TypesOK, CardOK, CardRec
<1> QED BY <1>1, <1>2, <1>3 DEF IInv

\* It goes on with the same command, and what the card has answered is taken or
\* still there.
LEMMA GoesOnWith ==
  ASSUME IInv, ~ Idle, UNCHANGED <<cardType, found, call>>, NEW phase \in Phases,
         at' = [cmd |-> at.cmd, phase |-> phase],
         cardType # None \/ phase \in {"wait", "send"} \/ (phase = "answer" /\ at.phase = "answer"),
         card' \in CardRec, Sane(card'), Same(card'), Quiet(card) => Quiet(card'),
         card'.out = card.out \/ card'.out = NoAnswer
  PROVE  IInv'
<1>1. at.cmd \in Acquiring \cup Using /\ at'.cmd = at.cmd /\ at'.phase = phase
  BY DEF IInv, Phased
<1>2. at' # Resting
  BY <1>1, Commands DEF Resting
<1>3. Phased'
  BY <1>1, Given DEF Phased
<1>4. FoundSoFar'
  <2> SUFFICES ASSUME cardType = None, card.mode # "off"
               PROVE  /\ Known(at.cmd, card', found)
                      /\ phase = "answer" /\ card'.out # NoAnswer => Tells(at.cmd, card')
    BY <1>1 DEF FoundSoFar, Same
  <2>1. /\ Known(at.cmd, card, found)
        /\ at.phase = "answer" /\ card.out # NoAnswer => Tells(at.cmd, card)
    BY DEF IInv, FoundSoFar
  <2> QED BY <2>1 DEF Known, Tells, Same
<1>5. CardKnown'
  BY Given DEF CardKnown, Same
<1>6. TypesOK'
  BY Given DEF TypesOK, CardOK, CardRec
<1> QED BY <1>3, <1>4, <1>5, <1>6 DEF IInv

\* It goes on with another command, of acquire or after it.
LEMMA GoesOnTo ==
  ASSUME IInv, NEW cmd \in Acquiring \cup Using, Command(cmd), UNCHANGED cardType,
         found' \in CardType \cup {None}, call'.kind \in {"size", "read", "write"},
         card' \in CardRec, Sane(card'), Same(card'),
         IF cardType = None
         THEN cmd \in Acquiring /\ (card'.mode # "off" => Known(cmd, card', found'))
         ELSE cmd \in Using
  PROVE  IInv'
<1>1. at'.cmd = cmd /\ at'.phase \in {"wait", "send"} /\ at' = [cmd |-> cmd, phase |-> at'.phase]
  BY DEF Command
<1>2. at' # Resting
  BY <1>1, Commands DEF Resting
<1>3. Phased'
  BY <1>1 DEF Phased, Phases
<1>4. FoundSoFar'
  BY <1>1 DEF FoundSoFar
<1>5. CardKnown'
  BY Given DEF CardKnown, Same
<1>6. TypesOK'
  BY Given DEF TypesOK, CardOK, CardRec
<1> QED BY <1>3, <1>4, <1>5, <1>6 DEF IInv

\* acquire has found the type of the card, and the call begins.
LEMMA First == \A c : c.kind \in {"size", "read", "write"} => FirstCommand(c) \in Using
BY DEF FirstCommand, Using

LEMMA AcquiredStep ==
  ASSUME IInv, ~ Idle, cardType = None, NEW type \in CardType, Acquired(type),
         card' \in CardRec, Sane(card'), Same(card'),
         card'.mode # "off" => type = card'.kind /\ card'.crc = UseCrc
  PROVE  IInv'
<1>1. FirstCommand(call) \in Using /\ call' = call /\ call.kind \in {"size", "read", "write"}
  BY First, Given DEF Acquired, Phased
<1>2. cardType' = type /\ cardType' # None /\ found' = None /\ Command(FirstCommand(call))
  BY Commands DEF Acquired
<1>3. at'.cmd \in Using /\ at' = [cmd |-> at'.cmd, phase |-> at'.phase] /\ at'.phase \in Phases
  BY <1>1, <1>2 DEF Command, Phases
<1>4. Phased' /\ FoundSoFar'
  BY <1>1, <1>2, <1>3 DEF Phased, FoundSoFar
<1>5. CardKnown'
  BY <1>2 DEF CardKnown
<1>6. TypesOK'
  BY <1>2 DEF TypesOK, CardOK, CardRec
<1> QED BY <1>4, <1>5, <1>6 DEF IInv

\* Where a call stands.
LEMMA Standing ==
  ASSUME IInv, ~ Idle
  PROVE  /\ at = [cmd |-> at.cmd, phase |-> at.phase] /\ at.phase \in Phases
         /\ \/ cardType = None /\ at.cmd \in Acquiring /\ at.phase \in {"wait", "send", "answer"}
            \/ cardType # None /\ at.cmd \in Using
         /\ call.kind \in {"size", "read", "write"}
<1>1. Phased
  BY Given
<1>2. CASE cardType = None /\ at \in [cmd : Acquiring, phase : {"wait", "send", "answer"}]
  BY <1>1, <1>2 DEF Phased, Phases
<1>3. CASE cardType # None /\ at \in [cmd : Using, phase : Phases]
  BY <1>1, <1>3 DEF Phased
<1> QED BY <1>1, <1>2, <1>3 DEF Phased

LEMMA Busy == ASSUME IInv, at.phase # "idle" PROVE ~ Idle
BY DEF Idle, Resting

\* A call that returns, in this way or that.
LEMMA Returned ==
  ASSUME IInv, NEW r, Return(r) \/ End(r), card' \in CardRec, Sane(card'), Same(card')
  PROVE  IInv'
BY Ended DEF Return, End

\* Delay, with a card that may have moved.
LEMMA Delayed ==
  ASSUME IInv, ~ Idle, NEW r, Delay(r), card' \in CardRec, Sane(card'), Same(card'),
         Quiet(card) => Quiet(card'), card'.out = card.out \/ card'.out = NoAnswer
  PROVE  IInv'
<1>1. CASE Return(r)
  BY <1>1, Returned
<1>2. CASE UNCHANGED <<at, cardType, locals>>
  <2>1. UNCHANGED <<cardType, found, call>> /\ at' = at
    BY <1>2 DEF locals
  <2>2. at' = [cmd |-> at.cmd, phase |-> at.phase] /\ at.phase \in Phases
        /\ (cardType # None \/ at.phase \in {"wait", "send"} \/ at.phase = "answer")
    BY <2>1, Standing
  <2> QED BY <2>1, <2>2, GoesOnWith
<1> QED BY <1>1, <1>2 DEF Delay

\* Another round, of a loop around the commands of acquire.
LEMMA Repeated ==
  ASSUME IInv, ~ Idle, cardType = None, NEW cmd \in Acquiring, Again(cmd),
         card' \in CardRec, Sane(card'), Same(card'), card'.mode # "off" => Known(cmd, card', found)
  PROVE  IInv'
<1>1. CASE Return("error")
  BY <1>1, Returned
<1>2. CASE Command(cmd) /\ UNCHANGED <<cardType, locals>>
  <2>1. UNCHANGED <<cardType, found, call>>
    BY <1>2 DEF locals
  <2> QED BY <1>2, <2>1, Standing, Given, GoesOnTo
<1> QED BY <1>1, <1>2 DEF Again

LEMMA CommandChanged ==
  ASSUME IInv, ~ Idle, cardType # None, NEW cmd \in Using, Command(cmd),
         UNCHANGED <<cardType, found, call>>, card' \in CardRec, Sane(card'), Same(card')
  PROVE  IInv'
BY Standing, Given, GoesOnTo

-----------------------------------------------------------------------------
(* Steps *)

\* wait_not_busy.
LEMMA WaitStep == ASSUME IInv, Wait PROVE IInv'
<1>1. PICK p \in Poll :
        /\ card' = p.card
        /\ IF p.byte # "FF" THEN Delay("error")
           ELSE Waited /\ UNCHANGED <<cardType, locals, outer, ret>>
  BY DEF Wait
<1>2. ~ Idle /\ at.phase \in {"wait", "pause"}
  BY Busy DEF Wait
<1>3. /\ card' \in CardRec /\ Sane(card') /\ Same(card') /\ (Quiet(card) => Quiet(card'))
      /\ card'.out = card.out \/ card'.out = NoAnswer
  BY <1>1, Given, Polled
<1>4. CASE Delay("error")
  BY <1>2, <1>3, <1>4, Delayed
<1>5. ASSUME NEW phase \in {"send", "stop", "block"}, phase = "send" \/ at.phase = "pause",
             Phase(phase), UNCHANGED <<cardType, locals>>
      PROVE  IInv'
  <2>1. at' = [cmd |-> at.cmd, phase |-> phase] /\ UNCHANGED <<cardType, found, call>>
    BY <1>2, <1>5, Standing DEF Phase, locals
  <2>2. phase \in Phases /\ (cardType # None \/ phase = "send")
    BY <1>2, <1>5, Standing DEF Phases
  <2> QED BY <1>2, <1>3, <2>1, <2>2, GoesOnWith
<1>6. ASSUME NEW cmd \in {"CMD25", "CMD13"}, Command(cmd), at.phase = "pause", UNCHANGED <<cardType, locals>>
      PROVE  IInv'
  <2>1. cardType # None /\ cmd \in Using /\ UNCHANGED <<cardType, found, call>>
    BY <1>2, <1>6, Standing DEF Using, locals
  <2> QED BY <1>2, <1>3, <1>6, <2>1, CommandChanged
<1>7. ASSUME Waited, UNCHANGED <<cardType, locals>> PROVE IInv'
  BY <1>5, <1>6, <1>7 DEF Waited
<1> QED BY <1>1, <1>4, <1>7

\* A frame is written: what the card answers to it is known.
LEMMA SendStep == ASSUME IInv, Send PROVE IInv'
<1>1. ~ Idle /\ at.phase = "send"
  BY Busy DEF Send
<1>2. /\ at' = [cmd |-> at.cmd, phase |-> "answer"] /\ UNCHANGED <<cardType, found, call>>
      /\ at.cmd \in Acquiring \cup Using
  BY <1>1, Standing DEF Send, Phase, locals
<1>3. at'.cmd = at.cmd /\ at'.phase = "answer" /\ at' # Resting
  BY <1>2, Commands DEF Resting
<1>4. card \in CardRec /\ Sane(card)
  BY Given
<1>5. Phased'
  BY <1>1, <1>2, <1>3, Standing DEF Phased, Phases
<1>6. CASE Receive(at.cmd, Argument(at.cmd))
  <2> DEFINE arg == Argument(at.cmd)
  <2>1. /\ card' \in CardRec /\ Sane(card') /\ card'.kind = card.kind
        /\ card.mode = "off" /\ at.cmd # "CMD0" => card' = card
        /\ at.cmd = "CMD0" => (card'.out.r1 = "01" => card'.crc = FALSE)
        /\ at.cmd # "CMD0" =>
             /\ card'.mode = card.mode \/ (at.cmd = "ACMD41" /\ card'.mode = "ready")
             /\ at.cmd # "CMD59" => card'.crc = card.crc
        /\ at.cmd # "CMD0" /\ at.cmd \in Acquiring /\ card.mode # "off" /\ Quiet(card) =>
             /\ Quiet(card')
             /\ at.cmd = "CMD59" => card'.crc = TRUE
             /\ at.cmd = "CMD8" => (card'.out.r1 = "05" <=> card'.kind = "SD1")
             /\ at.cmd = "CMD58" => (card'.out.rest = "C0" <=> card'.kind = "SdhcSdxc")
    <3> HIDE DEF arg
    <3>1. Receive(at.cmd, arg)
      BY <1>6 DEF arg
    <3> QED BY <1>2, <1>4, <3>1, Received
  <2>2. FoundSoFar'
    <3> SUFFICES ASSUME cardType = None, card'.mode # "off"
                 PROVE  Known(at.cmd, card', found) /\ Tells(at.cmd, card')
      BY <1>2, <1>3 DEF FoundSoFar
    <3>1. CASE at.cmd = "CMD0"
      BY <2>1, <3>1 DEF Known, Tells
    <3>2. CASE at.cmd # "CMD0"
      <4>1. card.mode # "off" /\ at.cmd \in Acquiring
        BY <1>1, <2>1, <3>2, Standing
      <4>2. Known(at.cmd, card, found)
        BY <1>1, <4>1 DEF IInv, FoundSoFar
      <4>3. Quiet(card)
        BY <3>2, <4>2 DEF Known
      <4> QED BY <2>1, <3>2, <4>1, <4>2, <4>3 DEF Known, Tells
    <3> QED BY <3>1, <3>2
  <2>3. CardKnown'
    <3>1. cardType # None => at.cmd \in Using /\ at.cmd \notin {"CMD0", "ACMD41", "CMD59"}
      BY <1>1, Standing DEF Using
    <3> QED BY <1>2, <2>1, <3>1, Given DEF CardKnown
  <2>4. TypesOK'
    BY <1>2, <2>1, Given DEF TypesOK, CardOK, CardRec
  <2> QED BY <1>5, <2>1, <2>2, <2>3, <2>4 DEF IInv
<1>7. CASE card' = Garbled
  <2>1. /\ card' \in CardRec /\ Sane(card') /\ Same(card')
        /\ Quiet(card) => Quiet(card') /\ card'.out = NoAnswer
        /\ card'.out = NoAnswer \/ card.mode = "ready"
    BY <1>4, <1>7, Lost
  <2>2. FoundSoFar'
    <3> SUFFICES ASSUME cardType = None, card'.mode # "off"
                 PROVE  /\ Known(at.cmd, card', found)
                        /\ card'.out # NoAnswer => Tells(at.cmd, card')
      BY <1>2, <1>3 DEF FoundSoFar
    <3>1. CASE at.cmd = "CMD0"
      BY <2>1, <3>1 DEF Known, Tells, Sane, Same
    <3>2. CASE at.cmd # "CMD0"
      <4>1. Known(at.cmd, card, found)
        BY <1>1, <2>1 DEF IInv, FoundSoFar, Same
      <4> QED BY <2>1, <3>2, <4>1 DEF Known, Tells, Same
    <3> QED BY <3>1, <3>2
  <2>3. CardKnown' /\ TypesOK'
    BY <1>2, <2>1, Given DEF CardKnown, Same, TypesOK, CardOK, CardRec
  <2> QED BY <1>5, <2>1, <2>2, <2>3 DEF IInv
<1> QED BY <1>6, <1>7 DEF Send

\* A response while a card is acquired: it is to the command that was sent, and
\* the card has not been put in since.
LEMMA Told ==
  ASSUME IInv, ~ Idle, cardType = None, at.phase = "answer", NEW p \in Poll, p.byte # "FF"
  PROVE  /\ card.mode # "off" /\ Known(at.cmd, card, found)
         /\ at.cmd # "CMD0" \/ p.byte = "01" => Quiet(p.card) /\ Tells(at.cmd, card)
         /\ at.cmd # "CMD0" => p.byte = card.out.r1 /\ p.rest = card.out.rest
<1>1. /\ card.mode = "off" => p.byte = "FF"
      /\ p.byte = "01" => card.out.r1 = "01"
      /\ Quiet(card) => /\ Quiet(p.card)
                        /\ p.byte = "FF" \/ (p.byte = card.out.r1 /\ p.rest = card.out.rest)
  BY Given, Polled
<1>2. Known(at.cmd, card, found) /\ (card.out # NoAnswer => Tells(at.cmd, card))
  BY <1>1 DEF IInv, FoundSoFar
<1>3. at.cmd # "CMD0" \/ p.byte = "01" => Quiet(card)
  BY <1>1, <1>2, Given DEF Known, Sane
<1>4. Quiet(card) => card.out # NoAnswer
  BY <1>1 DEF NoAnswer
<1> QED BY <1>1, <1>2, <1>3, <1>4

\* The responses to the commands of acquire.
LEMMA AcquireAnswered ==
  ASSUME IInv, ~ Idle, cardType = None, at.phase = "answer", NEW p \in Poll, p.byte # "FF",
         card' = p.card, Answered(p.byte, p.rest)
  PROVE  IInv'
<1> DEFINE r1 == p.byte
           rest == p.rest
<1>1. /\ card' \in CardRec /\ Sane(card') /\ Same(card')
      /\ card.kind \in CardType /\ card.crc \in BOOLEAN
  BY Given, Polled DEF CardRec
<1>2. /\ card.mode # "off" /\ Known(at.cmd, card, found)
      /\ at.cmd # "CMD0" \/ r1 = "01" => Quiet(card') /\ Tells(at.cmd, card)
      /\ at.cmd # "CMD0" => r1 = card.out.r1 /\ rest = card.out.rest
  BY Told
<1>3. at.cmd \in Acquiring /\ call.kind \in {"size", "read", "write"}
  BY Standing
<1>4. Answered(r1, rest)
  OBVIOUS
<1> HIDE DEF r1, rest
<1>5. CASE at.cmd = "CMD0"
  <2>1. IF r1 = "01" THEN Proceed(IF UseCrc THEN "CMD59" ELSE "CMD8") ELSE Again("CMD0")
    BY <1>4, <1>5 DEF Answered
  <2>2. CASE r1 # "01"
    BY <1>1, <1>3, <1>5, <2>1, <2>2, Repeated DEF Known
  <2>3. CASE r1 = "01"
    <3>1. PICK cmd \in {"CMD59", "CMD8"} : Proceed(cmd) /\ (cmd = "CMD59" <=> UseCrc)
      BY <2>1, <2>3
    <3>2. r1 = card.out.r1
      BY <2>3, Given, Polled DEF r1
    <3>3. card.crc = FALSE /\ Quiet(card')
      BY <1>2, <1>5, <2>3, <3>2 DEF Tells
    <3>4. Known(cmd, card', found)
      BY <1>1, <3>1, <3>3, SizeAssumption DEF Known, Same
    <3>5. Command(cmd) /\ UNCHANGED <<cardType, found, call>> /\ cmd \in Acquiring
      BY <3>1 DEF Proceed, locals, Acquiring
    <3> QED BY <1>1, <1>3, <3>4, <3>5, Given, GoesOnTo
  <2> QED BY <2>2, <2>3
<1>6. CASE at.cmd = "CMD59"
  <2>1. Proceed("CMD8") \/ Return("error")
    BY <1>4, <1>6 DEF Answered
  <2>2. Known("CMD8", card', found)
    BY <1>1, <1>2, <1>6 DEF Known, Tells, Same
  <2>3. CASE Proceed("CMD8")
    <3>1. Command("CMD8") /\ UNCHANGED <<cardType, found, call>> /\ "CMD8" \in Acquiring
      BY <2>3 DEF Proceed, locals, Acquiring
    <3> QED BY <1>1, <1>3, <2>2, <3>1, Given, GoesOnTo
  <2> QED BY <1>1, <2>1, <2>3, Returned
<1>7. CASE at.cmd = "CMD8"
  <2>1. \/ /\ found' = IF r1 = "05" THEN "SD1" ELSE "SD2"
           /\ Command("CMD55") /\ UNCHANGED <<cardType, call>>
        \/ Again("CMD8")
    BY <1>4, <1>7 DEF Answered
  <2>2. Known("CMD8", card', found)
    BY <1>1, <1>2, <1>7 DEF Known, Same
  <2>3. CASE Again("CMD8")
    BY <1>1, <1>3, <1>7, <2>2, <2>3, Repeated
  <2>4. CASE /\ found' = IF r1 = "05" THEN "SD1" ELSE "SD2"
             /\ Command("CMD55") /\ UNCHANGED <<cardType, call>>
    <3>1. r1 = "05" <=> card.kind = "SD1"
      BY <1>2, <1>7 DEF Tells
    <3>2. Known("CMD55", card', found')
      BY <1>1, <1>2, <1>7, <2>4, <3>1 DEF Known, Same
    <3>3. found' \in CardType \cup {None} /\ "CMD55" \in Acquiring
      BY <2>4 DEF CardType, Acquiring
    <3> QED BY <1>1, <1>3, <2>4, <3>2, <3>3, GoesOnTo
  <2> QED BY <2>1, <2>3, <2>4
<1>8. CASE at.cmd = "CMD55"
  <2>1. Command("ACMD41") /\ UNCHANGED <<cardType, found, call>>
    BY <1>4, <1>8 DEF Answered, locals
  <2>2. Known("ACMD41", card', found) /\ "ACMD41" \in Acquiring
    BY <1>1, <1>2, <1>8 DEF Known, Same, Acquiring
  <2> QED BY <1>1, <1>3, <2>1, <2>2, Given, GoesOnTo
<1>9. CASE at.cmd = "ACMD41"
  <2>1. \/ Again("CMD55")
        \/ found = "SD2" /\ Proceed("CMD58")
        \/ found # "SD2" /\ Acquired(found)
    BY <1>4, <1>9 DEF Answered
  <2>2. Known("CMD55", card', found) /\ "CMD55" \in Acquiring
    BY <1>1, <1>2, <1>9 DEF Known, Same, Acquiring
  <2>3. CASE Again("CMD55")
    BY <1>1, <2>2, <2>3, Repeated
  <2>4. CASE found = "SD2" /\ Proceed("CMD58")
    <3>1. Command("CMD58") /\ UNCHANGED <<cardType, found, call>> /\ "CMD58" \in Acquiring
      BY <2>4 DEF Proceed, locals, Acquiring
    <3>2. Known("CMD58", card', found)
      BY <1>1, <1>2, <1>9, <2>4 DEF Known, Same
    <3> QED BY <1>1, <1>3, <3>1, <3>2, Given, GoesOnTo
  <2>5. CASE found # "SD2" /\ Acquired(found)
    <3>1. found = "SD1" /\ card.kind = "SD1" /\ card.crc = UseCrc
      BY <1>2, <1>9, <2>5 DEF Known
    <3>2. found \in CardType /\ found = card'.kind /\ card'.crc = UseCrc
      BY <1>1, <3>1 DEF CardType, Same
    <3> QED BY <1>1, <2>5, <3>2, AcquiredStep
  <2> QED BY <2>1, <2>3, <2>4, <2>5
<1>10. CASE at.cmd = "CMD58"
  <2>1. Return("error") \/ Acquired(IF rest = "C0" THEN "SdhcSdxc" ELSE found)
    BY <1>4, <1>10 DEF Answered
  <2> DEFINE type == IF rest = "C0" THEN "SdhcSdxc" ELSE found
  <2>2. rest = "C0" <=> card.kind = "SdhcSdxc"
    BY <1>2, <1>10 DEF Tells
  <2>3. found = "SD2" /\ card.kind # "SD1" /\ card.crc = UseCrc
    BY <1>2, <1>10 DEF Known
  <2>4. type \in CardType /\ type = card'.kind /\ card'.crc = UseCrc
    BY <1>1, <2>2, <2>3 DEF CardType, Same
  <2>5. Return("error") \/ Acquired(type)
    BY <2>1
  <2> HIDE DEF type
  <2>6. CASE Acquired(type)
    BY <1>1, <2>4, <2>6, AcquiredStep
  <2> QED BY <1>1, <2>5, <2>6, Returned
<1> QED BY <1>3, <1>5, <1>6, <1>7, <1>8, <1>9, <1>10 DEF Acquiring

\* A call goes on with a card that it knows: with another phase of a command, or
\* with another command.
LEMMA PhaseChanged ==
  ASSUME IInv, ~ Idle, cardType # None, NEW phase \in Phases, Phase(phase),
         UNCHANGED <<cardType, found, call>>, card' \in CardRec, Sane(card'), Same(card')
  PROVE  IInv'
<1>1. at' = [cmd |-> at.cmd, phase |-> phase] /\ at.cmd \in Using
  BY Standing DEF Phase
<1>2. at'.cmd = at.cmd /\ at'.phase = phase /\ at' # Resting
  BY <1>1, Commands DEF Resting
<1>3. Phased' /\ FoundSoFar'
  BY <1>1, <1>2, Standing DEF Phased, FoundSoFar
<1>4. CardKnown' /\ TypesOK'
  BY Given DEF CardKnown, Same, TypesOK, CardOK, CardRec
<1> QED BY <1>3, <1>4 DEF IInv

\* The responses to the other commands.
LEMMA UseAnswered ==
  ASSUME IInv, ~ Idle, cardType # None, NEW r1, NEW rest,
         Answered(r1, rest), card' \in CardRec, Sane(card'), Same(card')
  PROVE  IInv'
<1>1. at.cmd \in Using
  BY Standing
<1>2. CASE \E r : Return(r)
  BY <1>2, Returned
<1>3. CASE \E phase \in Phases : Phase(phase) /\ UNCHANGED <<cardType, locals>>
  BY <1>3, PhaseChanged DEF locals
<1>4. CASE \E cmd \in Using : Command(cmd) /\ UNCHANGED <<cardType, locals>>
  BY <1>4, CommandChanged DEF locals
<1>5. CASE at.cmd = "CMD55"
  <2>1. Command("ACMD23") /\ UNCHANGED <<cardType, locals>> /\ "ACMD23" \in Using
    BY <1>5 DEF Answered, Using
  <2> QED BY <1>4, <2>1
<1>6. CASE at.cmd = "CMD9"
  <2>1. Return("error") \/ (Phase("data") /\ UNCHANGED <<cardType, locals>> /\ "data" \in Phases)
    BY <1>6 DEF Answered, Phases
  <2> QED BY <1>2, <1>3, <2>1
<1>7. CASE at.cmd \in {"CMD17", "CMD18"}
  <2>1. Phase("data") /\ UNCHANGED <<cardType, locals>> /\ "data" \in Phases
    BY <1>7 DEF Answered, Phases
  <2> QED BY <1>3, <2>1
<1>8. CASE at.cmd \in {"CMD12", "CMD13"}
  <2>1. \E r : Return(r)
    BY <1>8 DEF Answered
  <2> QED BY <1>2, <2>1
<1>9. CASE at.cmd = "ACMD23"
  <2>1. Phase("pause") /\ UNCHANGED <<cardType, locals>> /\ "pause" \in Phases
    BY <1>9 DEF Answered, Phases
  <2> QED BY <1>3, <2>1
<1>10. CASE at.cmd \in {"CMD24", "CMD25"}
  <2>1. /\ Phase(IF at.cmd = "CMD24" THEN "block" ELSE "pause")
        /\ UNCHANGED <<cardType, locals>> /\ {"block", "pause"} \subseteq Phases
    BY <1>10 DEF Answered, Phases
  <2> QED BY <1>3, <2>1
<1> QED BY <1>1, <1>5, <1>6, <1>7, <1>8, <1>9, <1>10 DEF Using

\* A response is polled for, and comes or does not.
LEMMA AnswerStep == ASSUME IInv, Answer PROVE IInv'
<1>1. ~ Idle /\ at.phase = "answer"
  BY Busy DEF Answer
<1>2. PICK p \in Poll :
        IF IsResponse(p.byte) THEN card' = p.card /\ Answered(p.byte, p.rest)
        ELSE IF at.cmd = "CMD0" /\ left = 0
        THEN card' = [p.card EXCEPT !.out = NoAnswer] /\ Again("CMD0")
        ELSE card' = p.card /\ Delay("error")
  BY DEF Answer
<1>3. /\ p.card \in CardRec /\ Sane(p.card) /\ Same(p.card) /\ (Quiet(card) => Quiet(p.card))
      /\ p.card.out = card.out \/ p.card.out = NoAnswer
  BY Given, Polled
<1>4. CASE card' = p.card /\ Answered(p.byte, p.rest) /\ p.byte # "FF"
  BY <1>1, <1>3, <1>4, AcquireAnswered, UseAnswered
<1>5. CASE card' = [p.card EXCEPT !.out = NoAnswer] /\ Again("CMD0") /\ at.cmd = "CMD0"
  <2>1. card' \in CardRec /\ Sane(card') /\ card'.kind = p.card.kind
        /\ card'.mode = p.card.mode /\ card'.crc = p.card.crc
    BY <1>3, <1>5, Emptied
  <2>2. cardType = None /\ "CMD0" \in Acquiring /\ Known("CMD0", card', found)
    BY <1>1, <1>5, Standing DEF Using, Acquiring, Known
  <2> QED BY <1>1, <1>3, <1>5, <2>1, <2>2, Repeated DEF Same
<1>6. CASE card' = p.card /\ Delay("error")
  BY <1>1, <1>3, <1>6, Delayed
<1> QED BY <1>2, <1>4, <1>5, <1>6 DEF IsResponse

\* A block arrives, or something in its place.
LEMMA ReadDataStep == ASSUME IInv, ReadData PROVE IInv'
<1>1. ~ Idle /\ cardType # None
  BY Busy, Standing DEF ReadData
<1>2. CASE UNCHANGED card /\ Delay("error")
  BY <1>1, <1>2, Given, Delayed DEF Same
<1>3. ASSUME card' = SentBlock, NEW block, Arrived(block) PROVE IInv'
  <2>1. card' \in CardRec /\ Sane(card') /\ Same(card')
    BY <1>3, Given, BlockSent DEF SentBlock
  <2>2. CASE End("ok")
    BY <2>1, <2>2, Returned
  <2>3. CASE UNCHANGED <<at, cardType, found, call>>
    <3>1. at' = [cmd |-> at.cmd, phase |-> at.phase] /\ at.phase \in Phases
      BY <1>1, <2>3, Standing
    <3>2. at'.cmd = at.cmd /\ at.cmd \in Using /\ at' # Resting
      BY <1>1, <2>3, Standing DEF Idle
    <3>3. Phased' /\ FoundSoFar'
      BY <1>1, <2>3, <3>1, <3>2, Standing DEF Phased, FoundSoFar
    <3>4. CardKnown' /\ TypesOK'
      BY <2>1, <2>3, Given DEF CardKnown, Same, TypesOK, CardOK, CardRec
    <3> QED BY <2>1, <3>3, <3>4 DEF IInv
  <2>4. CASE Command("CMD12") /\ UNCHANGED <<cardType, found, call>>
    BY <1>1, <2>1, <2>4, CommandChanged DEF Using
  <2> QED BY <1>3, <2>2, <2>3, <2>4 DEF Arrived
<1>4. CASE card' = SentBlock /\ Return("error")
  BY <1>4, Given, BlockSent, Returned DEF SentBlock
<1>5. CASE card' = SentBlock /\ Damaged
  BY <1>3, <1>4, <1>5 DEF Damaged
<1> QED BY <1>2, <1>3, <1>4, <1>5 DEF ReadData

\* A block is taken, or not.
LEMMA WriteDataStep == ASSUME IInv, WriteData PROVE IInv'
<1>1. ~ Idle /\ cardType # None
  BY Busy, Standing DEF WriteData
<1>2. CASE Takes /\ Program /\ Accepted
  <2> DEFINE k == AfterBlock("receiveMany")
  <2>1. k \in CardRec /\ Sane(k) /\ Same(k) /\ k.out = card.out
    BY Given, BlockSent
  <2>2. card.mode = "ready"
    BY <1>2, Given DEF Takes, Sane, Quiet, None
  <2>3. card' = [k EXCEPT !.busy = TRUE] \/ card' = [[k EXCEPT !.busy = TRUE] EXCEPT !.failed = TRUE]
    BY <1>2 DEF Program, TookBlock
  <2> HIDE DEF k
  <2>4. card' \in CardRec /\ Same(card') /\ card'.out = k.out
    BY <2>1, <2>3 DEF CardRec, Same
  <2>5. Sane(card')
    BY <2>1, <2>2, <2>4 DEF Sane, Same, NoAnswer
  <2>6. Phase("pause") /\ UNCHANGED <<cardType, found, call>>
    BY <1>2 DEF Accepted
  <2> QED BY <1>1, <2>4, <2>5, <2>6, PhaseChanged DEF Phases
<1>3. CASE Return("error") /\ UNCHANGED card
  BY <1>3, Given, Returned DEF Same
<1> QED BY <1>2, <1>3 DEF WriteData

\* The end of a write of several blocks.
LEMMA StopTranStep == ASSUME IInv, StopTran PROVE IInv'
<1>1. CASE card.task = "receiveMany"
  <2>1. card' = [card EXCEPT !.task = None, !.pos = 0, !.busy = TRUE]
    BY <1>1 DEF StopTran
  <2>2. card.mode = "ready"
    BY <1>1, Given DEF Sane, Quiet, None
  <2>3. card' \in CardRec /\ Same(card') /\ card'.out = card.out
    BY <2>1, Given, Capacious DEF CardRec, Same
  <2>4. Sane(card')
    BY <2>2, <2>3, Given DEF Sane, Same, NoAnswer
  <2> QED BY <2>3, <2>4, Returned DEF StopTran
<1>2. CASE card.task # "receiveMany"
  BY <1>2, Given, Returned DEF StopTran, Same
<1> QED BY <1>1, <1>2

\* A call begins, to acquire the card or, if it is known, to use it.
LEMMA BeginStep ==
  ASSUME IInv, NEW c, c.kind \in {"size", "read", "write"}, Begin(c)
  PROVE  IInv'
<1>1. UNCHANGED <<cardType, card>> /\ found' = None /\ call'.kind \in {"size", "read", "write"}
  BY DEF Begin
<1>2. card' \in CardRec /\ Sane(card') /\ Same(card')
  BY <1>1, Given DEF Same
<1>3. CASE cardType = None
  <2>1. Command("CMD0") /\ "CMD0" \in Acquiring /\ Known("CMD0", card', found')
    BY <1>3 DEF Begin, Acquiring, Known
  <2> QED BY <1>1, <1>2, <1>3, <2>1, GoesOnTo
<1>4. CASE cardType # None
  <2>1. Command(FirstCommand(c)) /\ FirstCommand(c) \in Using
    BY <1>4, First DEF Begin
  <2> QED BY <1>1, <1>2, <1>4, <2>1, GoesOnTo
<1> QED BY <1>3, <1>4

LEMMA CallStep == ASSUME IInv, Call PROVE IInv'
<1>1. CASE Size
  BY <1>1, BeginStep DEF Size
<1>2. CASE MarkCardUninit
  <2>1. at' = Resting /\ cardType' = None /\ UNCHANGED <<card, found>>
    BY <1>2 DEF MarkCardUninit, Idle, locals
  <2>2. Phased' /\ FoundSoFar' /\ CardKnown'
    BY <2>1 DEF Phased, FoundSoFar, Idle, CardKnown
  <2>3. TypesOK' /\ Sane(card')
    BY <2>1, Given DEF TypesOK, CardOK, CardRec
  <2> QED BY <2>2, <2>3 DEF IInv
<1>3. ASSUME NEW start \in BlockIdx, NEW n \in 1 .. MaxCount, ReadBlocks(start, n) PROVE IInv'
  BY <1>3, BeginStep DEF ReadBlocks
<1>4. ASSUME NEW start \in BlockIdx, NEW buffer \in Buffers, WriteBlocks(start, buffer) PROVE IInv'
  BY <1>4, BeginStep DEF WriteBlocks
<1> QED BY <1>1, <1>2, <1>3, <1>4 DEF Call

\* A card put in is off: nothing need be known of it before CMD0 has reached it.
LEMMA ExchangeStep == ASSUME IInv, Exchange PROVE IInv'
<1>1. PICK kind \in CardType : card' = Inserted(kind)
  BY DEF Exchange
<1>2. card' \in CardRec /\ Sane(card') /\ card'.mode = "off"
  BY <1>1, InsertedType
<1>3. UNCHANGED <<cardType, at, found, call>>
  BY DEF Exchange, locals
<1>4. Phased' /\ FoundSoFar' /\ CardKnown'
  BY <1>2, <1>3, Given DEF Phased, Idle, FoundSoFar, CardKnown
<1>5. TypesOK'
  BY <1>2, <1>3, Given DEF TypesOK, CardOK, CardRec
<1> QED BY <1>2, <1>4, <1>5 DEF IInv

-----------------------------------------------------------------------------
(* Theorems *)

LEMMA InitLemma == Init => IInv
<1> SUFFICES ASSUME Init PROVE IInv
  OBVIOUS
<1>1. PICK kind \in CardType : card = Inserted(kind)
  BY DEF Init
<1>2. card \in CardRec /\ Sane(card) /\ card.mode = "off"
  BY <1>1, InsertedType
<1> QED BY <1>2 DEF Init, IInv, TypesOK, CardOK, CardRec, Phased, Idle, FoundSoFar, CardKnown

LEMMA StepLemma == IInv /\ [Next]_vars => IInv'
<1> SUFFICES ASSUME IInv, [Next]_vars PROVE IInv'
  OBVIOUS
<1>1. CASE Advance
  BY <1>1, WaitStep, SendStep, AnswerStep, ReadDataStep, WriteDataStep, StopTranStep DEF Advance
<1>2. CASE Call
  BY <1>2, CallStep
<1>3. CASE TransportError
  BY <1>3, Given, Returned DEF TransportError, Same
<1>4. CASE Exchange
  BY <1>4, ExchangeStep
<1>5. CASE UNCHANGED vars
  BY <1>5 DEF vars, locals, IInv, TypesOK, CardOK, Phased, Idle, FoundSoFar, CardKnown
<1> QED BY <1>1, <1>2, <1>3, <1>4, <1>5 DEF Next

\* What acquire has found so far is true of the card, if no other has been put in,
\* and the answer it reads is the one to the command that it sent: through lost
\* frames, repeated commands and answers that come too late (SdCardInner::acquire,
\* card_command).
THEOREM Invariance == Spec => []IInv
<1>1. Init => IInv
  BY InitLemma
<1>2. IInv /\ [Next]_vars => IInv'
  BY StepLemma
<1> QED BY <1>1, <1>2, PTL DEF Spec

\* The card that the driver takes to be initialised has the type on which the
\* addresses of its blocks depend (SdCardInner::read, write), and checks CRCs if
\* the driver does: whatever the number of retries, the size of the card and the
\* number of faults.
THEOREM KnownThroughout == Spec => []CardKnown
<1>1. IInv => CardKnown
  BY DEF IInv
<1> QED BY <1>1, Invariance, PTL
-----------------------------------------------------------------------------
(* The call under way: an invariant *)

\* A call is for blocks of a card.
CallSound ==
  /\ call.start \in Nat /\ call.count \in Nat /\ call.start + call.count <= Capacity
  /\ call.kind \in {"size", "read", "write"} => call.count > 0
  /\ call.kind = "size" => call.count = 1 /\ call.start = 0
  /\ call.kind = "write" => call.data \in Seq(Int) /\ Len(call.data) = call.count

\* The card is acquired, and the call goes on.
InUse == cardType # None /\ ~ Idle

\* Which command, and which phase of it, serves which call.
Serves(cmd, phase) ==
  /\ cmd = "CMD9" => call.kind = "size"
  /\ cmd \in {"CMD17", "CMD18", "CMD12"} => call.kind = "read" /\ (call.count = 1 <=> cmd = "CMD17")
  /\ cmd \in {"CMD55", "ACMD23", "CMD24", "CMD25", "CMD13"} =>
       call.kind = "write" /\ (call.count = 1 <=> cmd \in {"CMD24", "CMD13"})
  /\ phase = "data" => cmd \in {"CMD9", "CMD17", "CMD18"}
  /\ phase = "block" => cmd \in {"CMD24", "CMD25"}
  /\ phase = "pause" => cmd \in {"ACMD23", "CMD24", "CMD25"}
  /\ phase = "stop" => cmd = "CMD25"

\* How many blocks have been read and written then.
Counts(cmd, phase) ==
  /\ cmd \notin {"CMD18", "CMD12"} => got = << >>
  /\ cmd = "CMD18" => Len(got) < call.count /\ (phase # "data" => got = << >>)
  /\ cmd = "CMD12" => Len(got) = call.count
  /\ cmd \notin {"CMD24", "CMD25", "CMD13"} => sent = 0
  /\ cmd = "CMD24" => sent = IF phase = "pause" THEN call.count ELSE 0
  /\ cmd = "CMD13" => sent = call.count
  /\ cmd = "CMD25" => /\ phase \in {"wait", "send", "answer"} => sent = 0
                      /\ phase = "block" => sent < call.count
                      /\ phase = "stop" => sent = call.count

Bounds ==
  /\ left \in 0 .. Retries /\ outer \in 0 .. (AcquireRetries + Retries)
  /\ got \in Seq(Int) /\ Len(got) <= call.count /\ sent \in 0 .. call.count
  /\ store \in [BlockIdx -> Int] /\ faults \in 0 .. MaxFaults

Nothing == got = << >> /\ sent = 0

UInv ==
  /\ CallSound /\ Bounds
  /\ ~ Idle /\ cardType = None => Nothing
  /\ InUse => Serves(at.cmd, at.phase) /\ Counts(at.cmd, at.phase)

-----------------------------------------------------------------------------
(* How calls go on *)

\* The variables that only some steps change.
Steady == store' = store /\ faults' \in 0 .. MaxFaults

LEMMA RetriesType == Retries \in 0 .. Retries /\ Retries \in 0 .. (AcquireRetries + Retries)
                     /\ AcquireRetries \in 0 .. (AcquireRetries + Retries)
                     /\ 0 \in 0 .. Retries /\ 0 \in 0 .. (AcquireRetries + Retries)
BY SizeAssumption

LEMMA Failing == ASSUME UInv, Fails \/ Works PROVE faults' \in 0 .. MaxFaults
BY SizeAssumption DEF UInv, Bounds, Fails, Works

\* A call returns.
LEMMA EndedCall ==
  ASSUME UInv, NEW r, End(r), got' \in Seq(Int),
         r = "ok" => Len(got') <= call.count, r # "ok" => got' = << >>, Steady
  PROVE  UInv'
<1>1. at' = Resting /\ left' = 0 /\ outer' = 0
  BY DEF End
<1>2. CASE r = "ok"
  BY <1>1, <1>2, RetriesType DEF UInv, End, CallSound, Bounds, InUse, Idle, Steady
<1>3. CASE r # "ok"
  <2>1. call' = NoCall /\ sent' = 0 /\ got' = << >>
    BY <1>3 DEF End
  <2> QED BY <1>1, <2>1, RetriesType, SizeAssumption
          DEF UInv, NoCall, CallSound, Bounds, InUse, Idle, Steady
<1> QED BY <1>2, <1>3

LEMMA ReturnedCall ==
  ASSUME UInv, NEW r, Return(r), Steady
  PROVE  UInv'
<1>1. End(r) /\ got' = IF r = "ok" THEN got ELSE << >>
  BY DEF Return
<1>2. got' \in Seq(Int) /\ (r = "ok" => Len(got') <= call.count) /\ (r # "ok" => got' = << >>)
  BY <1>1 DEF UInv, Bounds
<1> QED BY <1>1, <1>2, EndedCall

\* It goes on with a card that it has acquired.
LEMMA NextStage ==
  ASSUME UInv, NEW cmd, NEW phase, at' = [cmd |-> cmd, phase |-> phase], cardType' # None,
         call' = call, got' = got, sent' = sent, Serves(cmd, phase), Counts(cmd, phase),
         left' \in 0 .. Retries, outer' \in 0 .. (AcquireRetries + Retries), Steady
  PROVE  UInv'
<1>1. at'.cmd = cmd /\ at'.phase = phase
  OBVIOUS
<1>2. CallSound' /\ Bounds' /\ Serves(cmd, phase)' /\ Counts(cmd, phase)'
  BY DEF UInv, CallSound, Bounds, Serves, Counts, Steady
<1>3. Serves(at.cmd, at.phase)' /\ Counts(at.cmd, at.phase)'
  BY <1>1, <1>2 DEF Serves, Counts
<1> QED BY <1>2, <1>3 DEF UInv

\* It goes on acquiring it.
LEMMA StillAcquiring ==
  ASSUME UInv, ~ Idle, cardType = None, cardType' = None, call' = call, got' = got, sent' = sent,
         left' \in 0 .. Retries, outer' \in 0 .. (AcquireRetries + Retries), Steady
  PROVE  UInv'
BY DEF UInv, CallSound, Bounds, Nothing, InUse, Steady

\* Nothing happens to the call.
LEMMA SameCall ==
  ASSUME UInv, UNCHANGED <<at, cardType, locals>>, left' \in 0 .. Retries, outer' = outer,
         store' \in [BlockIdx -> Int], faults' \in 0 .. MaxFaults
  PROVE  UInv'
BY DEF UInv, CallSound, Bounds, InUse, Idle, Serves, Counts, Nothing, locals

LEMMA DelayedCall ==
  ASSUME UInv, NEW r, Delay(r), Steady
  PROVE  UInv'
<1>1. CASE Return(r)
  BY <1>1, ReturnedCall
<1>2. CASE left > 0 /\ left' = left - 1 /\ UNCHANGED <<at, outer, cardType, locals, ret>>
  <2>1. left' \in 0 .. Retries
    BY <1>2, SizeAssumption DEF UInv, Bounds
  <2> QED BY <1>2, <2>1, SameCall DEF Steady, UInv, Bounds
<1> QED BY <1>1, <1>2 DEF Delay

LEMMA RepeatedCall ==
  ASSUME UInv, ~ Idle, cardType = None, NEW cmd, Again(cmd), Steady
  PROVE  UInv'
<1>1. CASE Return("error")
  BY <1>1, ReturnedCall
<1>2. CASE outer > 0 /\ outer' = outer - 1 /\ Command(cmd) /\ UNCHANGED <<cardType, locals, ret>>
  <2>1. outer' \in 0 .. (AcquireRetries + Retries) /\ left' \in 0 .. Retries
    BY <1>2, SizeAssumption DEF UInv, Bounds, Command
  <2> QED BY <1>2, <2>1, StillAcquiring DEF locals
<1> QED BY <1>1, <1>2 DEF Again

-----------------------------------------------------------------------------
(* Steps of a call *)

LEMMA Situation ==
  ASSUME IInv, UInv, InUse
  PROVE  /\ at = [cmd |-> at.cmd, phase |-> at.phase] /\ at.cmd \in Using /\ at.phase \in Phases
         /\ Serves(at.cmd, at.phase) /\ Counts(at.cmd, at.phase)
         /\ call.kind \in {"size", "read", "write"} /\ call.count \in Nat \ {0}
<1>1. ~ Idle /\ cardType # None
  BY DEF InUse
<1> QED BY <1>1, Standing DEF UInv, CallSound

\* The same command in another phase, or another command.
LEMMA PhaseOn ==
  ASSUME IInv, UInv, InUse, NEW phase, Phase(phase), UNCHANGED <<cardType, call, got, sent>>, outer' = outer,
         Serves(at.cmd, phase), Counts(at.cmd, phase), Steady
  PROVE  UInv'
<1>1. at' = [cmd |-> at.cmd, phase |-> phase] /\ left' = Retries
  BY Situation DEF Phase
<1>2. cardType' # None
  BY DEF InUse
<1>3. left' \in 0 .. Retries /\ outer' \in 0 .. (AcquireRetries + Retries)
  BY <1>1, RetriesType DEF UInv, Bounds
<1> QED BY <1>1, <1>2, <1>3, NextStage

LEMMA CommandOn ==
  ASSUME UInv, cardType' # None, NEW cmd, Command(cmd), UNCHANGED <<call, got, sent>>,
         outer' \in 0 .. (AcquireRetries + Retries),
         \A phase \in {"wait", "send"} : Serves(cmd, phase) /\ Counts(cmd, phase), Steady
  PROVE  UInv'
<1>1. PICK phase \in {"wait", "send"} : at' = [cmd |-> cmd, phase |-> phase]
  BY DEF Command
<1>2. left' \in 0 .. Retries
  BY RetriesType DEF Command
<1> QED BY <1>1, <1>2, NextStage

\* While the card is acquired.
LEMMA PhaseAcquiring ==
  ASSUME UInv, ~ Idle, cardType = None, NEW phase, Phase(phase),
         UNCHANGED <<cardType, locals, outer>>, Steady
  PROVE  UInv'
BY RetriesType, StillAcquiring DEF Phase, locals, UInv, Bounds

LEMMA WaitCall == ASSUME IInv, UInv, Wait PROVE UInv'
<1>1. Steady /\ ~ Idle
  BY Busy DEF Wait, Steady, Works, UInv, Bounds
<1>2. CASE Delay("error")
  BY <1>1, <1>2, DelayedCall
<1>3. ASSUME Waited, UNCHANGED <<cardType, locals, outer, ret>>
      PROVE  UInv'
  <2>1. CASE cardType = None
    <3>1. Phase("send")
      BY <1>1, <1>3, <2>1, Standing DEF Waited
    <3> QED BY <1>1, <1>3, <2>1, <3>1, PhaseAcquiring
  <2>2. CASE cardType # None /\ at.phase = "wait"
    <3>1. InUse /\ Phase("send")
      BY <1>1, <1>3, <2>2 DEF InUse, Waited
    <3>2. Serves(at.cmd, "send") /\ Counts(at.cmd, "send")
      BY <2>2, <3>1, Situation DEF Serves, Counts
    <3> QED BY <1>1, <1>3, <3>1, <3>2, PhaseOn DEF locals
  <2>3. CASE cardType # None /\ at.phase = "pause" /\ at.cmd = "CMD25"
    <3> DEFINE phase == IF sent = call.count THEN "stop" ELSE "block"
    <3>1. InUse /\ Phase(phase)
      BY <1>1, <1>3, <2>3 DEF InUse, Waited
    <3>2. Serves(at.cmd, "pause") /\ Counts(at.cmd, "pause")
      BY <2>3, <3>1, Situation
    <3>3. Serves(at.cmd, phase) /\ Counts(at.cmd, phase)
      BY <2>3, <3>2 DEF Serves, Counts, UInv, Bounds, CallSound
    <3> HIDE DEF phase
    <3> QED BY <1>1, <1>3, <3>1, <3>3, PhaseOn DEF locals
  <2>4. CASE cardType # None /\ at.phase = "pause" /\ at.cmd = "ACMD23"
    <3>1. InUse /\ Command("CMD25")
      BY <1>1, <1>3, <2>4 DEF InUse, Waited
    <3>2. Serves("ACMD23", "pause") /\ Counts("ACMD23", "pause")
      BY <2>4, <3>1, Situation
    <3>3. \A phase \in {"wait", "send"} : Serves("CMD25", phase) /\ Counts("CMD25", phase)
      BY <3>2 DEF Serves, Counts
    <3> QED BY <1>1, <1>3, <2>4, <3>1, <3>3, CommandOn DEF locals, UInv, Bounds
  <2>5. CASE cardType # None /\ at.phase = "pause" /\ at.cmd = "CMD24"
    <3>1. InUse /\ Command("CMD13")
      BY <1>1, <1>3, <2>5 DEF InUse, Waited
    <3>2. Serves("CMD24", "pause") /\ Counts("CMD24", "pause")
      BY <2>5, <3>1, Situation
    <3>3. \A phase \in {"wait", "send"} : Serves("CMD13", phase) /\ Counts("CMD13", phase)
      BY <3>2 DEF Serves, Counts
    <3> QED BY <1>1, <1>3, <2>5, <3>1, <3>3, CommandOn DEF locals, UInv, Bounds
  <2> QED BY <1>3, <2>1, <2>2, <2>3, <2>4, <2>5 DEF Waited
<1> QED BY <1>2, <1>3 DEF Wait

LEMMA SendCall == ASSUME IInv, UInv, Send PROVE UInv'
<1>1. Steady /\ ~ Idle
  BY Busy, Failing DEF Send, Steady
<1>2. Phase("answer") /\ UNCHANGED <<cardType, locals, outer, ret>> /\ at.phase = "send"
  BY DEF Send
<1>3. CASE cardType = None
  BY <1>1, <1>2, <1>3, PhaseAcquiring
<1>4. CASE cardType # None
  <2>1. InUse
    BY <1>1, <1>4 DEF InUse
  <2>2. Serves(at.cmd, "answer") /\ Counts(at.cmd, "answer")
    BY <1>2, <2>1, Situation DEF Serves, Counts
  <2> QED BY <1>1, <1>2, <2>1, <2>2, PhaseOn DEF locals
<1> QED BY <1>3, <1>4

\* What the first command of a call serves.
LEMMA FirstServes ==
  ASSUME CallSound, call.kind \in {"size", "read", "write"}, Nothing, NEW phase \in {"wait", "send"}
  PROVE  Serves(FirstCommand(call), phase) /\ Counts(FirstCommand(call), phase)
BY DEF CallSound, FirstCommand, Serves, Counts, Nothing

LEMMA AcquiredCall ==
  ASSUME IInv, UInv, ~ Idle, cardType = None, NEW type \in CardType, Acquired(type), Steady
  PROVE  UInv'
<1>1. CallSound /\ Nothing /\ call.kind \in {"size", "read", "write"}
  BY Standing DEF UInv
<1>2. \A phase \in {"wait", "send"} : Serves(FirstCommand(call), phase) /\ Counts(FirstCommand(call), phase)
  BY <1>1, FirstServes
<1>3. cardType' # None /\ outer' = 0 /\ Command(FirstCommand(call)) /\ UNCHANGED <<call, got, sent>>
  BY Commands DEF Acquired
<1> HIDE DEF Steady
<1> QED BY <1>2, <1>3, RetriesType, CommandOn

LEMMA AcquireAnsweredCall ==
  ASSUME IInv, UInv, ~ Idle, cardType = None, NEW r1, NEW rest, Answered(r1, rest), Steady,
         at.cmd \in {"ACMD41", "CMD58"} => found \in CardType
  PROVE  UInv'
<1>1. at.cmd \in Acquiring
  BY Standing
<1>2. CASE \E r : Return(r)
  BY <1>2, ReturnedCall
<1>3. CASE \E cmd : Again(cmd)
  BY <1>3, RepeatedCall
<1>4. ASSUME NEW cmd, Command(cmd), UNCHANGED <<cardType, call, got, sent>>, outer' \in {Retries, outer}
      PROVE  UInv'
  BY <1>4, StillAcquiring, RetriesType DEF Command, UInv, Bounds
<1>5. CASE \E cmd : Proceed(cmd)
  BY <1>4, <1>5 DEF Proceed, locals
<1>6. CASE \E type \in CardType : Acquired(type)
  BY <1>6, AcquiredCall
<1>7. CASE at.cmd = "CMD0"
  BY <1>3, <1>5, <1>7 DEF Answered
<1>8. CASE at.cmd = "CMD59"
  BY <1>2, <1>5, <1>8 DEF Answered
<1>9. CASE at.cmd = "CMD8"
  BY <1>3, <1>4, <1>9 DEF Answered
<1>10. CASE at.cmd = "CMD55"
  BY <1>4, <1>10 DEF Answered, locals
<1>11. CASE at.cmd = "ACMD41"
  BY <1>3, <1>5, <1>6, <1>11 DEF Answered
<1>12. CASE at.cmd = "CMD58"
  <2>1. {"SdhcSdxc", found} \subseteq CardType
    BY <1>12 DEF CardType
  <2>2. Return("error") \/ Acquired(IF rest = "C0" THEN "SdhcSdxc" ELSE found)
    BY <1>12 DEF Answered
  <2> QED BY <1>2, <1>6, <2>1, <2>2
<1> QED BY <1>1, <1>7, <1>8, <1>9, <1>10, <1>11, <1>12 DEF Acquiring

LEMMA UseAnsweredCall ==
  ASSUME IInv, UInv, InUse, at.phase = "answer", NEW r1, NEW rest, Answered(r1, rest), Steady
  PROVE  UInv'
<1>1. at.cmd \in Using /\ Serves(at.cmd, "answer") /\ Counts(at.cmd, "answer") /\ cardType # None
  BY Situation DEF InUse
<1>2. CASE \E r : Return(r)
  BY <1>2, ReturnedCall
<1>3. ASSUME NEW phase, Phase(phase), Serves(at.cmd, phase), Counts(at.cmd, phase),
             UNCHANGED <<cardType, locals, outer>>
      PROVE  UInv'
  BY <1>3, PhaseOn DEF locals
<1>4. ASSUME NEW cmd, Command(cmd), UNCHANGED <<cardType, locals, outer>>,
             \A phase \in {"wait", "send"} : Serves(cmd, phase) /\ Counts(cmd, phase)
      PROVE  UInv'
  BY <1>1, <1>4, CommandOn DEF locals, UInv, Bounds
<1>5. CASE at.cmd = "CMD55"
  <2>1. Command("ACMD23") /\ UNCHANGED <<cardType, locals, outer>>
    BY <1>1, <1>5 DEF Answered
  <2>2. \A phase \in {"wait", "send"} : Serves("ACMD23", phase) /\ Counts("ACMD23", phase)
    BY <1>1, <1>5 DEF Serves, Counts
  <2> QED BY <1>4, <2>1, <2>2
<1>6. CASE at.cmd = "CMD9"
  <2>1. Return("error") \/ (Phase("data") /\ UNCHANGED <<cardType, locals, outer>>)
    BY <1>6 DEF Answered
  <2>2. Serves("CMD9", "data") /\ Counts("CMD9", "data")
    BY <1>1, <1>6 DEF Serves, Counts
  <2> QED BY <1>2, <1>3, <1>6, <2>1, <2>2
<1>7. CASE at.cmd \in {"CMD17", "CMD18"}
  <2>1. Phase("data") /\ UNCHANGED <<cardType, locals, outer>>
    BY <1>7 DEF Answered
  <2>2. Serves(at.cmd, "data") /\ Counts(at.cmd, "data")
    BY <1>1, <1>7 DEF Serves, Counts
  <2> QED BY <1>3, <2>1, <2>2
<1>8. CASE at.cmd \in {"CMD12", "CMD13"}
  BY <1>2, <1>8 DEF Answered
<1>9. CASE at.cmd = "ACMD23"
  <2>1. Phase("pause") /\ UNCHANGED <<cardType, locals, outer>>
    BY <1>9 DEF Answered
  <2>2. Serves("ACMD23", "pause") /\ Counts("ACMD23", "pause")
    BY <1>1, <1>9 DEF Serves, Counts
  <2> QED BY <1>3, <1>9, <2>1, <2>2
<1>10. CASE at.cmd = "CMD24"
  <2>1. Phase("block") /\ UNCHANGED <<cardType, locals, outer>>
    BY <1>10 DEF Answered
  <2>2. Serves("CMD24", "block") /\ Counts("CMD24", "block")
    BY <1>1, <1>10 DEF Serves, Counts
  <2> QED BY <1>3, <1>10, <2>1, <2>2
<1>11. CASE at.cmd = "CMD25"
  <2>1. Phase("pause") /\ UNCHANGED <<cardType, locals, outer>>
    BY <1>11 DEF Answered
  <2>2. Serves("CMD25", "pause") /\ Counts("CMD25", "pause")
    BY <1>1, <1>11 DEF Serves, Counts
  <2> QED BY <1>3, <1>11, <2>1, <2>2
<1> QED BY <1>1, <1>5, <1>6, <1>7, <1>8, <1>9, <1>10, <1>11 DEF Using

LEMMA AnswerCall == ASSUME IInv, UInv, Answer PROVE UInv'
<1>1. ~ Idle /\ at.phase = "answer" /\ Steady
  BY Busy DEF Answer, Steady, Works, UInv, Bounds
<1>2. PICK p \in Poll :
        IF IsResponse(p.byte) THEN card' = p.card /\ Answered(p.byte, p.rest)
        ELSE IF at.cmd = "CMD0" /\ left = 0
        THEN card' = [p.card EXCEPT !.out = NoAnswer] /\ Again("CMD0")
        ELSE card' = p.card /\ Delay("error")
  BY DEF Answer
<1>3. CASE Answered(p.byte, p.rest) /\ p.byte # "FF"
  <2>1. CASE cardType = None
    <3>1. at.cmd \in {"ACMD41", "CMD58"} => found \in CardType
      BY <1>1, <1>3, <2>1, Told DEF Known, CardType
    <3> HIDE DEF Steady
    <3> QED BY <1>1, <1>3, <2>1, <3>1, AcquireAnsweredCall
  <2>2. CASE cardType # None
    BY <1>1, <1>3, <2>2, UseAnsweredCall DEF InUse
  <2> QED BY <2>1, <2>2
<1>4. CASE Again("CMD0") /\ at.cmd = "CMD0"
  <2>1. cardType = None
    BY <1>1, <1>4, Standing DEF Using
  <2> QED BY <1>1, <1>4, <2>1, RepeatedCall
<1>5. CASE Delay("error")
  BY <1>1, <1>5, DelayedCall
<1> QED BY <1>2, <1>3, <1>4, <1>5 DEF IsResponse

\* What arrives is a number, as blocks are here.
LEMMA ArrivedCall ==
  ASSUME IInv, UInv, InUse, at.phase = "data", NEW block \in Int, Arrived(block), Steady
  PROVE  UInv'
<1>1. /\ Serves(at.cmd, "data") /\ Counts(at.cmd, "data") /\ at.cmd \in {"CMD9", "CMD17", "CMD18"}
      /\ call.count \in Nat \ {0} /\ cardType # None /\ at = [cmd |-> at.cmd, phase |-> "data"]
  BY Situation DEF Serves, InUse
<1>2. got \in Seq(Int) /\ got' = Append(got, block)
  BY DEF Arrived, UInv, Bounds
<1>3. got' \in Seq(Int) /\ Len(got') = Len(got) + 1 /\ Len(got) \in Nat
  BY <1>2
<1>4. CASE at.cmd # "CMD18"
  <2>1. End("ok") /\ got = << >>
    BY <1>1, <1>4 DEF Arrived, Counts
  <2>2. Len(got') <= call.count
    BY <1>1, <1>3, <2>1
  <2> QED BY <1>3, <2>1, <2>2, EndedCall
<1>5. CASE at.cmd = "CMD18" /\ Len(got') < call.count
  <2>1. left' = Retries /\ UNCHANGED <<at, outer, cardType, found, call, sent, ret>>
    BY <1>5 DEF Arrived
  <2>2. CallSound' /\ Bounds'
    BY <1>3, <1>5, <2>1, RetriesType DEF UInv, CallSound, Bounds, Steady
  <2>3. Serves(at.cmd, at.phase)' /\ Counts(at.cmd, at.phase)'
    BY <1>1, <1>5, <2>1 DEF Serves, Counts
  <2> QED BY <1>1, <2>1, <2>2, <2>3 DEF UInv
<1>6. CASE at.cmd = "CMD18" /\ ~ (Len(got') < call.count)
  <2>1. Command("CMD12") /\ UNCHANGED <<outer, cardType, found, call, sent, ret>>
    BY <1>6 DEF Arrived
  <2>2. Len(got') = call.count
    BY <1>1, <1>3, <1>6 DEF Counts
  <2>3. at' = [cmd |-> "CMD12", phase |-> "send"] /\ left' = Retries
    BY <2>1 DEF Command
  <2>4. CallSound' /\ Bounds'
    BY <1>1, <1>3, <2>1, <2>2, <2>3, RetriesType DEF UInv, CallSound, Bounds, Steady
  <2>5. Serves(at.cmd, at.phase)' /\ Counts(at.cmd, at.phase)'
    BY <1>1, <1>6, <2>1, <2>2, <2>3 DEF Serves, Counts
  <2> QED BY <1>1, <2>1, <2>4, <2>5 DEF UInv
<1> QED BY <1>4, <1>5, <1>6

LEMMA ReadDataCall == ASSUME IInv, UInv, ReadData PROVE UInv'
<1>1. InUse /\ at.phase = "data"
  BY Busy, Standing DEF ReadData, InUse
<1>2. Steady
  BY Failing DEF ReadData, Steady
<1>3. CASE Delay("error")
  BY <1>2, <1>3, DelayedCall
<1>4. CASE Return("error")
  BY <1>2, <1>4, ReturnedCall
<1>5. CASE Arrived(Garbage)
  BY <1>1, <1>2, <1>5, ArrivedCall DEF Garbage
<1>6. CASE Sends /\ Arrived(Block)
  <2>1. Csd \in Int /\ (card.task # "csd" => store[card.pos] \in Int)
    BY <1>6, SizeAssumption DEF Csd, Sends, UInv, Bounds
  <2>2. Block \in Int
    BY <2>1 DEF Block
  <2> HIDE DEF Steady
  <2> QED BY <1>1, <1>2, <1>6, <2>2, ArrivedCall
<1> QED BY <1>3, <1>4, <1>5, <1>6 DEF ReadData, Damaged

\* The block that is programmed is one of those to be written.
LEMMA ProgramCall ==
  ASSUME IInv, UInv, InUse, at.phase = "block", Takes, Program
  PROVE  store' \in [BlockIdx -> Int] /\ faults' \in 0 .. MaxFaults
<1>1. /\ call.kind = "write" /\ sent \in 0 .. call.count /\ sent < call.count
      /\ call.data \in Seq(Int) /\ Len(call.data) = call.count
  BY Situation DEF Serves, Counts, UInv, Bounds, CallSound
<1>2. call.data[sent + 1] \in Int
  BY <1>1
<1>3. store \in [BlockIdx -> Int] /\ card.pos \in BlockIdx
  BY DEF Takes, UInv, Bounds
<1>4. faults' \in 0 .. MaxFaults
  BY Failing DEF Program
<1> QED BY <1>2, <1>3, <1>4 DEF Program

LEMMA WriteDataCall == ASSUME IInv, UInv, WriteData PROVE UInv'
<1>1. InUse /\ at.phase = "block"
  BY Busy, Standing DEF WriteData, InUse
<1>2. CASE Return("error") /\ store' = store /\ (Fails \/ Works)
  BY <1>2, Failing, ReturnedCall DEF Steady
<1>3. CASE Takes /\ Program /\ Accepted
  <2>1. /\ Serves(at.cmd, "block") /\ Counts(at.cmd, "block") /\ at.cmd \in {"CMD24", "CMD25"}
        /\ call.count \in Nat \ {0} /\ cardType # None /\ sent < call.count /\ sent \in Nat
    BY <1>1, Situation DEF Serves, Counts, InUse, UInv, Bounds
  <2>2. store' \in [BlockIdx -> Int] /\ faults' \in 0 .. MaxFaults
    BY <1>1, <1>3, ProgramCall
  <2>3. sent' = sent + 1 /\ UNCHANGED <<outer, cardType, found, call, got, ret>> /\ left' = Retries
    BY <1>3 DEF Accepted, Command, Phase
  <2>4. CallSound' /\ Bounds'
    BY <2>1, <2>2, <2>3, RetriesType DEF UInv, CallSound, Bounds
  <2>5. at'.cmd = at.cmd /\ at'.phase = "pause"
    BY <1>1, <1>3, Situation DEF Accepted, Phase
  <2>6. Serves(at.cmd, at.phase)' /\ Counts(at.cmd, at.phase)'
    BY <2>1, <2>3, <2>5 DEF Serves, Counts
  <2> QED BY <2>1, <2>3, <2>4, <2>6 DEF UInv
<1> QED BY <1>2, <1>3 DEF WriteData

LEMMA StopTranCall == ASSUME UInv, StopTran PROVE UInv'
BY ReturnedCall DEF StopTran, Steady, Works, UInv, Bounds

LEMMA BeginCall ==
  ASSUME UInv, NEW c, Begin(c), CallSound', call' = c, c.kind \in {"size", "read", "write"}
  PROVE  UInv'
<1>1. Nothing' /\ UNCHANGED <<cardType, store, faults>> /\ c.count \in Nat
  BY DEF Begin, Nothing, CallSound
<1>2. PICK cmd : Command(cmd) /\ cmd = IF cardType = None THEN "CMD0" ELSE FirstCommand(c)
  BY DEF Begin
<1>3. left' = Retries /\ outer' \in {0, AcquireRetries}
  BY <1>2 DEF Begin, Command
<1>4. Bounds'
  BY <1>1, <1>3, RetriesType DEF UInv, Bounds, Nothing
<1>5. ASSUME cardType # None PROVE Serves(at.cmd, at.phase)' /\ Counts(at.cmd, at.phase)'
  <2>1. at'.phase \in {"wait", "send"} /\ at'.cmd = FirstCommand(c)
    BY <1>2, <1>5 DEF Command
  <2> QED BY <1>1, <2>1 DEF CallSound, FirstCommand, Serves, Counts, Nothing
<1> QED BY <1>1, <1>4, <1>5 DEF UInv, InUse

LEMMA CallCall == ASSUME UInv, Call PROVE UInv'
<1>1. CASE Size
  <2> DEFINE c == [kind |-> "size", start |-> 0, data |-> << >>, count |-> 1]
  <2>1. Begin(c) /\ call' = c
    BY <1>1 DEF Size, Begin
  <2>2. CallSound'
    BY <2>1, SizeAssumption DEF CallSound
  <2>3. c.kind = "size"
    OBVIOUS
  <2> HIDE DEF c
  <2> QED BY <2>1, <2>2, <2>3, BeginCall
<1>2. CASE MarkCardUninit
  <2>1. at' = at /\ Idle /\ UNCHANGED <<left, outer, call, got, sent, store, faults>>
    BY <1>2 DEF MarkCardUninit, locals
  <2> QED BY <2>1 DEF UInv, CallSound, Bounds, InUse, Idle
<1>3. ASSUME NEW start \in BlockIdx, NEW n \in 1 .. MaxCount, ReadBlocks(start, n) PROVE UInv'
  <2> DEFINE c == [kind |-> "read", start |-> start, data |-> << >>, count |-> n]
  <2>1. Begin(c) /\ call' = c /\ start + n <= Capacity
    BY <1>3 DEF ReadBlocks, Begin
  <2>2. CallSound'
    BY <2>1, SizeAssumption DEF CallSound, BlockIdx
  <2>3. c.kind = "read"
    OBVIOUS
  <2> HIDE DEF c
  <2> QED BY <2>1, <2>2, <2>3, BeginCall
<1>4. ASSUME NEW start \in BlockIdx, NEW buffer \in Buffers, WriteBlocks(start, buffer) PROVE UInv'
  <2> DEFINE c == [kind |-> "write", start |-> start, data |-> buffer, count |-> Len(buffer)]
  <2>1. Begin(c) /\ call' = c /\ start + Len(buffer) <= Capacity
    BY <1>4 DEF WriteBlocks, Begin
  <2>2. buffer \in Seq(Int) /\ Len(buffer) > 0 /\ Len(buffer) \in Nat
    BY SizeAssumption
  <2>3. CallSound'
    BY <2>1, <2>2, SizeAssumption DEF CallSound, BlockIdx
  <2>4. c.kind = "write"
    OBVIOUS
  <2> HIDE DEF c
  <2> QED BY <2>1, <2>3, <2>4, BeginCall
<1> QED BY <1>1, <1>2, <1>3, <1>4 DEF Call

LEMMA ExchangeCall == ASSUME UInv, Exchange PROVE UInv'
<1>1. store' = OtherContent /\ faults' \in 0 .. MaxFaults /\ OtherContent \in [BlockIdx -> Int]
  BY Failing, SizeAssumption DEF Exchange
<1> QED BY <1>1, SameCall DEF Exchange, UInv, Bounds

LEMMA UInit == Init => UInv
<1> SUFFICES ASSUME Init PROVE UInv
  OBVIOUS
<1>1. CallSound /\ Bounds
  BY SizeAssumption DEF Init, NoCall, CallSound, Bounds
<1> QED BY <1>1 DEF Init, UInv, InUse, Idle

LEMMA UStep == IInv /\ UInv /\ [Next]_vars => UInv'
<1> SUFFICES ASSUME IInv, UInv, [Next]_vars PROVE UInv'
  OBVIOUS
<1>1. CASE Advance
  BY <1>1, WaitCall, SendCall, AnswerCall, ReadDataCall, WriteDataCall, StopTranCall DEF Advance
<1>2. CASE Call
  BY <1>2, CallCall
<1>3. CASE TransportError
  BY <1>3, ReturnedCall, Failing DEF TransportError, Steady
<1>4. CASE Exchange
  BY <1>4, ExchangeCall
<1>5. CASE UNCHANGED vars
  BY <1>5 DEF vars, locals, UInv, CallSound, Bounds, InUse, Idle, Nothing, Serves, Counts
<1> QED BY <1>1, <1>2, <1>3, <1>4, <1>5 DEF Next

\* The variables of the driver keep their types (SdCardInner::read, write and
\* acquire): it never takes more blocks than it was asked for, nor writes more
\* than it was given, and no loop has more retries than it was given.
THEOREM TypeCorrect == Spec => []TypeOK
<1>1. Init => IInv /\ UInv
  BY InitLemma, UInit
<1>2. IInv /\ UInv /\ [Next]_vars => IInv' /\ UInv'
  BY StepLemma, UStep
<1>3. IInv /\ UInv => TypeOK
  BY DEF IInv, TypesOK, UInv, Bounds, TypeOK
<1> QED BY <1>1, <1>2, <1>3, PTL DEF Spec

-----------------------------------------------------------------------------
(* What the card does in the meantime: an invariant *)

Transfers == {"CMD9", "CMD17", "CMD18", "CMD24", "CMD25"}

\* A card that has not been exchanged does what it was told to, or nothing, and
\* has come as far as the driver.
InStep ==
  /\ at.phase \in {"send", "answer"} /\ at.cmd # "CMD12" => ~ card.busy
  /\ at.phase = "answer" /\ at.cmd \notin Transfers \cup {"CMD12"} => card.task = None
  /\ at.phase \in {"answer", "data", "pause", "block"} /\ at.cmd \in Transfers /\ card.task # None =>
       /\ card.task = Task[at.cmd] /\ card.pos = call.start + Len(got) + sent
       /\ at.phase = "answer" => card.out.r1 = "00"

\* What was read is what the card has.
ReadRight == call.kind = "read" => \A i \in 1 .. Len(got) : got[i] = store[Asked(i)]

\* What was written is on the card, or it knows better.
Stored(n) == \A i \in 1 .. n : store[Asked(i)] = call.data[i]
WriteRight ==
  call.kind = "write" =>
    \/ card.mode # "ready" \/ card.failed \/ Stored(sent)
    \/ at.cmd = "CMD13" /\ at.phase = "answer" /\ card.out.rest # "00"

Follows == InUse /\ card.mode # "off" => InStep /\ (UseCrc => ReadRight) /\ WriteRight

DInv == IInv /\ UInv /\ Follows

-----------------------------------------------------------------------------
(* The card, whatever the driver does *)

\* What one byte leaves of the task of a card.
LEMMA PolledTask ==
  ASSUME card \in CardRec, Sane(card), NEW p \in Poll
  PROVE  /\ p.card.failed = card.failed /\ p.card.mode = card.mode
         /\ p.byte = "FF" \/ ~ card.busy => ~ p.card.busy
         /\ p.card.task = None \/ p.card.task = card.task
         /\ ~ Transmitting \/ (card.out # NoAnswer /\ ~ card.busy) =>
              p.card.task = card.task /\ p.card.pos = card.pos
         /\ card.out.r1 = "00" /\ p.byte = "FF" => p.card.out = card.out
         /\ p.card.out = card.out \/ p.card.out = NoAnswer
<1>1. CASE card.busy
  <2> DEFINE e == [card EXCEPT !.busy = FALSE]
  <2>1. e.failed = card.failed /\ e.mode = card.mode /\ e.task = card.task /\ e.pos = card.pos
        /\ e.out = card.out /\ e.busy = FALSE
    BY DEF CardRec
  <2>2. \/ p = [byte |-> "00", rest |-> "FF", card |-> card]
        \/ p = [byte |-> "FF", rest |-> "FF", card |-> e]
    BY <1>1 DEF Poll
  <2> HIDE DEF e
  <2>3. (p.card = card /\ p.byte = "00") \/ (p.card = e /\ p.byte = "FF")
    BY <2>2
  <2> QED BY <1>1, <2>1, <2>3
<1>2. CASE ~ card.busy
  <2>1. CASE p = [byte |-> "FF", rest |-> "FF", card |-> card]
    BY <1>2, <2>1
  <2>2. CASE p = [byte |-> card.out.r1, rest |-> card.out.rest, card |-> [card EXCEPT !.out = NoAnswer]]
    <3>1. p.byte = card.out.r1 /\ p.card = [card EXCEPT !.out = NoAnswer]
      BY <2>2
    <3> QED BY <1>2, <3>1 DEF CardRec
  <2>3. CASE Transmitting /\ card.out = NoAnswer /\ p = [byte |-> "00", rest |-> "FF", card |-> SentBlock]
    <3>1. p.card = SentBlock /\ p.byte = "00"
      BY <2>3
    <3>2. SentBlock.failed = card.failed /\ SentBlock.mode = card.mode /\ SentBlock.busy = card.busy
          /\ SentBlock.out = card.out /\ (SentBlock.task = None \/ SentBlock.task = card.task)
      BY DEF SentBlock, AfterBlock, CardRec
    <3>3. card.out.r1 # "00"
      BY <2>3 DEF NoAnswer
    <3> QED BY <1>2, <2>3, <3>1, <3>2, <3>3
  <2> QED BY <1>2, <2>1, <2>2, <2>3 DEF Poll
<1> QED BY <1>1, <1>2

\* A command that starts a transfer starts it at its address, or not at all.
LEMMA Started ==
  ASSUME NEW k \in CardRec, NEW arg, NEW task, k.task = None
  PROVE  LET s == StartTask(k, task, arg)
         IN  /\ s.failed = k.failed /\ s.busy = k.busy
             /\ \/ s.task = None
                \/ /\ s.task = task /\ s.pos = Addressed(arg) /\ s.out.r1 = "00"
                   /\ k.mode = "ready" /\ ValidAddress(arg)
<1>1. CASE k.mode = "ready" /\ ValidAddress(arg)
  <2>1. StartTask(k, task, arg) = Respond([k EXCEPT !.task = task, !.pos = Addressed(arg)], "00", "FF")
    BY <1>1 DEF StartTask
  <2> QED BY <1>1, <2>1 DEF Respond, CardRec
<1>2. CASE ~ (k.mode = "ready" /\ ValidAddress(arg))
  <2>1. PICK r1 : StartTask(k, task, arg) = Respond(k, r1, "FF")
    BY <1>2 DEF StartTask
  <2> QED BY <2>1 DEF Respond, CardRec
<1> QED BY <1>1, <1>2

\* The card after a command that it obeys.
LEMMA ObeyedTask ==
  ASSUME card \in CardRec, Sane(card), ~ card.busy, NEW cmd \in Using \ {"CMD12"}, NEW arg, Obey(cmd, arg)
  PROVE  /\ ~ card'.busy
         /\ cmd \in Transfers =>
              \/ card'.task = None
              \/ /\ card'.task = Task[cmd] /\ card'.pos = Addressed(arg) /\ card'.out.r1 = "00"
                 /\ card.mode = "ready" /\ ValidAddress(arg)
         /\ cmd \notin Transfers => card'.task = None
         /\ cmd # "CMD13" => card'.failed = card.failed
         /\ cmd = "CMD13" => (card.failed => card'.out.rest # "00")
<1> DEFINE k == Dropped
<1>1. /\ k \in CardRec /\ k.task = None /\ k.failed = card.failed /\ k.busy = card.busy
      /\ k.mode = card.mode
  BY Stopped DEF Dropped, CardRec, Same
<1>2. CASE cmd \in Transfers
  <2>1. cmd \in DOMAIN Task
    BY <1>2 DEF Transfers, Task
  <2>2. card' = StartTask(k, Task[cmd], arg)
    BY <1>2, <2>1 DEF Obey, Transfers
  <2> HIDE DEF k
  <2> QED BY <1>1, <1>2, <2>2, Started DEF Transfers
<1>3. CASE cmd = "CMD13"
  <2>1. card' = Respond([k EXCEPT !.failed = FALSE], R1, IF k.failed THEN "04" ELSE "00")
    BY <1>3 DEF Obey, Task
  <2> HIDE DEF k
  <2> QED BY <1>1, <1>3, <2>1 DEF Respond, CardRec, Transfers
<1>4. CASE cmd \in {"CMD55", "ACMD23"}
  <2>1. card' = Respond(k, R1, "FF")
    BY <1>4 DEF Obey, Task
  <2> HIDE DEF k
  <2> QED BY <1>1, <1>4, <2>1 DEF Respond, CardRec, Transfers
<1> QED BY <1>2, <1>3, <1>4 DEF Using, Transfers

\* The address of a block is that of the first one asked for.
LEMMA AddressRight ==
  ASSUME DInv, InUse, card.mode = "ready", at.cmd \in Transfers
  PROVE  Addressed(Argument(at.cmd)) = call.start
<1>1. cardType = card.kind /\ CallSound /\ Serves(at.cmd, at.phase) /\ call.count \in Nat \ {0}
  BY Given, Situation DEF DInv, InUse, CardKnown, UInv
<1>2. call.start \in Nat /\ call.start < Capacity /\ call.start + 1 <= Capacity
  BY <1>1, SizeAssumption DEF CallSound
<1>3. CASE at.cmd = "CMD9"
  <2>1. Argument(at.cmd) = 0 /\ call.start = 0
    BY <1>1, <1>3 DEF Argument, Serves, CallSound
  <2>2. 0 \div BlockLen = 0
    BY SizeAssumption
  <2> QED BY <2>1, <2>2 DEF Addressed
<1>4. CASE at.cmd # "CMD9" /\ card.kind = "SdhcSdxc"
  <2>1. Argument(at.cmd) = call.start
    BY <1>1, <1>4 DEF Argument, Address, Transfers
  <2> QED BY <1>4, <2>1 DEF Addressed
<1>5. CASE at.cmd # "CMD9" /\ card.kind # "SdhcSdxc"
  <2>1. Argument(at.cmd) = (call.start * BlockLen) % AddressMod
    BY <1>1, <1>5 DEF Argument, Address, Transfers
  <2>2. BlockLen \in Nat \ {0} /\ AddressMod \in Nat /\ Capacity \in Nat /\ Capacity * BlockLen <= AddressMod
    BY SizeAssumption
  <2>3. call.start * BlockLen < Capacity * BlockLen /\ call.start * BlockLen \in Nat
    <3> DEFINE s == call.start
               n == Capacity
               l == BlockLen
    <3>1. s \in Nat /\ n \in Nat /\ l \in Nat \ {0} /\ s < n
      BY <1>2, <2>2
    <3> HIDE DEF s, n, l
    <3>2. s * l < n * l /\ s * l \in Nat
      BY <3>1
    <3> QED BY <3>2 DEF s, n, l
  <2>4. (call.start * BlockLen) % AddressMod = call.start * BlockLen
    <3> DEFINE x == call.start * BlockLen
    <3>1. x \in Nat /\ x < AddressMod
      <4> DEFINE y == Capacity * BlockLen
      <4>1. y \in Nat
        BY <2>2
      <4>2. y <= AddressMod /\ x < y /\ x \in Nat
        BY <2>2, <2>3
      <4> HIDE DEF x, y
      <4> QED BY <2>2, <4>1, <4>2
    <3> HIDE DEF x
    <3>2. x % AddressMod = x
      BY <2>2, <3>1
    <3> QED BY <3>2 DEF x
  <2>5. (call.start * BlockLen) \div BlockLen = call.start
    <3> DEFINE s == call.start
               l == BlockLen
    <3>1. s \in Nat /\ l \in Nat \ {0}
      BY <1>2, <2>2
    <3> HIDE DEF s, l
    <3>2. (s * l) \div l = s
      BY <3>1
    <3> QED BY <3>2 DEF s, l
  <2> QED BY <1>5, <2>1, <2>4, <2>5 DEF Addressed
<1> QED BY <1>3, <1>4, <1>5

-----------------------------------------------------------------------------
(* Steps of a call and of the card *)

\* Neither is there a call with a card, nor a card with a call.
LEMMA Unbound ==
  ASSUME at' = Resting \/ cardType' = None \/ card'.mode = "off"
  PROVE  Follows'
BY DEF Follows, InUse, Idle

\* A command is next, and no block has been read or written.
LEMMA Fresh ==
  ASSUME at'.phase = "wait", got' = << >>, sent' = 0
  PROVE  Follows'
<1>1. InStep' /\ ReadRight'
  BY DEF InStep, ReadRight
<1>2. Stored(sent)'
  BY DEF Stored
<1>3. WriteRight'
  BY <1>2 DEF WriteRight
<1> QED BY <1>1, <1>3 DEF Follows

\* What is read and written stays what it is while no block is transferred.
LEMMA SameBlocks ==
  ASSUME UNCHANGED <<call, got, sent, store>>
  PROVE  /\ ReadRight => ReadRight'
         /\ Stored(sent) => Stored(sent)'
BY DEF ReadRight, Stored, Asked

\* A byte of the card is looked at, and the call stays with its command.
LEMMA PolledOn ==
  ASSUME DInv, InUse, NEW p \in Poll, card' = p.card, UNCHANGED <<call, got, sent, store>>,
         at'.cmd = at.cmd,
         \/ at'.phase = at.phase /\ at.phase \in {"wait", "pause"}
         \/ at'.phase = at.phase /\ at.phase = "answer" /\ p.byte = "FF"
         \/ at.phase \in {"wait", "pause"} /\ at'.phase \in {"send", "stop"} /\ p.byte = "FF"
         \/ at.phase = "pause" /\ at'.phase = "block"
         \/ /\ at.phase = "answer" /\ at'.phase \in {"data", "pause", "block"}
            /\ at.cmd \in Transfers \cup {"ACMD23"}
  PROVE  Follows'
<1> SUFFICES ASSUME card'.mode # "off"
             PROVE  Follows'
  BY DEF Follows
<1>1. /\ p.card.failed = card.failed /\ p.card.mode = card.mode
      /\ p.byte = "FF" \/ ~ card.busy => ~ p.card.busy
      /\ p.card.task = None \/ p.card.task = card.task
      /\ ~ Transmitting \/ (card.out # NoAnswer /\ ~ card.busy) =>
           p.card.task = card.task /\ p.card.pos = card.pos
      /\ card.out.r1 = "00" /\ p.byte = "FF" => p.card.out = card.out
      /\ p.card.out = card.out \/ p.card.out = NoAnswer
  BY Given, PolledTask DEF DInv
<1>2. InStep /\ (UseCrc => ReadRight) /\ WriteRight
  BY <1>1 DEF DInv, Follows
<1>3. Serves(at.cmd, at.phase)
  BY Situation DEF DInv
<1>4. InStep'
  <2>1. at'.phase \in {"send", "answer"} /\ at'.cmd # "CMD12" => ~ card'.busy
    BY <1>1, <1>2 DEF InStep
  <2>2. at'.phase = "answer" /\ at'.cmd \notin Transfers \cup {"CMD12"} => card'.task = None
    BY <1>1, <1>2 DEF InStep
  <2>3. ASSUME at'.phase \in {"answer", "data", "pause", "block"}, at.cmd \in Transfers, card'.task # None
        PROVE  /\ card'.task = Task[at.cmd] /\ card'.pos = call.start + Len(got) + sent
               /\ at'.phase = "answer" => card'.out.r1 = "00"
    <3>1. at.phase \in {"answer", "pause"} /\ card.task # None
      BY <1>1, <2>3
    <3>2. /\ card.task = Task[at.cmd] /\ card.pos = call.start + Len(got) + sent
          /\ at.phase = "answer" => card.out.r1 = "00"
      BY <1>2, <2>3, <3>1 DEF InStep
    <3>3. CASE at.phase = "answer"
      <4>1. card.out # NoAnswer /\ ~ card.busy
        BY <1>2, <2>3, <3>2, <3>3 DEF NoAnswer, InStep, Transfers
      <4> QED BY <1>1, <3>2, <3>3, <4>1
    <3>4. CASE at.phase = "pause"
      <4>1. at.cmd \in {"CMD24", "CMD25"}
        BY <1>3, <2>3, <3>4 DEF Serves, Transfers
      <4>2. ~ Transmitting
        BY <3>2, <4>1 DEF Task, Transmitting
      <4> QED BY <1>1, <3>2, <3>4, <4>2
    <3> QED BY <3>1, <3>3, <3>4
  <2> QED BY <2>1, <2>2, <2>3 DEF InStep
<1>5. UseCrc => ReadRight'
  BY <1>2, SameBlocks
<1>6. WriteRight'
  <2>1. card.out.rest # "00" => card'.out.rest # "00"
    BY <1>1 DEF NoAnswer
  <2>2. at.cmd = "CMD13" /\ at.phase = "answer" => at'.phase = "answer"
    BY DEF Transfers
  <2> QED BY <1>1, <1>2, <2>1, <2>2, SameBlocks DEF WriteRight
<1> QED BY <1>4, <1>5, <1>6 DEF Follows

\* The block of CMD24 is written, and the card no longer busy: CMD13 is next.
LEMMA WaitsOnceMore ==
  ASSUME DInv, InUse, NEW p \in Poll, card' = p.card, at.phase = "pause", at'.phase = "wait",
         UNCHANGED <<call, got, sent, store>>
  PROVE  Follows'
<1> SUFFICES ASSUME card'.mode # "off" PROVE Follows'
  BY DEF Follows
<1>1. p.card.failed = card.failed /\ p.card.mode = card.mode
  BY Given, PolledTask DEF DInv
<1>2. (UseCrc => ReadRight) /\ WriteRight
  BY <1>1 DEF DInv, Follows
<1>3. InStep'
  BY DEF InStep
<1>4. WriteRight'
  BY <1>1, <1>2, SameBlocks DEF WriteRight
<1> QED BY <1>2, <1>3, <1>4, SameBlocks DEF Follows

\* A delay, or the end of the call.
LEMMA DelayOn ==
  ASSUME DInv, InUse, NEW p \in Poll, card' = p.card, store' = store, NEW r, Delay(r),
         at.phase \in {"wait", "pause"} \/ (at.phase = "answer" /\ p.byte = "FF")
  PROVE  Follows'
<1>1. CASE Return(r)
  BY <1>1, Unbound DEF Return, End
<1>2. CASE UNCHANGED <<at, locals>>
  BY <1>2, PolledOn DEF locals
<1> QED BY <1>1, <1>2 DEF Delay

LEMMA WaitFollows == ASSUME DInv, Wait PROVE Follows'
<1>1. PICK p \in Poll :
        /\ card' = p.card
        /\ IF p.byte # "FF" THEN Delay("error")
           ELSE Waited /\ UNCHANGED <<cardType, locals, outer, ret>>
  BY DEF Wait
<1>2. ~ Idle /\ at.phase \in {"wait", "pause"} /\ store' = store
  BY Busy DEF Wait, DInv
<1>3. CASE cardType = None
  BY <1>1, <1>3, Unbound DEF Delay, Return, End
<1>4. CASE cardType # None
  <2>1. InUse /\ at = [cmd |-> at.cmd, phase |-> at.phase]
    BY <1>2, <1>4, Situation DEF InUse, DInv
  <2>2. CASE Delay("error")
    BY <1>1, <1>2, <2>1, <2>2, DelayOn
  <2>3. ASSUME NEW phase \in {"send", "stop", "block"}, Phase(phase), UNCHANGED <<cardType, locals>>,
               p.byte = "FF", phase = "block" => at.phase = "pause"
        PROVE  Follows'
    <3>1. at'.cmd = at.cmd /\ at'.phase = phase /\ UNCHANGED <<call, got, sent, store>>
      BY <1>2, <2>1, <2>3 DEF Phase, locals
    <3> QED BY <1>1, <1>2, <2>1, <2>3, <3>1, PolledOn
  <2>4. ASSUME Waited, UNCHANGED <<cardType, locals>>, p.byte = "FF" PROVE Follows'
    <3>1. CASE at.phase = "pause" /\ at.cmd = "ACMD23" /\ Command("CMD25")
      <4>1. got = << >> /\ sent = 0
        BY <2>1, <3>1, Situation DEF DInv, Counts
      <4> QED BY <2>4, <3>1, <4>1, Fresh DEF Command, locals
    <3>2. CASE at.phase = "pause" /\ at.cmd = "CMD24" /\ Command("CMD13")
      <4>1. at'.phase = "wait" /\ UNCHANGED <<call, got, sent, store>>
        BY <1>2, <2>4, <3>2 DEF Command, locals
      <4> QED BY <1>1, <2>1, <3>2, <4>1, WaitsOnceMore
    <3>3. CASE (at.phase = "wait" /\ Phase("send"))
               \/ (at.phase = "pause" /\ Phase(IF sent = call.count THEN "stop" ELSE "block"))
      BY <2>3, <2>4, <3>3
    <3> QED BY <2>4, <3>1, <3>2, <3>3 DEF Waited
  <2> QED BY <1>1, <1>2, <2>2, <2>4
<1> QED BY <1>3, <1>4

\* A frame reaches a card that can hear it, and the card does what it is told to.
LEMMA SendFollows == ASSUME DInv, Send, ~ Persistent PROVE Follows'
<1>1. ~ Idle /\ at.phase = "send" /\ UNCHANGED <<cardType, call, got, sent, store>> /\ Phase("answer")
  BY Busy DEF Send, DInv, locals
<1> SUFFICES ASSUME cardType # None, card'.mode # "off"
             PROVE  Follows'
  BY <1>1, Unbound
<1>2. /\ InUse /\ at.cmd \in Using /\ at'.cmd = at.cmd /\ at'.phase = "answer"
      /\ Serves(at.cmd, "send") /\ Counts(at.cmd, "send") /\ at.cmd # "CMD0"
  BY <1>1, Situation DEF InUse, DInv, Phase, Using
<1>3. card \in CardRec /\ Sane(card) /\ ~ Endless
  BY Given DEF DInv, Endless
<1>4. Receive(at.cmd, Argument(at.cmd)) \/ card' = Dropped
  BY <1>3 DEF Send, Garbled
<1>5. card'.mode = card.mode
  <2>1. CASE card' = Dropped
    BY <1>3, <2>1, Stopped DEF Same
  <2>2. CASE Receive(at.cmd, Argument(at.cmd))
    <3> DEFINE arg == Argument(at.cmd)
    <3>1. Receive(at.cmd, arg) /\ at.cmd # "ACMD41"
      BY <1>2, <2>2 DEF Using
    <3> HIDE DEF arg
    <3> QED BY <1>2, <1>3, <3>1, Received
  <2> QED BY <1>4, <2>1, <2>2
<1>6. InStep /\ (UseCrc => ReadRight) /\ WriteRight
  BY <1>2, <1>5 DEF DInv, Follows
<1>7. UseCrc => ReadRight'
  BY <1>1, <1>6, SameBlocks
<1>8. CASE at.cmd = "CMD12"
  BY <1>2, <1>7, <1>8, <1>1 DEF Follows, InStep, WriteRight, Serves, Transfers
<1>9. CASE at.cmd # "CMD12"
  <2>1. ~ card.busy
    BY <1>1, <1>6, <1>9 DEF InStep
  <2>2. /\ ~ card'.busy
        /\ at.cmd \in Transfers =>
             \/ card'.task = None
             \/ card'.task = Task[at.cmd] /\ card'.pos = call.start /\ card'.out.r1 = "00"
        /\ at.cmd \notin Transfers => card'.task = None
        /\ at.cmd # "CMD13" => card'.failed = card.failed
        /\ card.failed => card'.failed \/ (at.cmd = "CMD13" /\ card'.out.rest # "00")
    <3>1. CASE card' = Dropped
      <4>1. Dropped.failed = card.failed /\ Dropped.busy = card.busy /\ Dropped.task = None
        BY <1>3 DEF Dropped, CardRec
      <4> QED BY <2>1, <3>1, <4>1
    <3>2. CASE Receive(at.cmd, Argument(at.cmd))
      <4> DEFINE arg == Argument(at.cmd)
      <4>1. Obey(at.cmd, arg)
        BY <1>2, <1>3, <1>5, <2>1, <3>2 DEF Receive, Deaf, GoesOn
      <4>2. card.mode = "ready" /\ at.cmd \in Transfers => Addressed(arg) = call.start
        BY <1>2, AddressRight
      <4>3. at.cmd \in Using \ {"CMD12"}
        BY <1>2, <1>9
      <4> HIDE DEF arg
      <4> QED BY <1>3, <2>1, <4>1, <4>2, <4>3, ObeyedTask
    <3> QED BY <1>4, <3>1, <3>2
  <2>3. at.cmd \in Transfers => Len(got) = 0 /\ sent = 0
    BY <1>2 DEF Counts, Transfers
  <2>4. call.start \in Nat
    BY DEF DInv, UInv, CallSound
  <2>5. at.cmd \in Transfers => call.start = call.start + Len(got) + sent
    BY <2>3, <2>4
  <2>6. InStep'
    BY <1>1, <1>2, <2>2, <2>5 DEF InStep
  <2>7. WriteRight'
    BY <1>1, <1>2, <1>5, <1>6, <2>2, SameBlocks DEF WriteRight
  <2> QED BY <1>7, <2>6, <2>7 DEF Follows
<1> QED BY <1>8, <1>9

\* A response is taken for what it says, or for nothing.
LEMMA AnswerFollows == ASSUME DInv, Answer PROVE Follows'
<1>1. ~ Idle /\ at.phase = "answer" /\ store' = store
  BY Busy DEF Answer, DInv
<1>2. PICK p \in Poll :
        IF IsResponse(p.byte) THEN card' = p.card /\ Answered(p.byte, p.rest)
        ELSE IF at.cmd = "CMD0" /\ left = 0
        THEN card' = [p.card EXCEPT !.out = NoAnswer] /\ Again("CMD0")
        ELSE card' = p.card /\ Delay("error")
  BY DEF Answer
<1>3. CASE cardType = None
  <2>1. Nothing /\ at.cmd \in Acquiring /\ call.kind \in {"size", "read", "write"}
    BY <1>1, <1>3, Standing DEF DInv, UInv
  <2>2. CASE \E type : Acquired(type)
    <3>1. got' = << >> /\ sent' = 0 /\ Command(FirstCommand(call))
      BY <2>1, <2>2 DEF Acquired, Nothing
    <3>2. FirstCommand(call) \notin {"CMD0", "CMD12"}
      BY <2>1 DEF FirstCommand
    <3>3. at'.phase = "wait"
      BY <3>1, <3>2 DEF Command
    <3> QED BY <3>1, <3>3, Fresh
  <2>3. CASE at' = Resting \/ cardType' = None
    BY <2>3, Unbound
  <2>4. (\E cmd : Again(cmd)) \/ (\E r : Delay(r) \/ Return(r)) => at' = Resting \/ cardType' = None
    BY <1>3 DEF Again, Delay, Return, End
  <2>5. (\E cmd : Proceed(cmd)) => cardType' = None
    BY <1>3 DEF Proceed
  <2>6. CASE Answered(p.byte, p.rest)
    <3> DEFINE r1 == p.byte
               rest == p.rest
    <3>1. Answered(r1, rest)
      BY <2>6
    <3> HIDE DEF r1, rest
    <3>2. CASE at.cmd \in {"CMD0", "CMD59"}
      BY <2>3, <2>4, <2>5, <3>1, <3>2 DEF Answered
    <3>3. CASE at.cmd = "CMD8"
      BY <1>3, <2>3, <2>4, <3>1, <3>3 DEF Answered
    <3>4. CASE at.cmd = "CMD55"
      BY <1>3, <2>3, <3>1, <3>4 DEF Answered
    <3>5. CASE at.cmd = "ACMD41"
      BY <2>2, <2>3, <2>4, <2>5, <3>1, <3>5 DEF Answered
    <3>6. CASE at.cmd = "CMD58"
      BY <2>2, <2>3, <2>4, <3>1, <3>6 DEF Answered
    <3> QED BY <2>1, <3>2, <3>3, <3>4, <3>5, <3>6 DEF Acquiring
  <2> QED BY <1>2, <2>3, <2>4, <2>6
<1>4. CASE cardType # None
  <2>1. /\ InUse /\ at = [cmd |-> at.cmd, phase |-> at.phase] /\ at.cmd \in Using
        /\ Serves(at.cmd, "answer") /\ Counts(at.cmd, "answer") /\ at.cmd # "CMD0"
    BY <1>1, <1>4, Situation DEF InUse, DInv, Using
  <2>2. CASE p.byte = "FF"
    BY <1>1, <1>2, <2>1, <2>2, DelayOn DEF IsResponse
  <2>3. CASE p.byte # "FF"
    <3> DEFINE r1 == p.byte
               rest == p.rest
    <3>1. card' = p.card /\ Answered(r1, rest)
      BY <1>2, <2>3 DEF IsResponse
    <3> HIDE DEF r1, rest
    <3>2. CASE \E r : Return(r)
      BY <3>2, Unbound DEF Return, End
    <3>3. ASSUME NEW phase \in {"data", "pause", "block"}, Phase(phase),
                 at.cmd \in Transfers \cup {"ACMD23"},
                 UNCHANGED <<cardType, locals>>
          PROVE  Follows'
      <4>1. at'.cmd = at.cmd /\ at'.phase = phase /\ UNCHANGED <<call, got, sent, store>>
        BY <1>1, <2>1, <3>3 DEF Phase, locals
      <4> QED BY <1>1, <2>1, <3>1, <3>3, <4>1, PolledOn
    <3>4. ASSUME Command("ACMD23"), UNCHANGED locals, got = << >>, sent = 0
          PROVE  Follows'
      BY <3>4, Fresh DEF Command, locals
    <3>5. CASE at.cmd = "CMD55"
      BY <1>4, <2>1, <3>1, <3>4, <3>5 DEF Answered, Counts
    <3>6. CASE at.cmd = "CMD9"
      BY <3>1, <3>2, <3>3, <3>6 DEF Answered, Transfers
    <3>7. CASE at.cmd \in {"CMD17", "CMD18"}
      BY <3>1, <3>3, <3>7 DEF Answered, Transfers
    <3>8. CASE at.cmd \in {"CMD12", "CMD13"}
      BY <3>1, <3>2, <3>8 DEF Answered
    <3>9. CASE at.cmd = "ACMD23"
      BY <3>1, <3>3, <3>9 DEF Answered
    <3>10. CASE at.cmd \in {"CMD24", "CMD25"}
      BY <3>1, <3>3, <3>10 DEF Answered, Transfers
    <3> QED BY <2>1, <3>5, <3>6, <3>7, <3>8, <3>9, <3>10 DEF Using
  <2> QED BY <2>2, <2>3
<1> QED BY <1>3, <1>4

\* The card sends the block that the driver waits for, and no other.
LEMMA Sending ==
  ASSUME DInv, InUse, at.phase = "data", Sends
  PROVE  /\ card.task = Task[at.cmd] /\ card.pos = call.start + Len(got) + sent
         /\ at.cmd \in {"CMD9", "CMD17", "CMD18"} /\ sent = 0 /\ Fits /\ card.mode = "ready"
         /\ at.cmd # "CMD9" => /\ card.pos \in BlockIdx /\ Block = store[card.pos]
                               /\ card.pos = Asked(Len(got) + 1)
         /\ at.cmd = "CMD9" => Block = Csd
<1>1. /\ Serves(at.cmd, "data") /\ Counts(at.cmd, "data") /\ at.cmd \in {"CMD9", "CMD17", "CMD18"}
      /\ sent = 0
  BY Situation DEF DInv, Serves, Counts
<1>2. card.task # None /\ Sane(card)
  BY Given DEF DInv, Sends, Transmitting, None
<1>3. card.mode = "ready"
  BY <1>2 DEF Sane, Quiet
<1>4. card.task = Task[at.cmd] /\ card.pos = call.start + Len(got) + sent
  BY <1>1, <1>2, <1>3 DEF DInv, Follows, InStep, Transfers
<1>5. card.task = "csd" <=> at.cmd = "CMD9"
  BY <1>1, <1>4 DEF Task
<1>6. Len(got) \in Nat /\ call.start \in Nat
  BY DEF DInv, UInv, Bounds, CallSound
<1>7. card.pos = Asked(Len(got) + 1)
  BY <1>1, <1>4, <1>6 DEF Asked
<1> QED BY <1>1, <1>3, <1>4, <1>5, <1>7 DEF Sends, Block, Fits

LEMMA ReadDataFollows == ASSUME DInv, ReadData PROVE Follows'
<1>1. InUse /\ at.phase = "data"
  BY Busy, Standing DEF ReadData, InUse, DInv
<1>2. /\ at.cmd \in {"CMD9", "CMD17", "CMD18"} /\ Serves(at.cmd, "data") /\ store' = store
      /\ at = [cmd |-> at.cmd, phase |-> "data"]
  BY <1>1, Situation DEF Serves, DInv, ReadData
<1>3. CASE \E r : Return(r) \/ End(r)
  BY <1>3, Unbound DEF Return, End
<1>4. CASE Delay("error") /\ UNCHANGED card
  <2>1. CASE UNCHANGED <<at, cardType, locals>>
    BY <1>2, <1>4, <2>1 DEF DInv, Follows, InUse, Idle, InStep, ReadRight, WriteRight, Stored, Asked, locals
  <2> QED BY <1>3, <1>4, <2>1 DEF Delay
<1>5. ASSUME Sends, card' = SentBlock, NEW block, Arrived(block), UseCrc => block = Block PROVE Follows'
  <2>1. CASE at.cmd # "CMD18"
    BY <1>3, <1>5, <2>1 DEF Arrived
  <2>2. CASE at.cmd = "CMD18"
    <3>1. /\ card.task = "stream" /\ card.pos = call.start + Len(got) + sent /\ sent = 0
          /\ card.mode = "ready" /\ card.pos \in BlockIdx /\ Block = store[Asked(Len(got) + 1)]
      BY <1>1, <1>5, <2>2, Sending DEF Task
    <3>2. /\ got \in Seq(Int) /\ got' = Append(got, block) /\ call' = call /\ sent' = 0
          /\ call.kind = "read" /\ call.start \in Nat /\ Len(got) \in Nat
      BY <1>2, <1>5, <2>2, <3>1 DEF Arrived, Command, DInv, UInv, Bounds, CallSound, Serves
    <3>3. UseCrc => ReadRight'
      <4> SUFFICES ASSUME UseCrc, NEW i \in 1 .. Len(got) + 1
                   PROVE  Append(got, block)[i] = store[Asked(i)]
        BY <1>2, <3>2 DEF ReadRight, Asked
      <4>1. ReadRight
        BY <1>1, <3>1 DEF DInv, Follows
      <4>2. CASE i = Len(got) + 1
        BY <1>5, <3>1, <3>2, <4>2
      <4>3. CASE i \in 1 .. Len(got)
        BY <3>2, <4>1, <4>3 DEF ReadRight
      <4> QED BY <3>2, <4>2, <4>3
    <3>4. WriteRight'
      BY <3>2 DEF WriteRight
    <3>5. InStep'
      <4>1. CASE at' = at
        <5>1. card'.task = card.task /\ card'.pos = card.pos + 1
          BY <1>5, <3>1, SizeAssumption, Given DEF SentBlock, AfterBlock, BlockIdx, CardRec, DInv
        <5>2. Len(got') = Len(got) + 1
          BY <3>2
        <5>3. card'.pos = call'.start + Len(got') + sent'
          <6>1. call'.start = call.start /\ sent' = 0 /\ call.start \in Nat /\ Len(got) \in Nat
            BY <3>2
          <6>2. card.pos = call.start + Len(got)
            BY <3>1, <6>1
          <6> QED BY <5>1, <5>2, <6>1, <6>2
        <5>4. at'.cmd = "CMD18" /\ at'.phase = "data" /\ card'.task = Task["CMD18"]
          BY <1>2, <2>2, <3>1, <4>1, <5>1 DEF Task
        <5> QED BY <5>3, <5>4 DEF InStep
      <4>2. CASE Command("CMD12")
        <5>1. at'.cmd = "CMD12" /\ at'.phase = "send"
          BY <4>2 DEF Command
        <5> QED BY <5>1 DEF InStep
      <4> QED BY <1>5, <2>2, <4>1, <4>2 DEF Arrived
    <3> QED BY <3>3, <3>4, <3>5 DEF Follows
  <2> QED BY <2>1, <2>2
<1>6. CASE Sends /\ card' = SentBlock /\ Arrived(Block)
  BY <1>5, <1>6
<1>7. CASE Sends /\ card' = SentBlock /\ Damaged
  BY <1>3, <1>5, <1>7 DEF Damaged
<1> QED BY <1>3, <1>4, <1>6, <1>7 DEF ReadData

\* The card takes the block that the driver has come to, in its place.
LEMMA Taking ==
  ASSUME DInv, InUse, at.phase = "block", Takes
  PROVE  /\ card.task = Task[at.cmd] /\ card.pos \in BlockIdx /\ card.pos = Asked(sent + 1)
         /\ at.cmd \in {"CMD24", "CMD25"} /\ card.mode = "ready" /\ got = << >>
         /\ call.kind = "write" /\ call.start \in Nat
         /\ call.count \in Nat /\ sent \in Nat /\ sent + 1 \in 1 .. call.count
<1>1. /\ Serves(at.cmd, "block") /\ Counts(at.cmd, "block") /\ at.cmd \in {"CMD24", "CMD25"}
      /\ call.kind = "write" /\ got = << >> /\ sent \in Nat /\ call.count \in Nat \ {0}
      /\ call.start \in Nat /\ sent < call.count
  BY Situation DEF DInv, Serves, Counts, UInv, Bounds, CallSound
<1>2. card.task = Task[at.cmd] /\ card.task # None /\ card.pos \in BlockIdx
  BY <1>1 DEF Takes, Task, None
<1>3. card.mode = "ready"
  BY <1>2, Given DEF DInv, Sane, Quiet
<1>4. card.pos = call.start + Len(got) + sent
  BY <1>1, <1>2, <1>3 DEF DInv, Follows, InStep, Transfers
<1>5. card.pos = Asked(sent + 1)
  BY <1>1, <1>4 DEF Asked
<1> QED BY <1>1, <1>2, <1>3, <1>5

LEMMA WriteDataFollows == ASSUME DInv, WriteData PROVE Follows'
<1>1. InUse /\ at.phase = "block" /\ at = [cmd |-> at.cmd, phase |-> at.phase]
  BY Busy, Standing DEF WriteData, InUse, DInv
<1>2. CASE Return("error")
  BY <1>2, Unbound DEF Return, End
<1>3. CASE Takes /\ Program /\ Accepted
  <2>1. /\ card.task = Task[at.cmd] /\ card.pos \in BlockIdx /\ card.pos = Asked(sent + 1)
        /\ at.cmd \in {"CMD24", "CMD25"} /\ card.mode = "ready" /\ got = << >>
        /\ call.kind = "write" /\ call.start \in Nat
        /\ call.count \in Nat /\ sent \in Nat /\ sent + 1 \in 1 .. call.count
    BY <1>1, <1>3, Taking
  <2>2. /\ sent' = sent + 1 /\ UNCHANGED <<call, got>>
        /\ at'.cmd = at.cmd /\ at'.phase = "pause"
    BY <1>1, <1>3, <2>1 DEF Accepted, Phase
  <2>3. card \in CardRec /\ store \in [BlockIdx -> Int]
    BY Given DEF DInv, UInv, Bounds
  <2>4. ReadRight'
    BY <2>1, <2>2 DEF ReadRight
  <2>5. InStep'
    <3>1. CASE at.cmd = "CMD24"
      <4>1. card.task = "receive"
        BY <2>1, <3>1 DEF Task
      <4>2. AfterBlock("receiveMany") = [card EXCEPT !.task = None, !.pos = 0]
        BY <4>1 DEF AfterBlock
      <4>3. AfterBlock("receiveMany") \in CardRec /\ AfterBlock("receiveMany").task = None
        BY <2>3, <4>2, Given, BlockSent DEF DInv, CardRec
      <4>4. TookBlock \in CardRec /\ TookBlock.task = None
        BY <4>3 DEF TookBlock, CardRec
      <4>5. card'.task = None
        BY <1>3, <4>4 DEF Program, CardRec
      <4> QED BY <2>2, <3>1, <4>5 DEF InStep
    <3>2. CASE at.cmd = "CMD25"
      <4> DEFINE k == [card EXCEPT !.pos = card.pos + 1]
      <4>1. card.task = "receiveMany"
        BY <2>1, <3>2 DEF Task
      <4>2. AfterBlock("receiveMany") = k
        <5>1. AfterBlock("receiveMany") = [card EXCEPT !.pos = IF card.pos < Capacity THEN card.pos + 1 ELSE card.pos]
          BY <4>1 DEF AfterBlock
        <5>2. card.pos < Capacity
          BY <2>1, SizeAssumption DEF BlockIdx
        <5> QED BY <5>1, <5>2
      <4>3. k.task = "receiveMany" /\ k.pos = card.pos + 1
        BY <2>3, <4>1 DEF CardRec
      <4>4. TookBlock.task = k.task /\ TookBlock.pos = k.pos
        <5>1. TookBlock = [k EXCEPT !.busy = TRUE]
          BY <4>2 DEF TookBlock
        <5> QED BY <2>3, <5>1 DEF CardRec
      <4>5. card'.task = TookBlock.task /\ card'.pos = TookBlock.pos
        <5>1. CASE card' = TookBlock
          BY <5>1
        <5>2. CASE card' = [TookBlock EXCEPT !.failed = TRUE]
          <6>1. AfterBlock("receiveMany") \in CardRec
            BY <2>3, Given, BlockSent DEF DInv
          <6>2. TookBlock \in CardRec
            BY <6>1 DEF TookBlock, CardRec
          <6> QED BY <5>2, <6>2 DEF CardRec
        <5> QED BY <1>3, <5>1, <5>2 DEF Program
      <4> HIDE DEF k
      <4>6. card'.task = Task["CMD25"] /\ card'.pos = card.pos + 1
        BY <4>3, <4>4, <4>5 DEF Task
      <4>7. card'.pos = call'.start + Len(got') + sent'
        BY <2>1, <2>2, <4>6 DEF Asked
      <4> QED BY <2>2, <3>2, <4>6, <4>7 DEF InStep
    <3> QED BY <2>1, <3>1, <3>2
  <2>6. WriteRight'
    <3>1. card.failed \/ Stored(sent)
      <4>1. WriteRight
        BY <1>1, <2>1 DEF DInv, Follows
      <4> QED BY <2>1, <4>1 DEF WriteRight
    <3>2. TookBlock.failed = card.failed
      BY <2>3 DEF TookBlock, AfterBlock, CardRec
    <3>3. CASE card' = [TookBlock EXCEPT !.failed = TRUE]
      <4>1. card'.failed
        BY <2>3, <3>3 DEF TookBlock, AfterBlock, CardRec
      <4> QED BY <4>1 DEF WriteRight
    <3>4. CASE store' = [store EXCEPT ![card.pos] = call.data[sent + 1]] /\ card' = TookBlock
      <4>1. CASE card.failed
        BY <3>2, <3>4, <4>1 DEF WriteRight
      <4>2. CASE Stored(sent)
        <5> SUFFICES ASSUME NEW i \in 1 .. sent + 1 PROVE store'[Asked(i)] = call.data[i]
          BY <2>2 DEF WriteRight, Stored, Asked
        <5>1. CASE i = sent + 1
          BY <2>1, <2>3, <3>4, <5>1
        <5>2. CASE i \in 1 .. sent
          <6>1. store[Asked(i)] = call.data[i]
            BY <4>2, <5>2 DEF Stored
          <6>2. Asked(i) # card.pos
            BY <2>1, <5>2 DEF Asked
          <6>3. store'[Asked(i)] = store[Asked(i)]
            BY <2>3, <3>4, <6>2
          <6> QED BY <6>1, <6>3
        <5> QED BY <2>1, <5>1, <5>2
      <4> QED BY <3>1, <4>1, <4>2
    <3> QED BY <1>3, <3>3, <3>4 DEF Program
  <2> QED BY <2>4, <2>5, <2>6 DEF Follows
<1> QED BY <1>2, <1>3 DEF WriteData

LEMMA CallFollows == ASSUME UInv', Call PROVE Follows'
<1>1. CASE MarkCardUninit
  BY <1>1, Unbound DEF MarkCardUninit
<1>2. ASSUME NEW c, Begin(c), c.kind \in {"size", "read", "write"} PROVE Follows'
  <2>1. CASE cardType = None
    BY <1>2, <2>1, Unbound DEF Begin
  <2>2. CASE cardType # None
    <3>1. got' = << >> /\ sent' = 0 /\ Command(FirstCommand(c))
      BY <1>2, <2>2 DEF Begin
    <3>2. FirstCommand(c) \notin {"CMD0", "CMD12"}
      BY <1>2 DEF FirstCommand
    <3>3. at'.phase = "wait"
      BY <3>1, <3>2 DEF Command
    <3> QED BY <3>1, <3>3, Fresh
  <2> QED BY <2>1, <2>2
<1> QED BY <1>1, <1>2 DEF Call, Size, ReadBlocks, WriteBlocks

LEMMA FollowsStep == ~ Persistent /\ DInv /\ UInv' /\ [Next]_vars => Follows'
<1> SUFFICES ASSUME ~ Persistent, DInv, UInv', [Next]_vars PROVE Follows'
  OBVIOUS
<1>1. CASE Advance
  <2>1. CASE StopTran
    BY <2>1, Unbound DEF StopTran, Return, End
  <2> QED BY <1>1, <2>1, WaitFollows, SendFollows, AnswerFollows, ReadDataFollows, WriteDataFollows DEF Advance
<1>2. CASE Call
  BY <1>2, CallFollows
<1>3. CASE TransportError
  BY <1>3, Unbound DEF TransportError, Return, End
<1>4. CASE Exchange
  BY <1>4, Unbound DEF Exchange, Inserted
<1>5. CASE UNCHANGED vars
  BY <1>5 DEF vars, DInv, Follows, InUse, Idle, InStep, ReadRight, WriteRight, Stored, Asked
<1> QED BY <1>1, <1>2, <1>3, <1>4, <1>5 DEF Next

LEMMA DInvariant == ASSUME ~ Persistent PROVE Spec => []DInv
<1>1. Init => DInv
  BY InitLemma, UInit DEF DInv, Init, Follows, InUse, Idle
<1>2. DInv /\ [Next]_vars => DInv'
  BY StepLemma, UStep, FollowsStep DEF DInv
<1> QED BY <1>1, <1>2, PTL DEF Spec

-----------------------------------------------------------------------------
(* What the calls do *)

\* What a step may change on a card (WritesContained).
Contained ==
  card'.mode = "off" \/
    \A b \in BlockIdx : store'[b] # store[b] =>
      /\ call.kind = "write"
      /\ \E i \in 1 .. call.count : b = Asked(i) /\ store'[b] = call.data[i]

LEMMA StepContained == DInv /\ [Next]_vars => Contained
<1> SUFFICES ASSUME DInv, [Next]_vars PROVE Contained
  OBVIOUS
<1>1. CASE store' = store
  BY <1>1 DEF Contained
<1>2. CASE WriteData /\ Takes /\ Program
  <2>1. InUse /\ at.phase = "block"
    BY <1>2, Busy, Standing DEF WriteData, InUse, DInv
  <2>2. /\ call.kind = "write" /\ sent + 1 \in 1 .. call.count /\ card.pos = Asked(sent + 1)
        /\ store \in [BlockIdx -> Int]
    BY <1>2, <2>1, Taking DEF DInv, UInv, Bounds
  <2>3. CASE store' = [store EXCEPT ![card.pos] = call.data[sent + 1]]
    <3> SUFFICES ASSUME NEW b \in BlockIdx, store'[b] # store[b]
                 PROVE  \E i \in 1 .. call.count : b = Asked(i) /\ store'[b] = call.data[i]
      BY <2>2 DEF Contained
    <3>1. b = card.pos /\ store'[b] = call.data[sent + 1]
      BY <2>2, <2>3
    <3> QED BY <2>2, <3>1
  <2> QED BY <1>1, <1>2, <2>3 DEF Program
<1>3. CASE Exchange
  BY <1>3 DEF Exchange, Inserted, Contained
<1>4. CASE MarkCardUninit \/ \E c : Begin(c)
  BY <1>1, <1>4 DEF MarkCardUninit, Begin
<1> QED
  BY <1>1, <1>2, <1>3, <1>4
     DEF vars, Next, Advance, Call, Wait, Send, Answer, ReadData, WriteData, StopTran, Size,
         ReadBlocks, WriteBlocks, TransportError

\* Nothing on a card changes but the blocks that a write is asked to change, and
\* they become what it is asked to write (write and write_data), whatever fails
\* in it and wherever, if a card does not go on with a transfer for ever.
THEOREM OnlyWhatIsWritten == ASSUME ~ Persistent PROVE Spec => WritesContained
<1>1. Spec => []DInv
  BY DInvariant
<1>2. DInv /\ [Next]_vars => [Contained]_vars
  BY StepContained
<1> QED BY <1>1, <1>2, PTL DEF Spec, WritesContained, Contained

\* A call that has read what it asked for.
LEMMA ReadDone ==
  ASSUME call.kind = "read", call.count \in Nat, got \in Seq(Int), Len(got) = call.count, ReadRight
  PROVE  got = [i \in 1 .. call.count |-> store[Asked(i)]]
BY DEF ReadRight

LEMMA StepDone == ASSUME UseCrc, DInv, [Next]_vars, ret' = "ok", ret # "ok" PROVE Done'
<1>1. ret' # ret
  OBVIOUS
<1>2. CASE ReadData
  <2>1. InUse /\ at.phase = "data" /\ store' = store
    BY <1>2, Busy, Standing DEF ReadData, InUse, DInv
  <2>2. Sends /\ Arrived(Block) /\ Fits
    BY <1>1, <1>2 DEF ReadData, Delay, Damaged, Return, End
  <2>3. /\ at.cmd \in {"CMD9", "CMD17", "CMD18"} /\ Serves(at.cmd, "data") /\ Counts(at.cmd, "data")
        /\ at.cmd # "CMD9" => Block = store[Asked(Len(got) + 1)]
        /\ at.cmd = "CMD9" => Block = Csd
    BY <2>1, <2>2, Sending, Situation DEF DInv
  <2>4. at.cmd # "CMD18" /\ End("ok") /\ got' = Append(got, Block)
    BY <1>1, <2>2 DEF Arrived
  <2>5. got = << >> /\ call' = call /\ got' = <<Block>>
    <3>1. got = << >> /\ call' = call
      BY <2>3, <2>4 DEF Counts, End
    <3>2. \A b : Append(<< >>, b) = <<b>>
      OBVIOUS
    <3> QED BY <2>4, <3>1, <3>2
  <2>6. CASE at.cmd = "CMD9"
    BY <2>3, <2>5, <2>6 DEF Serves, Done
  <2>7. CASE at.cmd = "CMD17"
    <3>1. call.kind = "read" /\ call.count = 1 /\ Block = store[Asked(1)]
      BY <2>3, <2>5, <2>7 DEF Serves
    <3>2. got' = [i \in 1 .. 1 |-> store[Asked(i)]]
      BY <2>5, <3>1
    <3> QED BY <2>1, <2>5, <3>1, <3>2 DEF Done, Asked
  <2> QED BY <2>3, <2>4, <2>6, <2>7
<1>3. CASE Answer
  <2>1. PICK p \in Poll : p.byte # "FF" /\ card' = p.card /\ Answered(p.byte, p.rest)
    BY <1>1, <1>3 DEF Answer, IsResponse, Delay, Again, Return, End
  <2>2. ~ Idle /\ at.phase = "answer" /\ store' = store
    BY <1>3, Busy DEF Answer, DInv
  <2> DEFINE r1 == p.byte
             rest == p.rest
  <2>3. Answered(r1, rest)
    BY <2>1
  <2> HIDE DEF r1, rest
  <2>4. Return("ok") /\ (at.cmd = "CMD12" \/ (at.cmd = "CMD13" /\ r1 = "00" /\ rest = "00"))
    BY <1>1, <2>3 DEF Answered, Again, Proceed, Acquired, Return, End
  <2>5. InUse /\ at.cmd \in {"CMD12", "CMD13"}
    BY <2>2, <2>4, Standing DEF InUse, DInv, Acquiring
  <2>6. /\ Serves(at.cmd, "answer") /\ Counts(at.cmd, "answer") /\ call' = call /\ got' = got
        /\ call.count \in Nat /\ got \in Seq(Int)
    BY <2>2, <2>4, <2>5, Situation DEF DInv, Return, End, UInv, Bounds, CallSound
  <2>7. card \in CardRec /\ Sane(card)
    BY Given DEF DInv
  <2>8. card.mode # "off"
    BY <2>1, <2>7, Polled
  <2>9. InStep /\ ReadRight /\ WriteRight
    BY <2>5, <2>8 DEF DInv, Follows
  <2>10. CASE at.cmd = "CMD12"
    <3>1. got = [i \in 1 .. call.count |-> store[Asked(i)]] /\ call.kind = "read"
      BY <2>6, <2>9, <2>10, ReadDone DEF Serves, Counts
    <3> QED BY <2>2, <2>6, <3>1 DEF Done, Asked
  <2>11. CASE at.cmd = "CMD13"
    <3>1. call.kind = "write" /\ sent = call.count
      BY <2>6, <2>11 DEF Serves, Counts
    <3>2. ~ card.busy /\ card.task = None
      BY <2>2, <2>9, <2>11 DEF InStep, Transfers
    <3>3. rest = card.out.rest
      BY <2>1, <2>7, <3>2, Polled DEF Quiet, rest
    <3>4. card'.mode = card.mode /\ card'.failed = card.failed
      BY <2>1, <2>7, PolledTask
    <3>5. card.mode # "ready" \/ card.failed \/ Stored(call.count)
      BY <2>4, <2>9, <2>11, <3>1, <3>3 DEF WriteRight
    <3> QED BY <2>2, <2>6, <3>1, <3>4, <3>5 DEF Done, Asked, Stored
  <2> QED BY <2>5, <2>10, <2>11
<1>4. CASE StopTran
  <2>1. InUse /\ at.phase = "stop" /\ store' = store /\ Return("ok")
    BY <1>4, Busy, Standing DEF StopTran, InUse, DInv
  <2>2. /\ Serves(at.cmd, "stop") /\ Counts(at.cmd, "stop") /\ call' = call
    BY <2>1, Situation DEF DInv, Return, End
  <2>3. call.kind = "write" /\ sent = call.count /\ at.cmd = "CMD25"
    BY <2>2 DEF Serves, Counts
  <2>4. card'.mode = card.mode /\ card'.failed = card.failed
    BY <1>4, Given DEF DInv, StopTran, CardRec
  <2>5. card.mode # "ready" \/ card.failed \/ Stored(call.count)
    BY <2>1, <2>3 DEF DInv, Follows, WriteRight
  <2> QED BY <2>1, <2>2, <2>3, <2>4, <2>5 DEF Done, Asked, Stored
<1>5. CASE Wait \/ WriteData \/ Send
  BY <1>1, <1>5 DEF Wait, WriteData, Send, Delay, Return, End, Accepted
<1>6. CASE TransportError \/ Exchange \/ MarkCardUninit \/ (\E c : Begin(c))
  BY <1>1, <1>6 DEF TransportError, Exchange, MarkCardUninit, Begin, Return, End
<1> QED
  BY <1>1, <1>2, <1>3, <1>4, <1>5, <1>6
     DEF vars, Next, Advance, Call, Size, ReadBlocks, WriteBlocks

\* A call that returns Ok did what it was asked for (read, write and num_blocks),
\* whatever went wrong in it and in the calls before it, if blocks have a CRC
\* and a card does not go on with a transfer for ever.
THEOREM OkIsDone == ASSUME ~ Persistent, UseCrc PROVE Spec => OkMeansDone
<1>1. Spec => []DInv
  BY DInvariant
<1>2. DInv /\ [Next]_vars => [ret' = "ok" /\ ret # "ok" => Done']_vars
  BY StepDone
<1> QED BY <1>1, <1>2, PTL DEF Spec, OkMeansDone
=============================================================================
