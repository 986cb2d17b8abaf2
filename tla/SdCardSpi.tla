------------------------------ MODULE SdCardSpi ------------------------------
(***************************************************************************)
(* The driver of an SD card on an SPI bus (sdcard/spi.rs): acquiring the   *)
(* card, reading and writing one block or several, reading the CSD; every  *)
(* wait with its limit, every answer that is checked and every one that is *)
(* not.                                                                    *)
(*                                                                         *)
(* The card, the lower half of "card", is not part of the repository.  It  *)
(* is as the driver takes it to be: it moves only when the driver clocks   *)
(* it; it may be slow to answer, to send a block, to stop being busy; it   *)
(* may be put in or taken out at any time, or fail to read or program a    *)
(* block.  A byte is named by its value.  A frame of a command, a response *)
(* with all its bytes, and a block with its CRC are transferred whole.     *)
(***************************************************************************)
EXTENDS Integers, Sequences

CONSTANTS
  Capacity,         \* blocks of a card
  Content,          \* what the first card has in them,
  OtherContent,     \* and what any other has
  Buffers,          \* what callers write: sequences of blocks
  MaxCount,         \* the most blocks a caller reads at once
  BlockLen,         \* 512
  AddressMod,       \* 2^32
  Retries,          \* of every Delay but
  AcquireRetries,   \* that of the first command (AcquireOpts)
  UseCrc,           \* AcquireOpts::use_crc
  Persistent,       \* a card goes on with a transfer until it is stopped
  MaxFaults         \* how often something goes wrong

BlockIdx == 0 .. Capacity - 1
Csd == Capacity     \* what the CSD of a card says,
Garbage == -1       \* and bytes that are no block of it

ASSUME SizeAssumption ==
  /\ {Capacity, MaxCount, BlockLen} \subseteq Nat \ {0}
  /\ AddressMod \in Nat /\ Capacity * BlockLen <= AddressMod
  /\ {Retries, AcquireRetries, MaxFaults} \subseteq Nat
  /\ {UseCrc, Persistent} \subseteq BOOLEAN
  /\ {Content, OtherContent} \subseteq [BlockIdx -> Int]
  /\ \A b \in Buffers : b \in Seq(Int) /\ Len(b) > 0

CardType == {"SD1", "SD2", "SdhcSdxc"}
None == "None"

VARIABLES
  cardType,   \* card_type: None, or what acquire found
  at,         \* where the call stands: a command, and a phase of it
  left,       \* retries left of the Delay in use
  outer,      \* and of that of the loop around it, in acquire
  found,      \* the local card_type of acquire
  call,       \* the call under way
  got,        \* the blocks it has read
  sent,       \* how many it has written
  ret,        \* the result of the last call
  card,       \* the card: what it is, its state, what it is about to send
  store,      \* its blocks
  faults      \* how often something has gone wrong

vars == <<cardType, at, left, outer, found, call, got, sent, ret, card, store, faults>>

locals == <<found, call, got, sent>>

NoCall == [kind |-> "none", start |-> 0, data |-> << >>, count |-> 0]
Resting == [cmd |-> None, phase |-> "idle"]
Idle == at = Resting

Fails == faults < MaxFaults /\ faults' = faults + 1
Works == UNCHANGED faults

-----------------------------------------------------------------------------
(* The card: what it does with a frame, and what it sends *)

NoAnswer == [r1 |-> "FF", rest |-> "FF"]

\* A card that has just been put in takes no command but CMD0.
Inserted(kind) == [kind |-> kind, mode |-> "off", crc |-> FALSE, out |-> NoAnswer,
                   task |-> None, pos |-> 0, busy |-> FALSE, failed |-> FALSE]

Transmitting == card.task \in {"csd", "read", "stream"}

Respond(k, r1, rest) == [k EXCEPT !.out = [r1 |-> r1, rest |-> rest]]
R1 == IF card.mode = "idle" THEN "01" ELSE "00"

\* Byte addresses or block numbers.
Addressed(arg) == IF card.kind = "SdhcSdxc" THEN arg ELSE arg \div BlockLen
ValidAddress(arg) ==
  /\ card.kind = "SdhcSdxc" \/ arg % BlockLen = 0
  /\ Addressed(arg) \in BlockIdx

StartTask(k, task, arg) ==
  IF k.mode = "ready" /\ ValidAddress(arg)
  THEN Respond([k EXCEPT !.task = task, !.pos = Addressed(arg)], "00", "FF")
  ELSE Respond(k, IF k.mode = "ready" THEN "20" ELSE "05", "FF")

Task == [CMD9 |-> "csd", CMD17 |-> "read", CMD18 |-> "stream",
         CMD24 |-> "receive", CMD25 |-> "receiveMany"]

\* The card drops what it was at.
Dropped == [card EXCEPT !.task = None, !.pos = 0, !.out = NoAnswer]

\* What the card does with a command that it obeys.  To ACMD41 it may answer
\* that it is not ready yet, and if it has a high capacity it is not before the
\* driver says that it can deal with that.
Obey(cmd, arg) ==
  LET k == Dropped IN
  \/ cmd = "CMD8" /\ card' = IF k.kind = "SD1" THEN Respond(k, "05", "FF")
                              ELSE Respond(k, R1, "AA")
  \/ cmd = "CMD59" /\ card' = Respond([k EXCEPT !.crc = TRUE], R1, "FF")
  \/ cmd = "ACMD41" /\ card' = Respond(k, R1, "FF")
  \/ /\ cmd = "ACMD41"
     /\ k.kind # "SdhcSdxc" \/ arg # 0
     /\ card' = Respond([k EXCEPT !.mode = "ready"], "00", "FF")
  \/ cmd = "CMD58" /\ card' = Respond(k, R1, IF k.kind = "SdhcSdxc" THEN "C0" ELSE "80")
  \/ cmd = "CMD13" /\ card' = Respond([k EXCEPT !.failed = FALSE], R1,
                                      IF k.failed THEN "04" ELSE "00")
  \/ cmd = "CMD12" /\ card' = Respond([k EXCEPT !.busy = (card.task = "stream")], "00", "FF")
  \/ cmd \in DOMAIN Task /\ card' = StartTask(k, Task[cmd], arg)
  \/ cmd \in {"CMD55", "ACMD23"} /\ card' = Respond(k, R1, "FF")

\* A card that is busy, or has just been put in, does not listen.  A transfer of
\* blocks may go on until it is stopped.
Deaf(cmd) == card.busy \/ (card.mode = "off" /\ cmd # "CMD0")
Endless == Persistent /\ card.task \in {"stream", "receiveMany"}
GoesOn(cmd) == Endless /\ ~ (cmd = "CMD12" /\ card.task = "stream")

\* A frame reaches the card.
Receive(cmd, arg) ==
  IF Deaf(cmd) THEN UNCHANGED card
  ELSE \/ /\ cmd = "CMD0"
          /\ card' = Respond([Inserted(card.kind) EXCEPT !.mode = "idle"], "01", "FF")
       \/ /\ cmd # "CMD0"
          /\ IF GoesOn(cmd) THEN card' = Respond(card, "04", "FF") ELSE Obey(cmd, arg)

\* A frame does not get through: the card stops what it did, or goes on.
Garbled == IF Endless THEN card ELSE Dropped

\* The card after a block: it goes on with the next, to the last, or is done.
AfterBlock(task) ==
  IF card.task = task THEN [card EXCEPT !.pos = IF @ < Capacity THEN @ + 1 ELSE @]
  ELSE [card EXCEPT !.task = None, !.pos = 0]
SentBlock == AfterBlock("stream")

\* What one byte from the card may be, and the card after it.  It may always be
\* that there is nothing yet.  A block that goes by holds any byte.
Poll ==
  IF card.busy
  THEN {[byte |-> "00", rest |-> "FF", card |-> card],
        [byte |-> "FF", rest |-> "FF", card |-> [card EXCEPT !.busy = FALSE]]}
  ELSE {[byte |-> "FF", rest |-> "FF", card |-> card],
        [byte |-> card.out.r1, rest |-> card.out.rest, card |-> [card EXCEPT !.out = NoAnswer]]}
       \cup (IF Transmitting /\ card.out = NoAnswer
             THEN {[byte |-> "00", rest |-> "FF", card |-> SentBlock]} ELSE {})

-----------------------------------------------------------------------------
(* How calls go on *)

\* card_command waits for the card, but for CMD0 and CMD12.
Command(cmd) ==
  /\ at' = [cmd |-> cmd, phase |-> IF cmd \in {"CMD0", "CMD12"} THEN "send" ELSE "wait"]
  /\ left' = Retries

Phase(p) == at' = [at EXCEPT !.phase = p] /\ left' = Retries

\* A call returns r, and what it was doing is forgotten unless that is Ok.
End(r) ==
  /\ at' = Resting /\ ret' = r
  /\ left' = 0 /\ outer' = 0 /\ found' = None
  /\ IF r = "ok" THEN UNCHANGED <<call, sent>> ELSE call' = NoCall /\ sent' = 0
  /\ UNCHANGED cardType

Return(r) == End(r) /\ got' = IF r = "ok" THEN got ELSE << >>

\* Delay::delay, with a retry or the end of the call, and its mutant.
DelayForever(r) == UNCHANGED <<at, left, outer, cardType, locals, ret>>
Delay(r) ==
  \/ left > 0 /\ left' = left - 1 /\ UNCHANGED <<at, outer, cardType, locals, ret>>
  \/ left = 0 /\ Return(r)

\* The same for a loop around commands.
Again(cmd) ==
  \/ /\ outer > 0 /\ outer' = outer - 1
     /\ Command(cmd)
     /\ UNCHANGED <<cardType, locals, ret>>
  \/ outer = 0 /\ Return("error")

\* On to the next command, in a new loop if there is one around it.
Proceed(cmd) == Command(cmd) /\ outer' = Retries /\ UNCHANGED <<cardType, locals, ret>>

\* The first command of a call.
FirstCommand(c) ==
  CASE c.kind = "size"  -> "CMD9"
    [] c.kind = "read"  -> IF c.count = 1 THEN "CMD17" ELSE "CMD18"
    [] c.kind = "write" -> IF c.count = 1 THEN "CMD24" ELSE "CMD55"

\* The end of acquire, whose last byte is as good as the first of the next wait,
\* and its mutant, which forgets the capacity it asked for.
AcquiredAsFound(type) ==
  /\ cardType' = found
  /\ Command(FirstCommand(call))
  /\ outer' = 0 /\ found' = None
  /\ UNCHANGED <<call, got, sent, ret>>

Acquired(type) ==
  /\ cardType' = type
  /\ Command(FirstCommand(call))
  /\ outer' = 0 /\ found' = None
  /\ UNCHANGED <<call, got, sent, ret>>

\* The argument of a command: 512 times the number of a block for cards of
\* standard capacity, in 32 bits.  Mutant: without regard to the type.
AddressOfBlock == call.start * BlockLen
Address ==
  IF cardType = "SdhcSdxc" THEN call.start ELSE (call.start * BlockLen) % AddressMod

Argument(cmd) ==
  CASE cmd \in {"CMD17", "CMD18", "CMD24", "CMD25"} -> Address
    [] cmd = "ACMD41" -> IF found = "SD1" THEN 0 ELSE 1
    [] OTHER -> 0

-----------------------------------------------------------------------------
(* Commands *)

\* What the card is waited for: the frame of a command; CMD25 or CMD13, which
\* then waits once more; the next block, or the end of several.
Waited ==
  \/ at.phase = "wait" /\ Phase("send")
  \/ at.phase = "pause" /\ at.cmd = "ACMD23" /\ Command("CMD25")
  \/ at.phase = "pause" /\ at.cmd = "CMD24" /\ Command("CMD13")
  \/ /\ at.phase = "pause" /\ at.cmd = "CMD25"
     /\ Phase(IF sent = call.count THEN "stop" ELSE "block")

\* wait_not_busy, in card_command and in write (Delay::new_command, new_write).
Wait ==
  /\ at.phase \in {"wait", "pause"}
  /\ \E p \in Poll :
       /\ card' = p.card
       /\ IF p.byte # "FF" THEN Delay("error")
          ELSE Waited /\ UNCHANGED <<cardType, locals, outer, ret>>
  /\ Works /\ UNCHANGED store

\* The frame is written, and may not get through.
Send ==
  /\ at.phase = "send"
  /\ \/ Receive(at.cmd, Argument(at.cmd)) /\ Works
     \/ Fails /\ card' = Garbled
  /\ Phase("answer")
  /\ UNCHANGED <<cardType, locals, outer, ret, store>>

\* The response to each command, with the bytes that follow.
Answered(r1, rest) ==
  \/ at.cmd = "CMD0"  /\ IF r1 = "01" THEN Proceed(IF UseCrc THEN "CMD59" ELSE "CMD8")
                         ELSE Again("CMD0")
  \/ at.cmd = "CMD59" /\ IF r1 = "01" THEN Proceed("CMD8") ELSE Return("error")
  \/ /\ at.cmd = "CMD8"
     /\ IF r1 = "05" \/ rest = "AA"
        THEN /\ found' = IF r1 = "05" THEN "SD1" ELSE "SD2"
             /\ Command("CMD55") /\ outer' = Retries
             /\ UNCHANGED <<cardType, call, got, sent, ret>>
        ELSE Again("CMD8")
  \/ /\ at.cmd = "CMD55"      \* whatever the response
     /\ Command(IF cardType = None THEN "ACMD41" ELSE "ACMD23")
     /\ UNCHANGED <<cardType, locals, outer, ret>>
  \/ /\ at.cmd = "ACMD41"
     /\ IF r1 # "00" THEN Again("CMD55")
        ELSE IF found = "SD2" THEN Proceed("CMD58") ELSE Acquired(found)
  \/ /\ at.cmd = "CMD58"
     /\ IF r1 # "00" THEN Return("error")
        ELSE Acquired(IF rest = "C0" THEN "SdhcSdxc" ELSE found)
  \/ /\ at.cmd = "CMD9"
     /\ IF r1 # "00" THEN Return("error")
        ELSE Phase("data") /\ UNCHANGED <<cardType, locals, outer, ret>>
  \/ /\ at.cmd \in {"CMD17", "CMD18"}   \* whatever the response
     /\ Phase("data") /\ UNCHANGED <<cardType, locals, outer, ret>>
  \/ at.cmd = "CMD12" /\ Return("ok")   \* whatever the response
  \/ /\ at.cmd = "ACMD23"               \* whatever the response
     /\ Phase("pause") /\ UNCHANGED <<cardType, locals, outer, ret>>
  \/ /\ at.cmd \in {"CMD24", "CMD25"}   \* whatever the response
     /\ Phase(IF at.cmd = "CMD24" THEN "block" ELSE "pause")
     /\ UNCHANGED <<cardType, locals, outer, ret>>
  \/ at.cmd = "CMD13" /\ Return(IF r1 = "00" /\ rest = "00" THEN "ok" ELSE "error")

\* Bytes with the highest bit set are no response.
IsResponse(byte) == byte # "FF"

\* Polling for the response.  After CMD0 has timed out the card is flushed with
\* bytes, and the command sent again.
Answer ==
  /\ at.phase = "answer"
  /\ \E p \in Poll :
       IF IsResponse(p.byte) THEN card' = p.card /\ Answered(p.byte, p.rest)
       ELSE IF at.cmd = "CMD0" /\ left = 0
       THEN card' = [p.card EXCEPT !.out = NoAnswer] /\ Again("CMD0")
       ELSE card' = p.card /\ Delay("error")
  /\ Works /\ UNCHANGED store

-----------------------------------------------------------------------------
(* Blocks *)

\* A block has arrived: the one asked for, one of several, the last of them.
\* Mutant: one too many is taken.
ArrivedOneMore(block) ==
  /\ got' = Append(got, block)
  /\ IF at.cmd # "CMD18" THEN End("ok")
     ELSE IF Len(got') <= call.count
     THEN left' = Retries /\ UNCHANGED <<at, outer, cardType, found, call, sent, ret>>
     ELSE Command("CMD12") /\ UNCHANGED <<outer, cardType, found, call, sent, ret>>

Arrived(block) ==
  /\ got' = Append(got, block)
  /\ IF at.cmd # "CMD18" THEN End("ok")
     ELSE IF Len(got') < call.count
     THEN left' = Retries /\ UNCHANGED <<at, outer, cardType, found, call, sent, ret>>
     ELSE Command("CMD12") /\ UNCHANGED <<outer, cardType, found, call, sent, ret>>

\* The card is about to send Block.  The CSD is shorter than a block of data: one
\* taken for the other does not have its CRC in the right place.
Sends == Transmitting /\ card.out = NoAnswer /\ (card.task = "csd" \/ card.pos \in BlockIdx)
Fits == (card.task = "csd") = (at.cmd = "CMD9")
Block == IF card.task = "csd" THEN Csd ELSE store[card.pos]

\* A block that is not what the card has, for its CRC is wrong.  Mutant: the CRC
\* is not compared.
DamagedUnseen == Arrived(Garbage)
Damaged == IF UseCrc THEN Return("error") ELSE Arrived(Garbage)

\* read_data: the block comes, or not yet, or is damaged, or a token for an
\* error comes in its place.
ReadData ==
  /\ at.phase = "data"
  /\ \/ UNCHANGED card /\ Delay("error") /\ Works
     \/ /\ Sends /\ card' = SentBlock
        /\ \/ Fits /\ Arrived(Block) /\ Works
           \/ ~ Fits /\ Damaged /\ Works
           \/ Damaged /\ Fails
           \/ Return("error") /\ Fails
  /\ UNCHANGED store

\* The card takes the block that begins with the token it waits for, if it has
\* a place for it: and programs it, or fails to, which it tells if it is asked.
Takes == /\ card.task = IF at.cmd = "CMD24" THEN "receive" ELSE "receiveMany"
         /\ card.pos \in BlockIdx
TookBlock == [AfterBlock("receiveMany") EXCEPT !.busy = TRUE]

Program ==
  \/ store' = [store EXCEPT ![card.pos] = call.data[sent + 1]] /\ card' = TookBlock /\ Works
  \/ UNCHANGED store /\ card' = [TookBlock EXCEPT !.failed = TRUE] /\ Fails

\* The block was accepted: the card is waited for.
Accepted ==
  /\ sent' = sent + 1
  /\ Phase("pause")
  /\ UNCHANGED <<outer, cardType, found, call, got, ret>>

\* write_data: a block, with its token, and the data response, or none.
WriteData ==
  /\ at.phase = "block"
  /\ \/ Takes /\ Program /\ Accepted
     \/ Takes /\ Fails /\ Return("error") /\ UNCHANGED <<card, store>>
     \/ ~ Takes /\ Works /\ Return("error") /\ UNCHANGED <<card, store>>

\* STOP_TRAN_TOKEN: the last byte of write.
StopTran ==
  /\ at.phase = "stop"
  /\ card' = IF card.task = "receiveMany" THEN [card EXCEPT !.task = None, !.pos = 0, !.busy = TRUE] ELSE card
  /\ Return("ok")
  /\ Works /\ UNCHANGED store

-----------------------------------------------------------------------------

Begin(c) ==
  /\ Idle
  /\ call' = c /\ got' = << >> /\ sent' = 0 /\ ret' = "none" /\ found' = None
  /\ Command(IF cardType = None THEN "CMD0" ELSE FirstCommand(c))
  /\ outer' = IF cardType = None THEN AcquireRetries ELSE 0
  /\ UNCHANGED <<cardType, card, store, faults>>

\* num_blocks, num_bytes and erase_single_block_enabled, BlockDevice::read and
\* BlockDevice::write, within the size of the card.
Size == Begin([kind |-> "size", start |-> 0, data |-> << >>, count |-> 1])
ReadBlocks(start, n) ==
  /\ start + n <= Capacity
  /\ Begin([kind |-> "read", start |-> start, data |-> << >>, count |-> n])
WriteBlocks(start, buffer) ==
  /\ start + Len(buffer) <= Capacity
  /\ Begin([kind |-> "write", start |-> start, data |-> buffer, count |-> Len(buffer)])

\* mark_card_uninit
MarkCardUninit ==
  /\ Idle
  /\ cardType' = None
  /\ UNCHANGED <<at, left, outer, locals, ret, card, store, faults>>

\* The SPI bus reports an error.
TransportError ==
  /\ ~ Idle /\ Fails /\ Return("error")
  /\ UNCHANGED <<card, store>>

\* The card is taken out and another one put in.
Exchange ==
  /\ Fails
  /\ \E kind \in CardType : card' = Inserted(kind)
  /\ store' = OtherContent
  /\ UNCHANGED <<cardType, at, left, outer, locals, ret>>

Init ==
  /\ cardType = None /\ at = Resting /\ left = 0 /\ outer = 0 /\ found = None
  /\ call = NoCall /\ got = << >> /\ sent = 0 /\ ret = "none"
  /\ \E kind \in CardType : card = Inserted(kind)
  /\ store = Content /\ faults = 0

Advance == Wait \/ Send \/ Answer \/ ReadData \/ WriteData \/ StopTran

Call ==
  \/ Size \/ MarkCardUninit
  \/ \E start \in BlockIdx : \/ \E n \in 1 .. MaxCount : ReadBlocks(start, n)
                             \/ \E buffer \in Buffers : WriteBlocks(start, buffer)

Next == Advance \/ Call \/ TransportError \/ Exchange

Spec == Init /\ [][Next]_vars

\* The driver polls, and does nothing else, until the call returns.
FairSpec == Spec /\ WF_vars(Advance)

-----------------------------------------------------------------------------
(* Properties *)

Byte == {"00", "01", "04", "05", "20", "FF"}

CardOK ==
  card \in [kind : CardType, mode : {"off", "idle", "ready"}, crc : BOOLEAN,
            out : [r1 : Byte, rest : {"00", "04", "80", "AA", "C0", "FF"}],
            task : {None, "csd", "read", "stream", "receive", "receiveMany"},
            pos : 0 .. Capacity, busy : BOOLEAN, failed : BOOLEAN]

\* The variables keep their types, and no loop has more retries than it was
\* given.
TypeOK ==
  /\ cardType \in CardType \cup {None} /\ found \in CardType \cup {None}
  /\ left \in 0 .. Retries /\ outer \in 0 .. (AcquireRetries + Retries)
  /\ Len(got) <= call.count /\ sent \in 0 .. call.count
  /\ CardOK /\ DOMAIN store = BlockIdx /\ faults \in 0 .. MaxFaults

\* The driver's idea of an initialised card is right, through any sequence of
\* time-outs, lost frames and cards put in: its type, on which the addresses of
\* blocks depend, and that it compares CRCs.  A card that it does not know is
\* not initialised.
CardKnown ==
  cardType # None /\ card.mode = "ready" => cardType = card.kind /\ card.crc = UseCrc

Asked(i) == call.start + i - 1

\* What was asked for is done.  That a block of several could not be programmed
\* is not noticed, nor that the card was taken out when it had the last block.
Done ==
  CASE call.kind = "read"  -> got = [i \in 1 .. call.count |-> store[Asked(i)]]
    [] call.kind = "size"  -> got = <<Csd>>
    [] call.kind = "write" -> card.mode # "ready" \/ card.failed \/
                              \A i \in 1 .. call.count : store[Asked(i)] = call.data[i]

\* A call that returns Ok did what it was asked for: read returns the blocks
\* that the card has in these places, write has put its blocks there, whatever
\* went wrong in this call and the ones before it.
OkMeansDone == [][ret' = "ok" /\ ret # "ok" => Done']_vars

\* Nothing on a card changes but the blocks that a write is asked to change,
\* and they become what it is asked to write.
WritesContained ==
  [][card'.mode = "off" \/
     \A b \in BlockIdx : store'[b] # store[b] =>
       /\ call.kind = "write"
       /\ \E i \in 1 .. call.count : b = Asked(i) /\ store'[b] = call.data[i]]_vars

\* Every call returns, card or no card, and however slow it is.
CallsReturn == ~ Idle ~> Idle
=============================================================================
