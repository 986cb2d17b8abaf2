------------------------------ MODULE ByteFile ------------------------------
(***************************************************************************)
(* What the callers of VolumeManager's read, write and seek are promised:  *)
(* a file is a sequence of bytes and an open file has a position in it.  A *)
(* write may be seen to progress and may end with an error after any part  *)
(* of it; what was written up to there stays.  A call that returns "ok"    *)
(* did all it was asked for, up to the size limit of files.  An error of   *)
(* the device, or the loss of power, may damage files; the bytes of the    *)
(* others do not change.                                                   *)
(***************************************************************************)
EXTENDS Integers, Sequences

CONSTANTS File, NoFile, Buffers, ReadSizes, MaxFileSize, InitialContent

VARIABLES content,  \* the bytes of each file
          pos,      \* the position of each open file
          call,     \* the read or write under way
          got,      \* what the read under way has returned so far
          ret,      \* the result of the last call
          damaged   \* files whose bytes are not promised any more

vars == <<content, pos, call, got, ret, damaged>>

Closed == -1
NoCall == [kind |-> "none", file |-> NoFile, rest |-> << >>, want |-> 0]
Idle == call.kind = "none"
Intact == File \ damaged

Smaller(a, b) == IF a < b THEN a ELSE b

\* s with the bytes of b in it from position p on.
Overlay(s, p, b) ==
  [i \in 1 .. (IF p + Len(b) > Len(s) THEN p + Len(b) ELSE Len(s)) |->
     IF i \in (p + 1) .. (p + Len(b)) THEN b[i - p] ELSE s[i]]

Init ==
  /\ content = InitialContent
  /\ pos = [f \in File |-> Closed]
  /\ call = NoCall /\ got = << >> /\ ret = "ok" /\ damaged = {}

\* At the start, or at the end to append.
Open(f) ==
  /\ Idle /\ pos[f] = Closed
  /\ ret' = "ok"
  /\ pos' \in {[pos EXCEPT ![f] = 0], [pos EXCEPT ![f] = Len(content[f])]}
  /\ UNCHANGED <<content, call, got, damaged>>

OpenTruncate(f) ==
  /\ Idle /\ pos[f] = Closed
  /\ pos' = [pos EXCEPT ![f] = 0]
  /\ content' = [content EXCEPT ![f] = << >>]
  /\ ret' = "ok"
  /\ UNCHANGED <<call, got, damaged>>

\* Whatever its result, close closes.
Close(f) ==
  /\ Idle /\ pos[f] # Closed
  /\ pos' = [pos EXCEPT ![f] = Closed]
  /\ ret' \in {"ok", "error"}
  /\ UNCHANGED <<content, call, got, damaged>>

Seek(f) ==
  /\ Idle /\ pos[f] # Closed
  /\ ret' = "ok"
  /\ \E p \in 0 .. Len(content[f]) : pos' = [pos EXCEPT ![f] = p]
  /\ UNCHANGED <<content, call, got, damaged>>

\* A flush, or a call that fails and does nothing.
NoEffect ==
  /\ Idle
  /\ ret' \in {"ok", "error"}
  /\ UNCHANGED <<content, pos, call, got, damaged>>

StartWrite(f, buffer) ==
  /\ Idle /\ pos[f] # Closed
  /\ call' = [kind |-> "write", file |-> f, want |-> 0,
              rest |-> SubSeq(buffer, 1, Smaller(Len(buffer), MaxFileSize - pos[f]))]
  /\ ret' = "none"
  /\ UNCHANGED <<content, pos, got, damaged>>

WriteSome ==
  /\ call.kind = "write"
  /\ \E n \in 1 .. Len(call.rest) :
       /\ content' = [content EXCEPT ![call.file] =
                        Overlay(@, pos[call.file], SubSeq(call.rest, 1, n))]
       /\ pos' = [pos EXCEPT ![call.file] = @ + n]
       /\ call' = [call EXCEPT !.rest = SubSeq(@, n + 1, Len(@))]
  /\ UNCHANGED <<got, ret, damaged>>

StartRead(f, size) ==
  /\ Idle /\ pos[f] # Closed
  /\ call' = [kind |-> "read", file |-> f, rest |-> << >>, want |-> size]
  /\ got' = << >> /\ ret' = "none"
  /\ UNCHANGED <<content, pos, damaged>>

ReadSome ==
  /\ call.kind = "read"
  /\ \E n \in 1 .. Smaller(call.want, Len(content[call.file]) - pos[call.file]) :
       /\ got' = got \o SubSeq(content[call.file], pos[call.file] + 1, pos[call.file] + n)
       /\ pos' = [pos EXCEPT ![call.file] = @ + n]
       /\ call' = [call EXCEPT !.want = @ - n]
  /\ UNCHANGED <<content, ret, damaged>>

\* All is written; the buffer is full or the end of the file is reached.
Finished ==
  \/ call.kind = "write" /\ call.rest = << >>
  \/ call.kind = "read" /\ (call.want = 0 \/ pos[call.file] = Len(content[call.file]))

\* A call ends when it is finished, or earlier with an error.
Return ==
  /\ ~ Idle
  /\ call' = NoCall
  /\ ret' = "error" \/ (ret' = "ok" /\ Finished)
  /\ got' = << >>
  /\ UNCHANGED <<content, pos, damaged>>

\* The call under way, or an open or close, fails and damages its file.
Damage ==
  \E f \in File :
    /\ ret' = "error" /\ damaged' = damaged \cup {f}
    /\ call' = NoCall /\ UNCHANGED got
    /\ Idle \/ call.file = f
    /\ \A g \in Intact \ {f} : content'[g] = content[g] /\ pos'[g] = pos[g]

\* A call on a file that is damaged does anything, to that file.
Disturb ==
  /\ damaged # {} /\ UNCHANGED damaged
  /\ Idle \/ call.file \in damaged
  /\ call'.kind = "none" \/ call'.file \in damaged
  /\ \A g \in Intact : content'[g] = content[g] /\ pos'[g] = pos[g]

\* The loss of power closes every file and may damage those that were open.
Crash ==
  /\ ret' = "none" /\ got' = << >> /\ call' = NoCall
  /\ \E lost \in SUBSET {f \in File : pos[f] # Closed} : damaged' = damaged \cup lost
  /\ \A g \in File : pos'[g] = Closed
  /\ \A g \in File \ damaged' : content'[g] = content[g]

Next ==
  \/ \E f \in File :
       \/ Open(f) \/ OpenTruncate(f) \/ Close(f) \/ Seek(f)
       \/ \E buffer \in Buffers : StartWrite(f, buffer)
       \/ \E size \in ReadSizes : StartRead(f, size)
  \/ NoEffect \/ WriteSome \/ ReadSome \/ Return \/ Damage \/ Disturb \/ Crash

Spec == Init /\ [][Next]_vars
=============================================================================
