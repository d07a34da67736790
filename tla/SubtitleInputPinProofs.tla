----------------------- MODULE SubtitleInputPinProofs -----------------------
(* Proofs about CSubtitleInputPin for every value of the constants.         *)
EXTENDS SubtitleInputPin, TLAPS

USE DEF pin, decoder, calls, history, vars

----------------------------------------------------------------------------
(* What is under way: each call is at a place of its own, m_csReceive keeps *)
(* NewSegment and Receive apart, and connections keep everything out; the   *)
(* decoder never takes it.                                                  *)

Placed(t) ==
    /\ op[t] = "none" <=> pc[t] = "idle"
    /\ op[t] = "segment" => pc[t] \in {"stop", "clear", "remove", "announce"}
    /\ op[t] = "connect" => pc[t] \in {"stop", "clear", "open"}
    /\ op[t] \in {"break", "reconnect"} => pc[t] \in {"stop", "clear", "drop"}
    /\ op[t] \in {"receive", "end"} => pc[t] \in {"enqueue", "notify"}
    /\ op[t] = "destroy" => pc[t] \in {"wake", "join", "gone"}

Alone == {"connect", "break", "reconnect", "destroy"}

CallInv ==
    /\ \A t \in Caller : Placed(t)
    /\ \A t \in Caller : op[t] \in {"segment", "receive"} => owner["receive"] = t
    /\ owner["receive"] # Decoder
    /\ \A t, u \in Caller : t # u /\ op[t] \in Alone => op[u] = "none"
    /\ \A t \in Caller : op[t] \in {"segment", "receive", "end"} => format # "none"
    /\ \A t \in Caller : op[t] = "destroy" => format = "none"

(* What the queue holds: samples of the stream's format and of the current  *)
(* segment, unless NewSegment is about to discard them.                     *)

Discarding == \E t \in Caller : op[t] = "segment" /\ pc[t] \in {"stop", "clear"}

\* A sample that Receive lets through
Good(s) == s.kind = "data" => s.start # NoTime \/ format = "rle"
Fresh(s) == s.kind = "data" => s.segment = segment

SampleInv ==
    /\ format = "none" => samples = << >>
    /\ \A t \in Caller : pc[t] \in {"open", "drop"} => samples = << >>
    /\ \A t \in Caller :
        /\ op[t] = "end" => arg[t].kind = "end"
        /\ op[t] = "receive" => Good(arg[t]) /\ Fresh(arg[t])
    /\ \A i \in 1 .. Len(samples) : Good(samples[i])
    /\ Discarding \/ \A i \in 1 .. Len(samples) : Fresh(samples[i])

LEMMA InitInv == Init => TypeOK /\ CallInv /\ SampleInv /\ FreshAfterSeek /\ TextAnnounced
  <1> SUFFICES ASSUME Init PROVE TypeOK /\ CallInv /\ SampleInv /\ FreshAfterSeek /\ TextAnnounced
    OBVIOUS
  <1>1. TypeOK
    <2>1. [kind |-> "end", start |-> NoTime, segment |-> 0] \in Sample
      BY BoundAssumption DEF Sample
    <2>2. samples \in Seq(Sample) /\ content \subseteq Sample /\ announced \subseteq Sample
      BY DEF Init
    <2>3. segment \in 0 .. MaxSegments /\ received \in 0 .. MaxSamples
      BY BoundAssumption DEF Init
    <2> QED
      BY <2>1, <2>2, <2>3 DEF Init, TypeOK, CallPlace, CallOp, Thread
  <1>2. CallInv
    BY CallerAssumption DEF Init, CallInv, Placed, Alone, Thread, Lock
  <1>3. SampleInv
    BY DEF Init, SampleInv
  <1>4. FreshAfterSeek /\ TextAnnounced
    BY DEF Init, FreshAfterSeek, TextAnnounced
  <1> QED
    BY <1>1, <1>2, <1>3, <1>4

\* The calls stay at their places and keep out of each other's way
LEMMA NextCall == ASSUME TypeOK, CallInv, [Next]_vars PROVE CallInv'
  <1> USE CallerAssumption DEF TypeOK, Thread, Lock, GoTo, Return, Take, Release
  <1>1. ASSUME UNCHANGED <<pc, op, format>>, owner' = owner \/ owner'["receive"] = owner["receive"] PROVE CallInv'
    BY <1>1 DEF CallInv, Placed
  <1>2. ASSUME NEW t \in Caller, NEW rt \in Time, NewSegment(t, rt) PROVE CallInv'
    BY <1>2 DEF NewSegment, CallInv, Placed, Alone, Connecting, IsFree
  <1>3. ASSUME NEW t \in Caller, NEW rt \in Time \cup {NoTime}, Receive(t, rt) PROVE CallInv'
    BY <1>3 DEF Receive, CallInv, Placed, Alone, Connecting, IsFree
  <1>4. ASSUME NEW t \in Caller, EndOfStream(t) PROVE CallInv'
    BY <1>4 DEF EndOfStream, CallInv, Placed, Alone, Connecting, IsFree
  <1>5. ASSUME NEW t \in Caller, Connect(t) PROVE CallInv'
    BY <1>5 DEF Connect, CallInv, Placed, Alone, Quiet
  <1>6. ASSUME NEW t \in Caller, NEW how \in {"break", "reconnect"}, Disconnect(t, how) PROVE CallInv'
    BY <1>6 DEF Disconnect, CallInv, Placed, Alone, Quiet
  <1>7. ASSUME NEW t \in Caller, Destroy(t) PROVE CallInv'
    BY <1>7 DEF Destroy, CallInv, Placed, Alone, Quiet
  <1>8. ASSUME NEW t \in Caller, StopDecoding(t) \/ RemoveSubtitles(t) PROVE CallInv'
    BY <1>8 DEF StopDecoding, RemoveSubtitles, CallInv, Placed, Alone
  <1>9. ASSUME NEW t \in Caller, ClearSamples(t) PROVE CallInv'
    BY <1>9 DEF ClearSamples, CallInv, Placed, Alone
  <1>10. ASSUME NEW t \in Caller, AnnounceSegment(t) PROVE CallInv'
    <2>1. /\ pc' = [pc EXCEPT ![t] = "idle"] /\ op' = [op EXCEPT ![t] = "none"] /\ format' = format
          /\ pc[t] = "announce"
      BY <1>10 DEF AnnounceSegment
    <2>2. op[t] = "segment"
      BY <2>1 DEF CallInv, Placed, CallOp
    <2>3. \A u \in Caller : op'[u] \notin {"segment", "receive"}
      BY <2>1, <2>2 DEF CallInv
    <2>4. owner'["receive"] # Decoder
      BY <1>10 DEF AnnounceSegment
    <2> QED
      BY <2>1, <2>3, <2>4 DEF CallInv, Placed, Alone
  <1>11. ASSUME NEW t \in Caller, Enqueue(t) PROVE CallInv'
    BY <1>11 DEF Enqueue, CallInv, Placed, Alone
  <1>12. ASSUME NEW t \in Caller, NotifyDecoder(t) PROVE CallInv'
    BY <1>12 DEF NotifyDecoder, CallInv, Placed, Alone
  <1>13. ASSUME NEW t \in Caller, NEW f \in Formats, OpenStream(t, f) PROVE CallInv'
    BY <1>13, FormatsAssumption DEF OpenStream, CallInv, Placed, Alone
  <1>14. ASSUME NEW t \in Caller, DropStream(t) PROVE CallInv'
    <2>1. CASE op[t] = "break"
      BY <1>14, <2>1 DEF DropStream, CallInv, Placed, Alone
    <2>2. CASE op[t] # "break"
      <3>1. op[t] = "reconnect" /\ \A u \in Caller : u # t => op[u] = "none"
        BY <1>14, <2>2 DEF DropStream, CallInv, Placed, Alone, CallOp
      <3>2. /\ pc' = [pc EXCEPT ![t] = "stop"] /\ op' = [op EXCEPT ![t] = "connect"]
            /\ owner' = owner /\ format' = "none"
        BY <1>14, <2>2 DEF DropStream
      <3> QED
        BY <3>1, <3>2 DEF CallInv, Placed, Alone
    <2> QED
      BY <2>1, <2>2
  <1>15. ASSUME NEW t \in Caller, DestroyWake(t) \/ DestroyJoin(t) PROVE CallInv'
    BY <1>15 DEF DestroyWake, DestroyJoin, CallInv, Placed, Alone
  <1>16. ASSUME DecoderStep PROVE CallInv'
    <2>1. CASE DecodeAnnounce
      <3>1. UNCHANGED <<pc, op, format>> /\ owner["receive"] # Decoder
        BY <2>1 DEF DecodeAnnounce, CallInv
      <3>2. owner'["receive"] = owner["receive"]
        BY <2>1, <3>1 DEF DecodeAnnounce
      <3> QED
        BY <1>1, <3>1, <3>2
    <2>2. CASE ~DecodeAnnounce
      <3>1. UNCHANGED <<pc, op, format>> /\ owner'["receive"] = owner["receive"]
        BY <1>16, <2>2 DEF DecoderStep, DecodeTop, DecodeCheck, DecodeSleep, DecodeReady, DecodeLock,
                           DecodeRelock, DecodeSample, DecodeUnlock, Unlocked
      <3> QED
        BY <1>1, <3>1
    <2> QED
      BY <2>1, <2>2
  <1>17. ASSUME ViewFrame \/ ViewerStep PROVE CallInv'
    <2>1. UNCHANGED <<pc, op, format>> /\ owner'["receive"] = owner["receive"]
      BY <1>17 DEF ViewFrame, ViewerStep, ViewLookup, ViewDraw, Lock
    <2> QED
      BY <1>1, <2>1
  <1>18. CASE UNCHANGED vars
    BY <1>1, <1>18
  <1> QED
    BY <1>2, <1>3, <1>4, <1>5, <1>6, <1>7, <1>8, <1>9, <1>10, <1>11, <1>12, <1>13, <1>14, <1>15,
       <1>16, <1>17, <1>18 DEF Next, Call, CallerStep

\* What the actions do to the samples: they keep, drop, discard or take one more
LEMMA NextSamples ==
    ASSUME TypeOK, CallInv, SampleInv, [Next]_vars
    PROVE  SampleInv'
  <1> USE CallerAssumption DEF GoTo, Return, Take, Release
  <1>0. /\ samples \in Seq(Sample) /\ segment \in Nat /\ pc \in [Caller -> CallPlace] /\ op \in [Caller -> CallOp]
        /\ arg \in [Caller -> Sample]
    BY BoundAssumption DEF TypeOK
  <1>1. ASSUME UNCHANGED <<pc, op, arg, format, samples, segment>> PROVE SampleInv'
    BY <1>1 DEF SampleInv, Discarding, Good, Fresh
  <1>2. ASSUME NEW t \in Caller, NEW rt \in Time, NewSegment(t, rt) PROVE SampleInv'
    <2>1. /\ pc' = [pc EXCEPT ![t] = "stop"] /\ op' = [op EXCEPT ![t] = "segment"]
          /\ \A u \in Caller \ {t} : arg'[u] = arg[u]
          /\ UNCHANGED <<format, samples>>
      BY <1>0, <1>2 DEF NewSegment
    <2>2. \A u \in Caller : op[u] # "receive"
      BY <1>2 DEF NewSegment, IsFree, CallInv, Thread
    <2>3. Discarding'
      BY <1>0, <2>1 DEF Discarding
    <2> QED
      BY <1>0, <2>1, <2>2, <2>3 DEF SampleInv, Good
  <1>3. ASSUME NEW t \in Caller, NEW rt \in Time \cup {NoTime}, Receive(t, rt) PROVE SampleInv'
    <2>1. /\ pc' = [pc EXCEPT ![t] = "enqueue"] /\ op' = [op EXCEPT ![t] = "receive"] /\ op[t] # "segment"
          /\ arg' = [arg EXCEPT ![t] = [kind |-> "data", start |-> rt, segment |-> segment]]
          /\ UNCHANGED <<format, samples, segment>> /\ (rt # NoTime \/ format = "rle")
      BY <1>3 DEF Receive, Accepted, CallInv, Placed
    <2>2. Discarding => Discarding'
      BY <1>0, <2>1 DEF Discarding
    <2>3. Good(arg'[t]) /\ Fresh(arg'[t])
      BY <1>0, <2>1 DEF Good, Fresh
    <2> QED
      BY <1>0, <2>1, <2>2, <2>3 DEF SampleInv, Good, Fresh
  <1>4. ASSUME NEW t \in Caller, EndOfStream(t) PROVE SampleInv'
    <2>1. /\ pc' = [pc EXCEPT ![t] = "enqueue"] /\ op' = [op EXCEPT ![t] = "end"] /\ op[t] # "segment"
          /\ arg' = [arg EXCEPT ![t] = [kind |-> "end", start |-> NoTime, segment |-> segment]]
          /\ UNCHANGED <<format, samples, segment>>
      BY <1>4 DEF EndOfStream, CallInv, Placed
    <2>2. Discarding => Discarding'
      BY <1>0, <2>1 DEF Discarding
    <2> QED
      BY <1>0, <2>1, <2>2 DEF SampleInv, Good, Fresh
  \* A step of t that leaves the queue alone and keeps t on its way to "clear"
  <1>5. ASSUME NEW t \in Caller, NEW place, NEW o, place \notin {"open", "drop"},
               pc' = [pc EXCEPT ![t] = place], op' = [op EXCEPT ![t] = o],
               o \in {"end", "receive"} => o = op[t],
               op[t] = "segment" /\ pc[t] \in {"stop", "clear"} => o = "segment" /\ place \in {"stop", "clear"},
               UNCHANGED <<arg, format, samples, segment>>
        PROVE  SampleInv'
    <2>1. Discarding => Discarding'
      BY <1>0, <1>5 DEF Discarding
    <2> QED
      BY <1>0, <1>5, <2>1 DEF SampleInv, Good, Fresh
  <1>6. ASSUME NEW t \in Caller,
               \/ Connect(t) \/ (\E how \in {"break", "reconnect"} : Disconnect(t, how)) \/ Destroy(t)
        PROVE  SampleInv'
    <2>1. op[t] = "none" /\ UNCHANGED <<arg, format, samples, segment>>
      BY <1>6 DEF Connect, Disconnect, Destroy, Quiet, CallInv, Placed
    <2>2. \E place \in {"stop", "wake"}, o \in {"connect", "break", "reconnect", "destroy"} :
            pc' = [pc EXCEPT ![t] = place] /\ op' = [op EXCEPT ![t] = o]
      BY <1>6 DEF Connect, Disconnect, Destroy
    <2> QED
      BY <1>5, <2>1, <2>2
  <1>7. ASSUME NEW t \in Caller, StopDecoding(t) PROVE SampleInv'
    <2>1. /\ pc' = [pc EXCEPT ![t] = "clear"] /\ op' = [op EXCEPT ![t] = op[t]]
          /\ UNCHANGED <<arg, format, samples, segment>>
      BY <1>0, <1>7 DEF StopDecoding
    <2> QED
      BY <1>5, <2>1
  <1>8. ASSUME NEW t \in Caller,
               RemoveSubtitles(t) \/ AnnounceSegment(t) \/ NotifyDecoder(t) \/ DestroyWake(t) \/ DestroyJoin(t)
        PROVE  SampleInv'
    <2>1. /\ pc[t] \notin {"stop", "clear"} /\ UNCHANGED <<arg, format, samples, segment>>
          /\ \E place \in {"idle", "announce", "join", "gone"} : pc' = [pc EXCEPT ![t] = place]
          /\ \E o \in {"none", op[t]} : op' = [op EXCEPT ![t] = o]
      BY <1>0, <1>8 DEF RemoveSubtitles, AnnounceSegment, NotifyDecoder, DestroyWake, DestroyJoin
    <2> QED
      BY <1>5, <2>1
  <1>9. ASSUME NEW t \in Caller, ClearSamples(t) PROVE SampleInv'
    <2>1. samples' = << >> /\ UNCHANGED <<arg, op, format, segment>>
      BY <1>9 DEF ClearSamples, Kept
    <2> QED
      BY <2>1 DEF SampleInv, Good, Fresh
  <1>10. ASSUME NEW t \in Caller, Enqueue(t) PROVE SampleInv'
    <2>1. /\ samples' = Append(samples, arg[t]) /\ pc[t] = "enqueue" /\ pc' = [pc EXCEPT ![t] = "notify"]
          /\ UNCHANGED <<arg, op, format, segment>>
      BY <1>10 DEF Enqueue
    <2>2. op[t] \in {"receive", "end"} /\ format # "none"
      BY <1>0, <2>1 DEF CallInv, Placed, CallOp
    <2>3. \A u \in Caller : pc'[u] \notin {"open", "drop"}
      BY <1>0, <2>1, <2>2 DEF CallInv, Placed, Alone, CallOp
    <2>4. Good(arg[t]) /\ Fresh(arg[t])
      BY <2>2 DEF SampleInv, Good, Fresh
    <2>5. Discarding => Discarding'
      BY <1>0, <2>1 DEF Discarding
    <2>6. /\ Len(samples') = Len(samples) + 1 /\ samples'[Len(samples) + 1] = arg[t]
          /\ \A i \in 1 .. Len(samples) : samples'[i] = samples[i]
      BY <1>0, <2>1
    <2>7. \A i \in 1 .. Len(samples') : Good(samples'[i])
      BY <1>0, <2>4, <2>6 DEF SampleInv
    <2>8. Discarding \/ \A i \in 1 .. Len(samples') : Fresh(samples'[i])
      BY <1>0, <2>4, <2>6 DEF SampleInv
    <2> QED
      BY <2>1, <2>2, <2>3, <2>5, <2>7, <2>8 DEF SampleInv, Good, Fresh
  <1>11. ASSUME NEW t \in Caller, DropStream(t) \/ \E f \in Formats : OpenStream(t, f) PROVE SampleInv'
    <2>1. pc[t] \in {"open", "drop"} /\ UNCHANGED <<arg, samples, segment>>
      BY <1>11 DEF DropStream, OpenStream
    <2>2. samples' = << >>
      BY <2>1 DEF SampleInv
    <2>3. op[t] \in Alone
      BY <1>0, <2>1 DEF CallInv, Placed, Alone, CallOp
    <2>4. \E o \in {"none", "connect"} : op' = [op EXCEPT ![t] = o]
      BY <1>11 DEF DropStream, OpenStream
    <2>5. \A u \in Caller : op'[u] \notin {"end", "receive"}
      BY <1>0, <2>3, <2>4 DEF CallInv
    <2> QED
      BY <2>2, <2>5 DEF SampleInv
  <1>12. ASSUME DecodeSample PROVE SampleInv'
    <2>1. samples # << >> /\ samples' = Tail(samples) /\ UNCHANGED <<pc, op, arg, format, segment>>
      BY <1>12 DEF DecodeSample
    <2>2. Len(samples') = Len(samples) - 1 /\ \A i \in 1 .. Len(samples') : samples'[i] = samples[i + 1]
      BY <1>0, <2>1
    <2>3. \A i \in 1 .. Len(samples') : \E j \in 1 .. Len(samples) : samples'[i] = samples[j]
      BY <1>0, <2>2
    <2>4. \A u \in Caller : pc[u] \notin {"open", "drop"}
      BY <2>1 DEF SampleInv
    <2> QED
      BY <2>1, <2>3, <2>4 DEF SampleInv, Good, Fresh, Discarding
  <1>13. ASSUME \/ DecodeTop \/ DecodeCheck \/ DecodeSleep \/ DecodeReady \/ DecodeLock \/ DecodeRelock
                \/ DecodeUnlock \/ DecodeAnnounce \/ ViewFrame \/ ViewerStep \/ UNCHANGED vars
         PROVE  SampleInv'
    BY <1>1, <1>13 DEF DecodeTop, DecodeCheck, DecodeSleep, DecodeReady, DecodeLock, DecodeRelock,
                       DecodeUnlock, DecodeAnnounce, ViewFrame, ViewerStep, ViewLookup, ViewDraw
  <1> QED
    BY <1>2, <1>3, <1>4, <1>6, <1>7, <1>8, <1>9, <1>10, <1>11, <1>12, <1>13
       DEF Next, Call, CallerStep, DecoderStep

\* The sample the decoder takes next is one of the queue's
LEMMA HeadFacts ==
    ASSUME TypeOK, SampleInv, samples # << >>
    PROVE  /\ Head(samples) \in Sample /\ Good(Head(samples))
           /\ Discarding \/ Fresh(Head(samples))
  <1>1. samples \in Seq(Sample) /\ 1 \in 1 .. Len(samples) /\ Head(samples) = samples[1]
    BY DEF TypeOK
  <1> QED
    BY <1>1 DEF SampleInv

LEMMA NextType == ASSUME TypeOK, CallInv, SampleInv, [Next]_vars PROVE TypeOK'
  <1> USE CallerAssumption DEF GoTo, Return, Take, Release, Thread, Lock, CallPlace, CallOp
  <1>1. ASSUME NEW t \in Caller, NEW rt \in Time, NewSegment(t, rt) PROVE TypeOK'
    <2>1. [kind |-> "end", start |-> rt, segment |-> segment + 1] \in Sample /\ segment + 1 \in 0 .. MaxSegments
      BY <1>1, BoundAssumption DEF NewSegment, Sample, TypeOK
    <2> QED
      BY <1>1, <2>1 DEF NewSegment, TypeOK
  <1>2. ASSUME NEW t \in Caller, NEW rt \in Time \cup {NoTime}, Receive(t, rt) PROVE TypeOK'
    <2>1. /\ [kind |-> "data", start |-> rt, segment |-> segment] \in Sample
          /\ received + 1 \in 0 .. MaxSamples
      BY <1>2, BoundAssumption DEF Receive, Sample, TypeOK
    <2> QED
      BY <1>2, <2>1 DEF Receive, TypeOK
  <1>3. ASSUME NEW t \in Caller, EndOfStream(t) PROVE TypeOK'
    <2>1. /\ [kind |-> "end", start |-> NoTime, segment |-> segment] \in Sample
          /\ received + 1 \in 0 .. MaxSamples
      BY <1>3, BoundAssumption DEF EndOfStream, Sample, TypeOK
    <2> QED
      BY <1>3, <2>1 DEF EndOfStream, TypeOK
  <1>4. ASSUME NEW t \in Caller, Connect(t) PROVE TypeOK'
    BY <1>4 DEF Connect, TypeOK
  <1>5. ASSUME NEW t \in Caller, NEW how \in {"break", "reconnect"}, Disconnect(t, how) PROVE TypeOK'
    BY <1>5 DEF Disconnect, TypeOK
  <1>6. ASSUME NEW t \in Caller, Destroy(t) PROVE TypeOK'
    BY <1>6 DEF Destroy, TypeOK
  <1>7. ASSUME NEW t \in Caller, StopDecoding(t) PROVE TypeOK'
    BY <1>7 DEF StopDecoding, TypeOK
  <1>8. ASSUME NEW t \in Caller, ClearSamples(t) PROVE TypeOK'
    <2>1. samples' \in Seq(Sample) /\ pc' \in [Caller -> CallPlace]
      BY <1>8 DEF ClearSamples, Kept, TypeOK
    <2> QED
      BY <1>8, <2>1 DEF ClearSamples, TypeOK
  <1>9. ASSUME NEW t \in Caller, RemoveSubtitles(t) PROVE TypeOK'
    BY <1>9 DEF RemoveSubtitles, TypeOK
  <1>10. ASSUME NEW t \in Caller, AnnounceSegment(t) PROVE TypeOK'
    BY <1>10 DEF AnnounceSegment, Announce, TypeOK
  <1>11. ASSUME NEW t \in Caller, Enqueue(t) PROVE TypeOK'
    BY <1>11 DEF Enqueue, TypeOK
  <1>12. ASSUME NEW t \in Caller, NotifyDecoder(t) PROVE TypeOK'
    BY <1>12 DEF NotifyDecoder, Notify, TypeOK
  <1>13. ASSUME NEW t \in Caller, NEW f \in Formats, OpenStream(t, f) PROVE TypeOK'
    BY <1>13 DEF OpenStream, TypeOK
  <1>14. ASSUME NEW t \in Caller, DropStream(t) PROVE TypeOK'
    BY <1>14 DEF DropStream, TypeOK
  <1>15. ASSUME NEW t \in Caller, DestroyWake(t) \/ DestroyJoin(t) PROVE TypeOK'
    <2>1. missed' \in BOOLEAN
      BY <1>15 DEF DestroyWake, DestroyJoin, TypeOK
    <2>2. /\ UNCHANGED <<pin, owner, dInval, vpc, op, arg, segment, received, announced>>
          /\ dpc' \in {dpc, "check"}
          /\ \E place \in {"join", "gone"} : pc' = [pc EXCEPT ![t] = place]
      BY <1>15 DEF DestroyWake, DestroyJoin, Notify
    <2> QED
      BY <2>1, <2>2 DEF TypeOK
  <1>16. ASSUME DecodeTop \/ DecodeCheck \/ DecodeSleep \/ DecodeReady \/ DecodeLock \/ DecodeRelock
         PROVE  TypeOK'
    BY <1>16 DEF DecodeTop, DecodeCheck, DecodeSleep, DecodeReady, DecodeLock, DecodeRelock, TypeOK
  <1>17. ASSUME DecodeSample PROVE TypeOK'
    <2> DEFINE sample == Head(samples)
    <2>1. sample \in Sample /\ Good(sample)
      BY <1>17, HeadFacts DEF DecodeSample
    <2>2. samples' \in Seq(Sample)
      BY <1>17 DEF DecodeSample, TypeOK
    <2>3. content' \subseteq Sample
      BY <1>17, <2>1 DEF DecodeSample, TypeOK
    <2>4. format' # "rle" => \A s \in content' : s.start # NoTime
      BY <1>17, <2>1 DEF DecodeSample, TypeOK, Good
    <2>5. dInval' \in Time \cup {NoTime}
      BY <1>17, <2>1 DEF DecodeSample, TypeOK, Earliest, Sample
    <2> QED
      BY <1>17, <2>2, <2>3, <2>4, <2>5 DEF DecodeSample, TypeOK
  <1>18. ASSUME DecodeUnlock PROVE TypeOK'
    BY <1>18 DEF DecodeUnlock, TypeOK
  <1>19. ASSUME DecodeAnnounce PROVE TypeOK'
    BY <1>19 DEF DecodeAnnounce, Announce, TypeOK
  <1>20. ASSUME ViewFrame \/ ViewerStep PROVE TypeOK'
    BY <1>20 DEF ViewFrame, ViewerStep, ViewLookup, ViewDraw, TypeOK
  <1>21. CASE UNCHANGED vars
    BY <1>21 DEF TypeOK
  <1> QED
    BY <1>1, <1>2, <1>3, <1>4, <1>5, <1>6, <1>7, <1>8, <1>9, <1>10, <1>11, <1>12, <1>13, <1>14,
       <1>15, <1>16, <1>17, <1>18, <1>19, <1>20, <1>21 DEF Next, Call, CallerStep, DecoderStep

\* The inductive invariant of the theorems
PinInv == TypeOK /\ CallInv /\ SampleInv

LEMMA PinInvariant == Spec => []PinInv
  <1>1. Init => PinInv
    BY InitInv DEF PinInv
  <1>2. PinInv /\ [Next]_vars => PinInv'
    BY NextType, NextCall, NextSamples DEF PinInv
  <1> QED
    BY <1>1, <1>2, PTL DEF Spec

\* Whatever is called, received or interrupted, each variable keeps its type, and a
\* text in the stream has a start
THEOREM PinTypeCorrect == Spec => []TypeOK
  <1>1. PinInv => TypeOK
    BY DEF PinInv
  <1> QED
    BY PinInvariant, <1>1, PTL

----------------------------------------------------------------------------
(* Seeks.                                                                   *)

LEMMA NextFreshContent == ASSUME PinInv, FreshAfterSeek, [Next]_vars PROVE FreshAfterSeek'
  <1> USE CallerAssumption DEF PinInv, GoTo, Return
  <1>0. pc \in [Caller -> CallPlace] /\ op \in [Caller -> CallOp]
    BY DEF TypeOK
  <1>1. ASSUME Seeking => Seeking', UNCHANGED <<format, segment>>, content' = content \/ content' = {}
        PROVE  FreshAfterSeek'
    BY <1>1 DEF FreshAfterSeek
  <1>2. ASSUME content' = {} PROVE FreshAfterSeek'
    BY <1>2 DEF FreshAfterSeek
  <1>3. ASSUME NEW t \in Caller, NEW rt \in Time, NewSegment(t, rt) PROVE FreshAfterSeek'
    <2>1. Seeking'
      BY <1>0, <1>3 DEF NewSegment, Seeking
    <2> QED
      BY <2>1 DEF FreshAfterSeek
  \* A step of t that leaves content alone and keeps it seeking
  <1>4. ASSUME NEW t \in Caller, NEW place, NEW o,
               pc' = [pc EXCEPT ![t] = place], op' = [op EXCEPT ![t] = o],
               op[t] = "segment" /\ pc[t] \in {"stop", "clear", "remove"}
                 => o = "segment" /\ place \in {"stop", "clear", "remove"},
               UNCHANGED <<format, segment, content>>
        PROVE  FreshAfterSeek'
    <2>1. Seeking => Seeking'
      BY <1>0, <1>4 DEF Seeking
    <2> QED
      BY <1>1, <1>4, <2>1
  <1>5. ASSUME NEW t \in Caller,
               \/ (\E rt \in Time \cup {NoTime} : Receive(t, rt)) \/ EndOfStream(t)
               \/ Connect(t) \/ (\E how \in {"break", "reconnect"} : Disconnect(t, how)) \/ Destroy(t)
        PROVE  FreshAfterSeek'
    <2>1. /\ pc[t] = "idle" /\ UNCHANGED <<format, segment, content>>
          /\ \E place \in CallPlace : pc' = [pc EXCEPT ![t] = place]
          /\ \E o \in CallOp : op' = [op EXCEPT ![t] = o]
      BY <1>5 DEF Receive, EndOfStream, Connect, Disconnect, Destroy, Quiet, CallPlace, CallOp
    <2> QED
      BY <1>4, <2>1
  <1>6. ASSUME NEW t \in Caller, StopDecoding(t) \/ ClearSamples(t) PROVE FreshAfterSeek'
    <2>1. /\ op' = [op EXCEPT ![t] = op[t]] /\ UNCHANGED <<format, segment, content>>
          /\ \E place \in {"clear", "remove", "open", "drop"} :
              /\ pc' = [pc EXCEPT ![t] = place]
              /\ op[t] = "segment" => place \in {"clear", "remove"}
      BY <1>0, <1>6 DEF StopDecoding, ClearSamples
    <2> QED
      BY <1>4, <2>1
  <1>7. ASSUME NEW t \in Caller, RemoveSubtitles(t) PROVE FreshAfterSeek'
    BY <1>7 DEF RemoveSubtitles, FreshAfterSeek
  <1>8. ASSUME NEW t \in Caller,
               AnnounceSegment(t) \/ Enqueue(t) \/ NotifyDecoder(t) \/ DestroyWake(t) \/ DestroyJoin(t)
        PROVE  FreshAfterSeek'
    <2>1. /\ pc[t] \notin {"stop", "clear", "remove"} /\ UNCHANGED <<format, segment, content>>
          /\ \E place \in CallPlace : pc' = [pc EXCEPT ![t] = place]
          /\ \E o \in {"none", op[t]} : op' = [op EXCEPT ![t] = o]
      BY <1>0, <1>8 DEF AnnounceSegment, Enqueue, NotifyDecoder, DestroyWake, DestroyJoin, CallPlace
    <2> QED
      BY <1>4, <2>1
  <1>9. ASSUME NEW t \in Caller, DropStream(t) \/ \E f \in Formats : OpenStream(t, f) PROVE FreshAfterSeek'
    BY <1>2, <1>9 DEF DropStream, OpenStream
  <1>10. ASSUME DecodeSample PROVE FreshAfterSeek'
    <2>1. /\ UNCHANGED <<pc, op, format, segment>> /\ samples # << >>
          /\ content' = IF Head(samples).kind = "data" THEN content \cup {Head(samples)} ELSE content
      BY <1>10 DEF DecodeSample
    <2>2. Discarding \/ Fresh(Head(samples))
      BY <2>1, HeadFacts
    <2>3. Discarding => Seeking'
      BY <2>1 DEF Discarding, Seeking
    <2>4. Seeking => Seeking'
      BY <2>1 DEF Seeking
    <2> QED
      BY <2>1, <2>2, <2>3, <2>4 DEF FreshAfterSeek, Fresh
  <1>11. ASSUME \/ DecodeTop \/ DecodeCheck \/ DecodeSleep \/ DecodeReady \/ DecodeLock \/ DecodeRelock
                \/ DecodeUnlock \/ DecodeAnnounce \/ ViewFrame \/ ViewerStep \/ UNCHANGED vars
         PROVE  FreshAfterSeek'
    <2>1. UNCHANGED <<pc, op, format, segment, content>>
      BY <1>11 DEF DecodeTop, DecodeCheck, DecodeSleep, DecodeReady, DecodeLock, DecodeRelock,
                   DecodeUnlock, DecodeAnnounce, ViewFrame, ViewerStep, ViewLookup, ViewDraw
    <2> QED
      BY <1>1, <2>1 DEF Seeking
  <1> QED
    BY <1>3, <1>5, <1>6, <1>7, <1>8, <1>9, <1>10, <1>11 DEF Next, Call, CallerStep, DecoderStep

\* A sample received before a seek does not reach the stream after it, wherever the
\* decoder and the upstream threads are when NewSegment is called
THEOREM SeekDiscards == Spec => []FreshAfterSeek
  <1>1. Init => FreshAfterSeek
    BY InitInv
  <1>2. PinInv /\ FreshAfterSeek /\ [Next]_vars => FreshAfterSeek'
    BY NextFreshContent
  <1> QED
    BY PinInvariant, <1>1, <1>2, PTL DEF Spec

----------------------------------------------------------------------------
(* Announcements.                                                           *)

LEMMA NextAnnounced == ASSUME PinInv, TextAnnounced, [Next]_vars PROVE TextAnnounced'
  <1> USE DEF PinInv
  <1>0. /\ dInval \in Time \cup {NoTime} /\ MaxTime \in Nat /\ Time = 0 .. MaxTime /\ NoTime = -1
        /\ \A s \in content : s.start \in Time \cup {NoTime}
        /\ format # "rle" => \A s \in content : s.start # NoTime
    BY BoundAssumption DEF TypeOK, Sample, Time, NoTime
  <1>1. ASSUME content' = {} PROVE TextAnnounced'
    BY <1>1 DEF TextAnnounced
  <1>2. ASSUME format' = format, content' = content, announced \subseteq announced',
               UNCHANGED dInval, dpc \in {"loop", "announce"} => dpc' \in {"loop", "announce"}
        PROVE  TextAnnounced'
    BY <1>2 DEF TextAnnounced, Announces
  <1>3. ASSUME NEW t \in Caller, Call(t) \/ StopDecoding(t) \/ ClearSamples(t) \/ Enqueue(t)
                                         \/ NotifyDecoder(t) \/ DestroyWake(t) \/ DestroyJoin(t)
        PROVE  TextAnnounced'
    <2>1. /\ UNCHANGED <<format, content, announced, dInval>>
          /\ dpc' = dpc \/ dpc = "asleep"
      BY <1>3 DEF Call, NewSegment, Receive, EndOfStream, Connect, Disconnect, Destroy, StopDecoding,
                  ClearSamples, Enqueue, NotifyDecoder, DestroyWake, DestroyJoin, Notify
    <2> QED
      BY <1>2, <2>1
  <1>4. ASSUME NEW t \in Caller, RemoveSubtitles(t) PROVE TextAnnounced'
    <2>1. /\ content' = content \/ content' = {}
          /\ UNCHANGED <<format, announced, dInval, dpc>>
      BY <1>4 DEF RemoveSubtitles
    <2> QED
      BY <1>1, <1>2, <2>1
  <1>5. ASSUME NEW t \in Caller, AnnounceSegment(t) PROVE TextAnnounced'
    <2>1. UNCHANGED <<format, content, dInval, dpc>> /\ announced \subseteq announced'
      BY <1>5 DEF AnnounceSegment, Announce
    <2> QED
      BY <1>2, <2>1
  <1>6. ASSUME NEW t \in Caller, DropStream(t) \/ \E f \in Formats : OpenStream(t, f) PROVE TextAnnounced'
    BY <1>1, <1>6 DEF DropStream, OpenStream
  <1>7. ASSUME DecodeTop \/ DecodeCheck \/ DecodeSleep \/ DecodeReady \/ DecodeLock \/ DecodeRelock
        PROVE  TextAnnounced'
    <2>1. UNCHANGED <<format, content, announced, dInval>> /\ dpc \notin {"loop", "announce"}
      BY <1>7 DEF DecodeTop, DecodeCheck, DecodeSleep, DecodeReady, DecodeLock, DecodeRelock
    <2> QED
      BY <1>2, <2>1
  <1>8. ASSUME DecodeSample PROVE TextAnnounced'
    <2> DEFINE sample == Head(samples)
    <2>1. /\ UNCHANGED <<format, announced, dpc>> /\ dpc = "loop" /\ samples # << >>
          /\ content' = IF sample.kind = "data" THEN content \cup {sample} ELSE content
          /\ dInval' = IF sample.kind = "data" /\ Announces THEN Earliest(sample.start) ELSE dInval
      BY <1>8 DEF DecodeSample
    <2>2. sample \in Sample /\ Good(sample)
      BY <2>1, HeadFacts
    <2> SUFFICES ASSUME Announces, NEW s \in content', s \notin announced PROVE dInval' \in 0 .. s.start
      BY <2>1 DEF TextAnnounced, Announces
    <2>3. CASE sample.kind # "data"
      BY <2>1, <2>3 DEF TextAnnounced
    <2>4. CASE sample.kind = "data"
      <3>1. sample.start \in 0 .. MaxTime /\ dInval' = Earliest(sample.start)
        BY <1>0, <2>1, <2>2, <2>4 DEF Good, Sample, Announces
      <3>2. dInval' \in 0 .. sample.start /\ (dInval >= 0 => dInval' <= dInval)
        BY <1>0, <3>1 DEF Earliest
      <3>3. s = sample \/ (s \in content /\ dInval \in 0 .. s.start)
        BY <2>1, <2>4 DEF TextAnnounced
      <3>4. CASE s = sample
        BY <3>2, <3>4
      <3>5. CASE s \in content /\ dInval \in 0 .. s.start
        <4>1. s.start \in Int
          BY <1>0, <3>5
        <4> QED
          BY <3>1, <3>2, <3>5, <4>1
      <3> QED
        BY <3>3, <3>4, <3>5
    <2> QED
      BY <2>3, <2>4
  <1>9. ASSUME DecodeUnlock PROVE TextAnnounced'
    <2>1. /\ UNCHANGED <<format, content, announced, dInval>>
          /\ dpc' = IF dInval >= 0 THEN "announce" ELSE "top"
      BY <1>9 DEF DecodeUnlock
    <2> QED
      BY <1>0, <2>1 DEF TextAnnounced, Announces
  <1>10. ASSUME DecodeAnnounce PROVE TextAnnounced'
    <2>1. /\ UNCHANGED <<format, content>>
          /\ announced' = announced \cup {s \in content : s.start >= dInval}
      BY <1>10 DEF DecodeAnnounce, Announce
    <2>2. Announces => \A s \in content : s \in announced'
      <3> SUFFICES ASSUME Announces, NEW s \in content, s \notin announced PROVE s.start >= dInval
        BY <2>1
      <3>1. dInval \in 0 .. s.start
        BY DEF TextAnnounced
      <3>2. s.start \in Int
        BY <1>0
      <3> QED
        BY <3>1, <3>2
    <2> QED
      BY <2>1, <2>2 DEF TextAnnounced, Announces
  <1>11. ASSUME ViewFrame \/ ViewerStep \/ UNCHANGED vars PROVE TextAnnounced'
    <2>1. UNCHANGED <<format, content, announced, dInval, dpc>>
      BY <1>11 DEF ViewFrame, ViewerStep, ViewLookup, ViewDraw
    <2> QED
      BY <1>2, <2>1
  <1> QED
    BY <1>3, <1>4, <1>5, <1>6, <1>7, <1>8, <1>9, <1>10, <1>11 DEF Next, CallerStep, DecoderStep

\* A text the decoder added is announced or about to be, also when a seek or the
\* destructor interrupts it in the middle of the queue
THEOREM NoTextUnannounced == Spec => []TextAnnounced
  <1>1. Init => TextAnnounced
    BY InitInv
  <1>2. PinInv /\ TextAnnounced /\ [Next]_vars => TextAnnounced'
    BY NextAnnounced
  <1> QED
    BY PinInvariant, <1>1, <1>2, PTL DEF Spec

\* The decoder does not decode for a stream that a disconnection has dropped
THEOREM DecodesForStream == Spec => []StreamWhileDecoding
  <1>1. PinInv => StreamWhileDecoding
    BY DEF PinInv, SampleInv, StreamWhileDecoding
  <1> QED
    BY PinInvariant, <1>1, PTL

----------------------------------------------------------------------------
(* Waiting: the parts of SamplesLeave, CallsEnd and DestroyEnds that need   *)
(* no fairness.                                                             *)

\* Where a thread cannot go on by itself: before a lock another one holds, asleep, joining
DecoderWaits ==
    \/ dpc \in {"check", "relock"} /\ ~IsFree("queue")
    \/ dpc = "lock" /\ ~IsFree("sub")
    \/ dpc = "announce" /\ ~IsFree("view")
    \/ dpc \in {"asleep", "done"}

ViewerWaits == vpc = "lookup" /\ ~IsFree("sub")

\* Every holder of a lock goes on, or waits for one that does.  The decoder holds m_mutexQueue
\* where it waits for the viewer's lock: the viewer, which has that, does not wait then.  The
\* viewer may wait for m_pSubLock with its own lock held, but only for a decoder that goes on,
\* for that never holds m_pSubLock where it waits for the viewer's lock, nor waits for
\* m_mutexQueue where another one has it.  m_csReceive is held by a NewSegment or a Receive,
\* which waits for these three locks only.
HoldersGoOn ==
    /\ ~IsFree("queue") =>
        /\ owner["queue"] = Decoder
        /\ DecoderWaits => dpc = "announce" /\ owner["view"] = Viewer /\ ~ViewerWaits
    /\ ~IsFree("sub") => \/ owner["sub"] = Decoder /\ ~DecoderWaits
                         \/ owner["sub"] = Viewer /\ ~ViewerWaits
    /\ ~IsFree("view") =>
        /\ owner["view"] = Viewer
        /\ ViewerWaits => owner["sub"] = Decoder /\ ~DecoderWaits
    /\ ~IsFree("receive") => \E t \in Caller : owner["receive"] = t /\ op[t] \in {"segment", "receive"}

\* The decoder does not sleep over a sample, or over the end of the pin, unless whoever
\* queued it or ends the pin is about to notify it; but for the destructor's missed notification.
WokenUp ==
    dpc = "asleep" =>
        /\ samples # << >> => \E t \in Caller : pc[t] = "notify"
        /\ exit => missed \/ \E t \in Caller : pc[t] = "wake"

\* Each lock is held exactly at the places that hold it
LockInv ==
    /\ owner["queue"] = IF dpc \in {"drowsy", "loop", "announce"} THEN Decoder ELSE Free
    /\ dpc \in {"relock", "loop"} => vpc # "draw" /\ owner["sub"] = Decoder
    /\ vpc = "draw" => owner["sub"] = Viewer
    /\ dpc \notin {"relock", "loop"} /\ vpc # "draw" => owner["sub"] = Free
    /\ owner["view"] = IF vpc = "idle" THEN Free ELSE Viewer
    /\ owner["receive"] = Free \/ \E t \in Caller : owner["receive"] = t /\ op[t] \in {"segment", "receive"}

\* What the decoder saw before it sleeps still holds, or it will be notified
WakeInv ==
    /\ dpc = "drowsy" => samples = << >>
    /\ dpc = "asleep" /\ samples # << >> => \E t \in Caller : pc[t] = "notify"
    /\ dpc \in {"drowsy", "asleep"} /\ exit => missed \/ \E t \in Caller : pc[t] = "wake"

LEMMA InitWaits == Init => LockInv /\ WakeInv
  BY DEF Init, LockInv, WakeInv, Lock

\* The locks stay where they are held.
LEMMA NextLock == ASSUME PinInv, LockInv, [Next]_vars PROVE LockInv'
  <1> USE CallerAssumption DEF PinInv, TypeOK, LockInv, IsFree, Take, Release, Thread, Lock, GoTo, Return
  \* Steps of t that take no lock but m_csReceive, and release that only with their call
  <1>1. ASSUME NEW t \in Caller, UNCHANGED <<dpc, vpc>>,
               \A l \in {"queue", "sub", "view"} : owner'[l] = owner[l],
               \A u \in Caller \ {t} : op'[u] = op[u],
               \/ owner'["receive"] = Free
               \/ owner'["receive"] = t /\ op'[t] \in {"segment", "receive"}
               \/ owner'["receive"] = owner["receive"] /\ (op[t] \in {"segment", "receive"} => op'[t] = op[t])
        PROVE  LockInv'
    BY <1>1
  <1>2. ASSUME NEW t \in Caller, NEW rt \in Time, NewSegment(t, rt) PROVE LockInv'
    BY <1>1, <1>2 DEF NewSegment
  <1>3. ASSUME NEW t \in Caller, NEW rt \in Time \cup {NoTime}, Receive(t, rt) PROVE LockInv'
    BY <1>1, <1>3 DEF Receive
  <1>4. ASSUME NEW t \in Caller, EndOfStream(t) \/ Connect(t) \/ Destroy(t) PROVE LockInv'
    BY <1>1, <1>4 DEF EndOfStream, Connect, Destroy, Quiet, CallInv, Placed
  <1>5. ASSUME NEW t \in Caller, NEW how \in {"break", "reconnect"}, Disconnect(t, how) PROVE LockInv'
    BY <1>1, <1>5 DEF Disconnect, Quiet, CallInv, Placed
  <1>6. ASSUME NEW t \in Caller, StopDecoding(t) \/ ClearSamples(t) \/ RemoveSubtitles(t) \/ Enqueue(t)
                                 \/ DestroyJoin(t)
        PROVE  LockInv'
    BY <1>1, <1>6 DEF StopDecoding, ClearSamples, RemoveSubtitles, Enqueue, DestroyJoin
  <1>7. ASSUME NEW t \in Caller, AnnounceSegment(t) PROVE LockInv'
    BY <1>1, <1>7 DEF AnnounceSegment
  <1>8. ASSUME NEW t \in Caller, DropStream(t) \/ \E f \in Formats : OpenStream(t, f) PROVE LockInv'
    <2>1. op[t] \notin {"segment", "receive"}
      BY <1>8 DEF DropStream, OpenStream, CallInv, Placed
    <2> QED
      BY <1>1, <1>8, <2>1 DEF DropStream, OpenStream
  \* A notification wakes the decoder, which holds nothing before and after
  <1>9. ASSUME NEW t \in Caller, NotifyDecoder(t) PROVE LockInv'
    <2>1. op[t] \in {"receive", "end"}
      BY <1>9 DEF NotifyDecoder, CallInv, Placed, CallOp
    <2>2. /\ vpc' = vpc /\ (dpc' = dpc \/ (dpc = "asleep" /\ dpc' = "check"))
          /\ \A l \in {"queue", "sub", "view"} : owner'[l] = owner[l]
      BY <1>9 DEF NotifyDecoder, Notify
    <2>3. \/ owner'["receive"] = Free
          \/ owner'["receive"] = owner["receive"] /\ op[t] = "end"
      BY <1>9, <2>1 DEF NotifyDecoder
    <2>4. \A u \in Caller \ {t} : op'[u] = op[u]
      BY <1>9 DEF NotifyDecoder
    <2> QED
      BY <2>2, <2>3, <2>4
  <1>10. ASSUME NEW t \in Caller, DestroyWake(t) PROVE LockInv'
    BY <1>10 DEF DestroyWake, Notify
  <1>11. ASSUME DecoderStep PROVE LockInv'
    <2>1. CASE DecodeTop \/ DecodeReady \/ DecodeSample
      BY <2>1 DEF DecodeTop, DecodeReady, DecodeSample
    <2>2. CASE DecodeCheck \/ DecodeSleep
      BY <2>2 DEF DecodeCheck, DecodeSleep
    <2>3. CASE DecodeLock \/ DecodeRelock
      BY <2>3 DEF DecodeLock, DecodeRelock
    <2>4. CASE DecodeUnlock
      BY <2>4 DEF DecodeUnlock, Unlocked
    <2>5. CASE DecodeAnnounce
      BY <2>5 DEF DecodeAnnounce
    <2> QED
      BY <1>11, <2>1, <2>2, <2>3, <2>4, <2>5 DEF DecoderStep
  <1>12. ASSUME ViewFrame \/ ViewerStep PROVE LockInv'
    BY <1>12 DEF ViewFrame, ViewerStep, ViewLookup, ViewDraw
  <1>13. CASE UNCHANGED vars
    BY <1>13
  <1> QED
    BY <1>2, <1>3, <1>4, <1>5, <1>6, <1>7, <1>8, <1>9, <1>10, <1>11, <1>12, <1>13
       DEF Next, Call, CallerStep

\* Whoever changes what the decoder saw before it sleeps notifies it.
LEMMA NextWake == ASSUME PinInv, LockInv, WakeInv, [Next]_vars PROVE WakeInv'
  <1> USE DEF PinInv, TypeOK, WakeInv, GoTo, Return
  \* Steps of t that change nothing the decoder looks at, and are no notification
  <1>1. ASSUME NEW t \in Caller, UNCHANGED <<dpc, exit, missed>>, samples' = samples \/ samples' = << >>,
               pc[t] \notin {"notify", "wake"}, \A u \in Caller \ {t} : pc'[u] = pc[u]
        PROVE  WakeInv'
    BY <1>1
  <1>2. ASSUME NEW t \in Caller,
               \/ \E rt \in Time : NewSegment(t, rt)
               \/ \E rt \in Time \cup {NoTime} : Receive(t, rt)
               \/ EndOfStream(t) \/ Connect(t)
               \/ \E how \in {"break", "reconnect"} : Disconnect(t, how)
        PROVE  WakeInv'
    <2>1. /\ pc[t] = "idle" /\ UNCHANGED <<dpc, exit, missed, samples>>
          /\ \A u \in Caller \ {t} : pc'[u] = pc[u]
      BY <1>2 DEF NewSegment, Receive, EndOfStream, Connect, Disconnect, Quiet
    <2> QED
      BY <1>1, <2>1
  <1>3. ASSUME NEW t \in Caller, Destroy(t) PROVE WakeInv'
    BY <1>3 DEF Destroy, Quiet
  <1>4. ASSUME NEW t \in Caller, StopDecoding(t) \/ ClearSamples(t) \/ RemoveSubtitles(t)
                                 \/ AnnounceSegment(t) \/ DestroyJoin(t)
        PROVE  WakeInv'
    <2>1. /\ pc[t] \notin {"notify", "wake"} /\ UNCHANGED <<dpc, exit, missed>>
          /\ samples' = samples \/ samples' = << >>
          /\ \A u \in Caller \ {t} : pc'[u] = pc[u]
      BY <1>4 DEF StopDecoding, ClearSamples, Kept, RemoveSubtitles, AnnounceSegment, DestroyJoin
    <2> QED
      BY <1>1, <2>1
  <1>5. ASSUME NEW t \in Caller, Enqueue(t) PROVE WakeInv'
    <2>1. dpc # "drowsy"
      BY <1>5, CallerAssumption DEF Enqueue, IsFree, LockInv, Thread
    <2> QED
      BY <1>5, <2>1 DEF Enqueue
  <1>6. ASSUME NEW t \in Caller, NotifyDecoder(t) PROVE WakeInv'
    <2>1. dpc' # "asleep" /\ UNCHANGED <<samples, exit, missed>> /\ pc[t] = "notify"
      BY <1>6 DEF NotifyDecoder, Notify
    <2>2. dpc' = "drowsy" => dpc = "drowsy"
      BY <1>6 DEF NotifyDecoder, Notify
    <2>3. \A u \in Caller : pc[u] = "wake" => pc'[u] = "wake"
      BY <1>6, <2>1 DEF NotifyDecoder
    <2> QED
      BY <2>1, <2>2, <2>3
  <1>7. ASSUME NEW t \in Caller, DestroyWake(t) PROVE WakeInv'
    BY <1>7 DEF DestroyWake, Notify
  <1>8. ASSUME NEW t \in Caller, DropStream(t) \/ \E f \in Formats : OpenStream(t, f) PROVE WakeInv'
    <2>1. /\ pc[t] \in {"open", "drop"} /\ UNCHANGED <<dpc, exit, missed, samples>>
          /\ \A u \in Caller \ {t} : pc'[u] = pc[u]
      BY <1>8 DEF DropStream, OpenStream
    <2> QED
      BY <1>1, <2>1
  <1>9. ASSUME DecodeCheck PROVE WakeInv'
    BY <1>9 DEF DecodeCheck, NeedStop
  <1>10. ASSUME DecodeSleep PROVE WakeInv'
    BY <1>10 DEF DecodeSleep
  <1>11. ASSUME DecodeTop \/ DecodeReady \/ DecodeLock \/ DecodeRelock \/ DecodeSample \/ DecodeUnlock
                \/ DecodeAnnounce
         PROVE  WakeInv'
    <2>1. dpc' \notin {"drowsy", "asleep"}
      BY <1>11 DEF DecodeTop, DecodeReady, DecodeLock, DecodeRelock, DecodeSample, DecodeUnlock,
                   DecodeAnnounce
    <2> QED
      BY <2>1
  <1>12. ASSUME ViewFrame \/ ViewerStep \/ UNCHANGED vars PROVE WakeInv'
    BY <1>12 DEF ViewFrame, ViewerStep, ViewLookup, ViewDraw
  <1> QED
    BY <1>2, <1>3, <1>4, <1>5, <1>6, <1>7, <1>8, <1>9, <1>10, <1>11, <1>12
       DEF Next, Call, CallerStep, DecoderStep

LEMMA WaitsInvariant == Spec => [](PinInv /\ LockInv /\ WakeInv)
  <1>1. Init => LockInv /\ WakeInv
    BY InitWaits
  <1>2. PinInv /\ LockInv /\ WakeInv /\ [Next]_vars => LockInv' /\ WakeInv'
    BY NextLock, NextWake
  <1> QED
    BY PinInvariant, <1>1, <1>2, PTL DEF Spec

\* However seeks, samples, connections and drawn frames meet, whoever waits for a lock waits for
\* a thread that goes on: the locks of upstream threads, decoder and viewer are never waited
\* for in a circle
THEOREM LocksAreReleased == Spec => []HoldersGoOn
  <1>1. PinInv /\ LockInv => HoldersGoOn
    <2> SUFFICES ASSUME PinInv, LockInv PROVE HoldersGoOn
      OBVIOUS
    <2> USE CallerAssumption DEF LockInv, IsFree, DecoderWaits, ViewerWaits, Thread
    <2>1. Decoder # Free /\ Viewer # Free /\ Decoder # Viewer
      OBVIOUS
    <2>2. dpc \in {"drowsy", "loop", "relock"} => ~DecoderWaits
      OBVIOUS
    <2>3. dpc = "announce" /\ DecoderWaits => owner["view"] = Viewer /\ ~ViewerWaits
      OBVIOUS
    <2>4. vpc = "draw" => ~ViewerWaits
      OBVIOUS
    <2>5. vpc = "idle" \/ vpc = "lookup" \/ vpc = "draw"
      BY DEF PinInv, TypeOK
    <2> QED
      BY <2>1, <2>2, <2>3, <2>4, <2>5 DEF HoldersGoOn
  <1> QED
    BY WaitsInvariant, <1>1, PTL

\* No notification is lost but the destructor's, which is sent without m_mutexQueue: the
\* decoder never sleeps with a sample queued and nobody about to wake it
THEOREM DecoderIsWoken == Spec => []WokenUp
  <1>1. WakeInv => WokenUp
    BY DEF WakeInv, WokenUp
  <1> QED
    BY WaitsInvariant, <1>1, PTL

=============================================================================
