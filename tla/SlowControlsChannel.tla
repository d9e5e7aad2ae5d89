------------------------- MODULE SlowControlsChannel -------------------------
(***************************************************************************)
(* One FESlowControlsChannel (src/otsdaq/FECore/FESlowControlsChannel.cc). *)
(*                                                                         *)
(* The channel is constructed once from its configuration (Init), then     *)
(* driven by the front-end's slow-controls work loop, one handleSample     *)
(* call at a time (HandleSample), and its latched alarms are reset by      *)
(* clearAlarms (ClearAlarms).  handleSample is modelled as ONE step: it    *)
(* runs to completion with no suspension point (spec section 5), and its   *)
(* whole body -- change suppression, the transmit value packet,            *)
(* checkAlarms with its alarm packets, the aggregate-file append and the   *)
(* per-channel-file append -- is part of that step, in the code's order.   *)
(*                                                                         *)
(* Data abstraction.  A sample or threshold buffer is represented by the   *)
(* number it encodes in the channel's numeric domain; two buffers are      *)
(* byte-equal iff their numbers are equal.  A record written to the tx     *)
(* buffer or to a file keeps its type/tag byte (0 = value, l+1 = alarm of  *)
(* level l, which is also the sentinel time of alarm records in files),    *)
(* the sequence byte where there is one, and the value; the name, the      *)
(* sizes and the timestamp are left out.  Each record also carries the     *)
(* number of the handleSample call that wrote it (cyc), a history field    *)
(* used only by the properties.                                            *)
(***************************************************************************)
EXTENDS Integers, Sequences, FiniteSets

CONSTANTS
  DataTypes,        \* dataType strings, as [kw |-> keyword or "b", bits |-> n for "<n>b"]
  SampleValues(_),  \* SampleValues(dt): values a read of a channel of type dt may produce
  Thresholds(_),    \* Thresholds(dt): [Levels -> n], the numbers the lolo, lo, hi, hihi texts spell
  PadOutcomes,      \* what the uninitialised bytes past a short buffer can compare as
  ChannelConfigs,   \* the channel and call configurations the model starts from
  MaxCycles         \* bound on the number of handleSample calls

VARIABLES
  ch,          \* the channel's configuration and its caller's arguments (constant per run)
  pad,         \* pad[l]: garbage past threshold buffer l, relative to the sample buffer's
  sample,      \* sample_
  lastSample,  \* lastSample_
  alarmed,     \* alarmed[l]: loloAlarmed_, loAlarmed_, hiAlarmed_, hihiAlarmed_
  seq,         \* txPacketSequenceNumber_ (8 bits)
  tx,          \* packets appended to the caller's txBuffer
  agg,         \* records appended to the caller's aggregate file
  chan,        \* records appended to the channel's own save file
  cycle,       \* number of handleSample calls so far
  lastClear,   \* history: lastClear[l] = cycle at the last clearAlarms of level l
  hung         \* a handleSample call never returned

vars == <<ch, pad, sample, lastSample, alarmed, seq, tx, agg, chan, cycle, lastClear, hung>>

Levels == 0..3             \* 0 lolo, 1 lo, 2 hi, 3 hihi (bit l of the alarm mask)
LowLevels == {0, 1}        \* compared with <=; hi and hihi with >=
SeqModulus == 256          \* the sequence counter is one byte
AggregateModes == {"none", "binary", "text"}

(***************************************************************************)
(* Type resolution (constructor) and the numeric domain checkAlarms uses.  *)
(***************************************************************************)
Keywords == {"char", "unsigned char", "short", "unsigned short", "int", "unsigned int",
             "long long", "unsigned long long", "float", "double"}

\* sizeOfDataTypeBits_: "<n>b" gives n bits, a keyword its LP64 size.
SizeOfDataTypeBits(dt) ==
  IF dt.kw = "b" THEN dt.bits
  ELSE CASE dt.kw \in {"char", "unsigned char"}           -> 8
         [] dt.kw \in {"short", "unsigned short"}         -> 16
         [] dt.kw \in {"int", "unsigned int", "float"}    -> 32
         [] dt.kw \in {"long long", "unsigned long long", "double"} -> 64

\* sizeOfDataTypeBytes_ = ceil(bits / 8)
SizeOfDataTypeBytes(dt) ==
  SizeOfDataTypeBits(dt) \div 8 + (IF SizeOfDataTypeBits(dt) % 8 # 0 THEN 1 ELSE 0)

\* useType of checkAlarms: 0 unsigned long long, 1 long long, 2 float, 3 double
UseType(dt) ==
  CASE dt.kw \in {"b", "unsigned char", "unsigned short", "unsigned int",
                  "unsigned long long"}                   -> 0
    [] dt.kw \in {"char", "short", "int", "long long"}   -> 1
    [] dt.kw = "float"                                    -> 2
    [] dt.kw = "double"                                   -> 3

BitField(dt) == dt.kw = "b"

\* checkAlarms dereferences the buffers as 8-byte integers (useType 0, 1),
\* a float (2) or a double (3); a shorter buffer is over-read.
OverRead(dt) ==
  SizeOfDataTypeBytes(dt) < (IF UseType(dt) = 2 THEN 4 ELSE 8)

\* The buffer's bytes read as an unsigned number (two's complement bytes).
Bits(dt, v) == v % (2 ^ (8 * SizeOfDataTypeBytes(dt)))

(***************************************************************************)
(* The comparison checkAlarms actually performs.  With no over-read it is  *)
(* the domain's own comparison.  With an over-read the 8-byte value is     *)
(* (garbage above the NUL terminator, buffer bytes zero-extended): byte    *)
(* order compares the garbage first, then the zero-extended bytes, for     *)
(* the signed as well as the unsigned read.  The garbage is an undefined   *)
(* read, so pad[l] is a nondeterministic choice fixed at construction.     *)
(***************************************************************************)
ReadLeq(dt, p, s, th) ==
  IF OverRead(dt) THEN 0 < p \/ (p = 0 /\ Bits(dt, s) <= Bits(dt, th))
  ELSE s <= th

ReadGeq(dt, p, s, th) ==
  IF OverRead(dt) THEN 0 > p \/ (p = 0 /\ Bits(dt, s) >= Bits(dt, th))
  ELSE s >= th

\* convertStringToBuffer(text, buffer, true) for a threshold: float and
\* double texts are parsed as such; any other text as an unsigned number
\* whose low bytes fill the buffer (truncated to its width), read back in
\* the type's domain.  The model's numbers stay below 2^31, so an 8-byte
\* buffer keeps them whole.
ConvertStringToBuffer(dt, n) ==
  IF UseType(dt) >= 2 \/ SizeOfDataTypeBytes(dt) >= 8 THEN n
  ELSE LET w == 8 * SizeOfDataTypeBytes(dt)
           b == n % (2 ^ w)
       IN  IF UseType(dt) = 1 /\ b >= 2 ^ (w - 1) THEN b - 2 ^ w ELSE b

\* the threshold buffer of level l, as the constructor converts it
Threshold(l) == ConvertStringToBuffer(ch.dataType, Thresholds(ch.dataType)[l])

\* the comparison of level l in checkAlarms
Crosses(l, s) ==
  IF l \in LowLevels THEN ReadLeq(ch.dataType, pad[l], s, Threshold(l))
  ELSE ReadGeq(ch.dataType, pad[l], s, Threshold(l))

\* Mutant: the latch guard (!xAlarmed_ || !latchAlarms_) dropped.
FiredMaskNoLatch(s) == {l \in Levels : Crosses(l, s)}

\* createPacketMask of checkAlarms, as the set of levels that fired
FiredMask(s) ==
  {l \in Levels : (~alarmed[l] \/ ~ch.latchAlarms) /\ Crosses(l, s)}

\* the levels of a mask in the order the code's loops visit them
MaskOrder(m) == SelectSeq(<<0, 1, 2, 3>>, LAMBDA l : l \in m)

\* A record: tag is the packet type byte (tx) or the time field (files,
\* 0 standing for the real timestamp); seq is meaningful in tx only.
Rec(tag, v) == [tag |-> tag, seq |-> 0, val |-> v, cyc |-> cycle + 1]

\* Mutant: alarm sentinels/types numbered from 2 instead of 1.
AlarmRecsShifted(m) == [i \in 1..Len(MaskOrder(m)) |->
                         Rec(MaskOrder(m)[i] + 2, Threshold(MaskOrder(m)[i]))]

AlarmRecs(m) == [i \in 1..Len(MaskOrder(m)) |->
                   Rec(MaskOrder(m)[i] + 1, Threshold(MaskOrder(m)[i]))]

\* Mutant: checkAlarms' packets appended before the value packet.
CyclePacketsAlarmsFirst(s, m) ==
  LET recs == AlarmRecs(m) \o <<Rec(0, s)>>
  IN [i \in 1..Len(recs) |-> [recs[i] EXCEPT !.seq = (seq + i - 1) % SeqModulus]]

\* The tx packets of one call: the value packet, then one alarm packet per
\* fired level (checkAlarms runs after the value packet), each taking the
\* next sequence number.
CyclePackets(s, m) ==
  LET recs == <<Rec(0, s)>> \o AlarmRecs(m)
  IN [i \in 1..Len(recs) |-> [recs[i] EXCEPT !.seq = (seq + i - 1) % SeqModulus]]

\* The text branches render a bit-field alarm threshold in a loop that
\* increments i instead of j: it never ends (or faults reading past
\* alarmValueArray), so the call never returns.
TextAlarmHangs(m) == BitField(ch.dataType) /\ m # {}

\* Records the aggregate-file branch appends (both formats: value record,
\* then alarm records with sentinel times 1..4).
AggregateRecords(s, m) ==
  CASE ch.aggregate = "none"                        -> <<>>
    [] ch.aggregate = "text" /\ TextAlarmHangs(m)   -> <<Rec(0, s)>>
    [] OTHER                                        -> <<Rec(0, s)>> \o AlarmRecs(m)

AggregateHangs(m) == ch.aggregate = "text" /\ TextAlarmHangs(m)

\* The binary aggregate loop shifts alarmMask itself (alarmMask >>= 1);
\* what is left for the per-channel file is the mask after that branch.
MaskAfterAggregate(m) ==
  IF ch.aggregate = "binary" /\ m # {} THEN {} ELSE m

\* Mutant: the per-channel file gets the value record but no alarm records.
ChannelFileRecordsNoAlarms(s, m, opened) ==
  IF ~ch.saveEnabled \/ ~opened THEN <<>> ELSE <<Rec(0, s)>>

\* Records the per-channel-file branch appends; nothing if fopen fails.
ChannelFileRecords(s, m, opened) ==
  CASE ~ch.saveEnabled \/ ~opened                            -> <<>>
    [] ~ch.saveBinaryFormat /\ TextAlarmHangs(m)              -> <<Rec(0, s)>>
    [] OTHER                                                  -> <<Rec(0, s)>> \o AlarmRecs(m)

ChannelFileHangs(m, opened) ==
  ch.saveEnabled /\ opened /\ ~ch.saveBinaryFormat /\ TextAlarmHangs(m)

\* recordChangesOnly_: lastSampleTime_ was just set to time(0), which is
\* never 0, so only the byte comparison with lastSample_ decides.
Suppressed(s) == ch.recordChangesOnly /\ s = lastSample

-----------------------------------------------------------------------------
(***************************************************************************)
(* Construction.  Threshold buffers are parsed only when alarms are        *)
(* enabled; otherwise they stay zero-filled.  sample_ and lastSample_ are  *)
(* resized, i.e. zero-filled.                                              *)
(***************************************************************************)
Init ==
  /\ ch \in ChannelConfigs
  \* the garbage matters only to checkAlarms, hence only with alarms enabled
  /\ pad \in [Levels -> IF OverRead(ch.dataType) /\ ch.alarmsEnabled
                        THEN PadOutcomes ELSE {0}]
  /\ sample = 0
  /\ lastSample = 0
  /\ alarmed = [l \in Levels |-> FALSE]
  /\ seq = 0
  /\ tx = <<>>
  /\ agg = <<>>
  /\ chan = <<>>
  /\ cycle = 0
  /\ lastClear = [l \in Levels |-> 0]
  /\ hung = FALSE

(***************************************************************************)
(* handleSample(universalReadValue, txBuffer, fpAggregate,                 *)
(*              aggregateIsBinaryFormat, txBufferUsed), with the sample    *)
(* extractSample pulls out of the read and the outcome of fopen.           *)
(***************************************************************************)
HandleSample ==
  /\ ~hung
  /\ cycle < MaxCycles
  /\ cycle' = cycle + 1
  /\ \E s \in SampleValues(ch.dataType), opened \in BOOLEAN :
       /\ sample' = s
       /\ IF Suppressed(s)
            THEN UNCHANGED <<lastSample, alarmed, seq, tx, agg, chan, hung>>
            ELSE LET m   == IF ch.alarmsEnabled /\ ch.txBufferUsed
                               THEN FiredMask(s) ELSE {}
                     pk  == IF ch.monitoringEnabled /\ ch.txBufferUsed
                               THEN CyclePackets(s, m) ELSE <<>>
                     cm  == MaskAfterAggregate(m)
                 IN /\ lastSample' = s
                    /\ alarmed' = [l \in Levels |-> alarmed[l] \/ l \in m]
                    /\ tx' = tx \o pk
                    /\ seq' = (seq + Len(pk)) % SeqModulus
                    /\ agg' = agg \o AggregateRecords(s, m)
                    /\ chan' = IF AggregateHangs(m) THEN chan
                               ELSE chan \o ChannelFileRecords(s, cm, opened)
                    /\ hung' = (AggregateHangs(m) \/ ChannelFileHangs(cm, opened))
  /\ UNCHANGED <<ch, pad, lastClear>>

\* clearAlarms(targetAlarm): -1 clears every level
Cleared(target, l) == target = -1 \/ target = l

ClearAlarms(target) ==
  /\ alarmed' = [l \in Levels |-> IF Cleared(target, l) THEN FALSE ELSE alarmed[l]]
  /\ lastClear' = [l \in Levels |-> IF target \in {-1, l} THEN cycle ELSE lastClear[l]]
  /\ UNCHANGED <<ch, pad, sample, lastSample, seq, tx, agg, chan, cycle, hung>>

Next ==
  \/ HandleSample
  \/ \E target \in -1..3 : ClearAlarms(target)

Spec == Init /\ [][Next]_vars

-----------------------------------------------------------------------------
(***************************************************************************)
(* Properties.                                                             *)
(***************************************************************************)
Record == [tag : 0..4, seq : 0..(SeqModulus - 1), val : Int, cyc : 1..MaxCycles]

TypeOK ==
  /\ ch \in ChannelConfigs
  /\ pad \in [Levels -> PadOutcomes \cup {0}]
  /\ alarmed \in [Levels -> BOOLEAN]
  /\ seq \in 0..(SeqModulus - 1)
  /\ tx \in Seq(Record) /\ agg \in Seq(Record) /\ chan \in Seq(Record)
  /\ cycle \in 0..MaxCycles
  /\ lastClear \in [Levels -> 0..MaxCycles]
  /\ hung \in BOOLEAN

\* Streams that announce alarms: the tx buffer when handleSample appends to
\* it, and the aggregate file when the caller passes one.
AnnouncingStreams ==
  (IF ch.monitoringEnabled /\ ch.txBufferUsed THEN {tx} ELSE {})
  \cup (IF ch.aggregate # "none" THEN {agg} ELSE {})

\* alarm records of level l written since level l was last cleared
Announcements(out, l) ==
  Cardinality({i \in DOMAIN out : out[i].tag = l + 1 /\ out[i].cyc > lastClear[l]})

(* A receiver attributes an alarm record to the value record before it.    *)
(* In the tx buffer and in the aggregate file (handleSample, checkAlarms)  *)
(* every alarm record directly follows a record of the same handleSample   *)
(* call with a lower type, and tx sequence numbers run on by one (mod 256) *)
(* across value and alarm packets.                                         *)
RecordsFramed ==
  /\ \A out \in {tx, agg} : \A i \in DOMAIN out :
       out[i].tag > 0 => i > 1 /\ out[i-1].cyc = out[i].cyc /\ out[i-1].tag < out[i].tag
  /\ \A i \in 2..Len(tx) : tx[i].seq = (tx[i-1].seq + 1) % SeqModulus

(* The alarm flags and the alarm records agree (checkAlarms, clearAlarms,  *)
(* latchAlarms_).  Since a level was last cleared, a latched channel has   *)
(* announced it exactly once if it is alarmed and never if it is not; an   *)
(* unlatched channel has announced it at least once iff it is alarmed.     *)
AlarmsAnnounced ==
  ~hung =>
    \A out \in AnnouncingStreams : \A l \in Levels :
      IF ch.latchAlarms
      THEN Announcements(out, l) = IF alarmed[l] THEN 1 ELSE 0
      ELSE alarmed[l] <=> Announcements(out, l) >= 1

(* The spec (4.5): change suppression never applies to the very first      *)
(* sample.  Checked on the aggregate file: the first handleSample call     *)
(* always appends a value record to it.                                    *)
FirstSampleRecorded ==
  [][cycle = 0 /\ cycle' = 1 /\ ch.aggregate # "none" => Len(agg') > 0]_vars

RecordsOfCall(out, c) ==
  LET rs == SelectSeq(out, LAMBDA r : r.cyc = c)
  IN [i \in DOMAIN rs |-> <<rs[i].tag, rs[i].val>>]

(* The spec (4.5): the per-channel file and the aggregate file carry the   *)
(* same value and alarm records for every handleSample call that writes    *)
(* both.                                                                   *)
ChannelFileMatchesAggregate ==
  ~hung =>
    \A c \in 1..cycle :
      RecordsOfCall(chan, c) # <<>> /\ RecordsOfCall(agg, c) # <<>>
        => RecordsOfCall(chan, c) = RecordsOfCall(agg, c)

(* The per-channel save file loses whole handleSample calls, never parts  *)
(* of one: for every call, the file holds either nothing (fopen failed,    *)
(* line 654, while the tx buffer, the alarm flags and the sequence number  *)
(* moved on) or exactly the value and alarm records the call sent in the   *)
(* tx buffer, with latched levels not repeated after a lost call.          *)
ChannelFileWholeCalls ==
  ~hung /\ ch.saveEnabled /\ ch.monitoringEnabled /\ ch.txBufferUsed /\ ch.aggregate # "binary" =>
    \A c \in 1..cycle :
      RecordsOfCall(chan, c) \in {<<>>, RecordsOfCall(tx, c)}

\* the comparison of the spec (4.4) in the channel's numeric domain
DomainCrosses(l, s) ==
  IF l \in LowLevels THEN s <= Threshold(l) ELSE s >= Threshold(l)

(* The spec (4.4): with alarms enabled, every sample that is not           *)
(* suppressed as unchanged raises exactly the levels whose threshold it    *)
(* crosses in the channel's numeric domain (checkAlarms).                  *)
FollowsThresholds ==
  cycle' = cycle + 1 /\ ch.alarmsEnabled /\ ~Suppressed(sample') =>
    \A l \in Levels : alarmed'[l] = (alarmed[l] \/ DomainCrosses(l, sample'))

AlarmsFollowThresholds == [][FollowsThresholds]_vars

(* Every handleSample call returns.                                        *)
NoHang == ~hung

=============================================================================
