----------------------- MODULE MCSlowControlsChannel -----------------------
(* Model-checking instance of SlowControlsChannel: a few data types, small *)
(* sample and threshold sets, and the channel configurations of each run. *)
EXTENDS SlowControlsChannel

CharT   == [kw |-> "char", bits |-> 0]
ULongT  == [kw |-> "unsigned long long", bits |-> 0]
DoubleT == [kw |-> "double", bits |-> 0]
Bits12T == [kw |-> "b", bits |-> 12]

MCDataTypes == {CharT, ULongT, DoubleT, Bits12T}

\* signed domains may read negative values
MCSampleValues(dt) ==
  IF dt \in {CharT, DoubleT} THEN {-3, 1, 5} ELSE {0, 2, 5}

\* thresholds are parsed as unsigned numbers (convertStringToBuffer), so
\* they are non-negative; lolo < lo < hi < hihi.  The bit field's hihi text
\* is 65541, which its 2-byte buffer truncates to 5.
MCThresholds(dt) == IF dt = Bits12T THEN <<0, 1, 3, 65541>> ELSE <<0, 1, 3, 5>>

\* TLA+ tuples are indexed from 1; levels from 0
MCThresholdFn(dt) == [l \in Levels |-> MCThresholds(dt)[l + 1]]

Configs(types, flags, txUsed, aggs) ==
  [dataType : types, monitoringEnabled : flags, recordChangesOnly : flags,
   saveEnabled : flags, saveBinaryFormat : flags, alarmsEnabled : flags,
   latchAlarms : flags, txBufferUsed : txUsed, aggregate : aggs]

\* every configuration, every data type
MCPadOutcomes == {-1, 0, 1}

AllConfigs == Configs(MCDataTypes, BOOLEAN, BOOLEAN, AggregateModes)

\* Alarm announcement: alarms evaluated (tx buffer in use), no per-channel file.
AlarmConfigs ==
  {c \in AllConfigs : c.alarmsEnabled /\ c.txBufferUsed /\ ~c.saveEnabled /\ ~c.saveBinaryFormat}

\* Change suppression: recordChangesOnly_ set, values reach tx and files.
ChangeConfigs ==
  {c \in AllConfigs : c.recordChangesOnly /\ c.monitoringEnabled /\ c.txBufferUsed
                      /\ ~c.alarmsEnabled /\ c.dataType \in {CharT, ULongT}}

\* Both: alarm announcement on every type, and change-only channels.
AlarmAndChangeConfigs == AlarmConfigs \cup ChangeConfigs

\* Alarms with a per-channel file (text or binary) that may fail to open,
\* on the full-width types, with no aggregate file.
SaveConfigs ==
  {c \in AllConfigs : c.alarmsEnabled /\ c.txBufferUsed /\ c.monitoringEnabled
                      /\ c.saveEnabled /\ c.aggregate = "none" /\ ~c.recordChangesOnly
                      /\ c.dataType \in {ULongT, DoubleT}}

\* Alarm announcement, change-only channels and per-channel files.
AlarmChangeSaveConfigs == AlarmAndChangeConfigs \cup SaveConfigs

\* The first sample of a change-only channel, written to a text aggregate file.
FirstSampleConfigs ==
  {c \in AllConfigs : c.recordChangesOnly /\ c.aggregate = "text" /\ c.dataType = ULongT
                      /\ ~c.alarmsEnabled /\ ~c.saveEnabled /\ ~c.saveBinaryFormat}

\* Alarms with a binary aggregate file and a per-channel file.
BinaryAggregateConfigs ==
  {c \in AllConfigs : c.alarmsEnabled /\ c.txBufferUsed /\ c.saveEnabled
                      /\ c.aggregate = "binary" /\ c.dataType = ULongT}

\* Alarms on a signed type narrower than 8 bytes.
SignedCharConfigs ==
  {c \in AllConfigs : c.alarmsEnabled /\ c.txBufferUsed /\ ~c.saveEnabled
                      /\ ~c.saveBinaryFormat /\ c.dataType = CharT}

\* Alarms on a bit-field type with a text aggregate file.
BitFieldTextConfigs ==
  {c \in AllConfigs : c.alarmsEnabled /\ c.txBufferUsed /\ ~c.saveEnabled
                      /\ ~c.saveBinaryFormat /\ c.aggregate = "text" /\ c.dataType = Bits12T}

\* the garbage past a short buffer happens to equal the sample buffer's
ZeroPad == {0}

=============================================================================
