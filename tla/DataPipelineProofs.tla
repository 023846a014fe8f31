-------------------------- MODULE DataPipelineProofs --------------------------
(***************************************************************************)
(* The data path for any tags, range, register width, limits and dead      *)
(* band.  Three arguments that share no state: what the last clear and the *)
(* last raise say of their values (the dead band), where the set points in *)
(* the buffers come from (the automatic mode), and what the scale loses    *)
(* (the conversion).                                                       *)
(***************************************************************************)
EXTENDS DataPipeline, SequenceTheorems, TLAPS

-----------------------------------------------------------------------------
(* The conversion.                                                          *)

(* Integer division.                                                        *)
LEMMA DivBounds ==
  ASSUME NEW a \in Int, NEW b \in Nat, b > 0
  PROVE  /\ a \div b \in Int
         /\ b * (a \div b) <= a
         /\ a < b * (a \div b) + b
OBVIOUS

(* A distance d of a range r, scaled to 0 .. m, cut, scaled back and cut    *)
(* again: it fits, and loses at most one.                                   *)
LEMMA ScaleBounds ==
  ASSUME NEW d \in Nat, NEW r \in Nat, NEW m \in Nat, r > 0, m >= r, d <= r
  PROVE  /\ (d * m) \div r \in 0 .. m
         /\ (((d * m) \div r) * r) \div m \in {d - 1, d}
<1> DEFINE q == (d * m) \div r
           p == (q * r) \div m
<1>1. d * m \in Int /\ d * m <= r * m /\ 0 <= d * m
  OBVIOUS
<1>2. q \in Int /\ r * q <= d * m /\ d * m < r * q + r
  BY <1>1, DivBounds
<1> HIDE DEF q
<1>3. q <= m
  BY <1>1, <1>2
<1>4. q >= 0
  BY <1>1, <1>2
<1>5. q * r \in Int /\ q * r = r * q
  BY <1>2
<1>6. p \in Int /\ m * p <= q * r /\ q * r < m * p + m
  BY <1>5, DivBounds
<1> HIDE DEF p
<1>7. m * p <= m * d
  BY <1>2, <1>5, <1>6
<1>8. p <= d
  BY <1>7, <1>6
<1>9. m * d < m * p + m + m
  BY <1>2, <1>5, <1>6
<1>10. m * d < m * (p + 2)
  BY <1>9, <1>6
<1>11. d < p + 2
  BY <1>10, <1>6
<1> QED BY <1>2, <1>3, <1>4, <1>6, <1>8, <1>11 DEF p, q

(* A value of the range goes to the register and comes back.                *)
LEMMA RoundTrip ==
  ASSUME NEW value \in Int, InRange(value)
  PROVE  RegisterToValue(RawOf(value)) \in {value - 1, value}
<1> DEFINE d == value - EngLow
           r == EngHigh - EngLow
<1>1. d \in Nat /\ r \in Nat /\ MaxRaw \in Nat /\ r > 0 /\ MaxRaw >= r /\ d <= r
  BY ParseAssumption DEF InRange
<1>2. /\ (d * MaxRaw) \div r \in 0 .. MaxRaw
      /\ (((d * MaxRaw) \div r) * r) \div MaxRaw \in {d - 1, d}
  BY <1>1, ScaleBounds
<1>3. RawOf(value) = (d * MaxRaw) \div r
  <2> DEFINE q == (d * MaxRaw) \div r
  <2>1. RawOf(value) = q % (MaxRaw + 1)
    BY DEF RawOf, Scale
  <2>2. q \in 0 .. MaxRaw
    BY <1>2
  <2> HIDE DEF q
  <2>3. q % (MaxRaw + 1) = q
    BY <1>1, <2>2
  <2> QED BY <2>1, <2>3 DEF q
<1>4. RegisterToValue(RawOf(value)) = EngLow + (((d * MaxRaw) \div r) * r) \div MaxRaw
  BY <1>3 DEF RegisterToValue
<1> QED BY <1>2, <1>4, ParseAssumption

(* Every engineering value read is an integer.                              *)
LEMMA ReadIsInt == \A raw \in Raws : RegisterToValue(raw) \in Int
<1> SUFFICES ASSUME NEW raw \in Raws PROVE RegisterToValue(raw) \in Int
  OBVIOUS
<1>1. raw * (EngHigh - EngLow) \in Int /\ MaxRaw \in Nat /\ MaxRaw > 0 /\ EngLow \in Int
  BY ParseAssumption DEF Raws
<1>2. (raw * (EngHigh - EngLow)) \div MaxRaw \in Int
  BY <1>1, DivBounds
<1> QED BY <1>1, <1>2 DEF RegisterToValue

-----------------------------------------------------------------------------
(* The dead band.                                                           *)

(* The last clear of a tag came with a value beyond the dead band of each   *)
(* of its limits; the last raise exceeds its limit by the dead band.        *)
BandInv ==
  /\ enabled \in [PlantTags -> SUBSET Kinds]
  /\ prev \in [PlantTags -> Int \cup {None}]
  /\ calmAt \in [PlantTags -> Int \cup {None}]
  /\ DOMAIN calls = PlantTags
  /\ \A t \in PlantTags :
       /\ calmAt[t] # None => \A kind \in enabled[t] : Returns(kind, calmAt[t])
       /\ \A kind \in Raised(t) :
            kind \in enabled[t] /\ prev[t] \in Int /\ Exceeds(kind, prev[t], prev[t])

LEMMA BandInvSuffices == BandInv => NoChatterInBand
<1> SUFFICES ASSUME BandInv, NEW t \in PlantTags, NEW kind \in Raised(t), calmAt[t] # None
             PROVE  /\ kind \in Highs => prev[t] - calmAt[t] > Deadband
                    /\ kind \in Lows => calmAt[t] - prev[t] > Deadband
  BY DEF NoChatterInBand
<1>1. /\ Threshold[kind] \in Int /\ Deadband \in Nat
      /\ prev[t] \in Int /\ calmAt[t] \in Int
      /\ Returns(kind, calmAt[t]) /\ Exceeds(kind, prev[t], prev[t])
  BY ParseAssumption DEF BandInv
<1>2. CASE kind \in Highs
  BY <1>1, <1>2 DEF Returns, Exceeds, Highs, Lows
<1>3. CASE kind \in Lows
  BY <1>1, <1>3 DEF Returns, Exceeds, Highs, Lows
<1> QED BY <1>2, <1>3 DEF Highs, Lows

(* What checkAlarmLimits calls.                                             *)
LEMMA LimitCallsFit ==
  ASSUME NEW t \in PlantTags, NEW value \in Int
  PROVE  \/ \E kind \in enabled[t] \cap Kinds :
               LimitCalls(t, value) = <<kind>> /\ Exceeds(kind, value, value)
         \/ /\ LimitCalls(t, value) = <<"clear">>
            /\ \A kind \in enabled[t] : Returns(kind, value)
         \/ LimitCalls(t, value) = << >>
<1> DEFINE hits == {i \in 1 .. 4 : Hit(t, value, i)}
           first == CHOOSE i \in hits : \A j \in hits : i <= j
<1>1. CASE hits # {}
  <2>1. \E i \in hits : \A j \in hits : i <= j
    BY <1>1
  <2>2. first \in hits
    BY <2>1
  <2>3. LimitCalls(t, value) = <<Chain[first]>>
    BY <1>1 DEF LimitCalls
  <2>4. first \in 1 .. 4 /\ Hit(t, value, first)
    BY <2>2
  <2> HIDE DEF first
  <2>5. Chain[first] \in Kinds
    BY <2>4 DEF Chain, Kinds, Highs, Lows
  <2>6. Chain[first] \in enabled[t] /\ Exceeds(Chain[first], value, value)
    BY <2>4 DEF Hit, Before
  <2> QED BY <2>3, <2>5, <2>6
<1>2. CASE hits = {}
  BY <1>2 DEF LimitCalls
<1> QED BY <1>1, <1>2

(* The limits among the calls of one sample are those of checkAlarmLimits.  *)
LEMMA OnlyLimitsRaised ==
  ASSUME NEW a \in {<< >>, <<"clear">>} \cup {<<kind>> : kind \in Kinds},
         NEW b \in {<< >>, <<"Deviation">>}, NEW c \in {<< >>, <<"RateOfChange">>},
         NEW i \in 1 .. Len(a \o b \o c), (a \o b \o c)[i] \in Kinds
  PROVE  a = <<(a \o b \o c)[i]>>
BY DEF Kinds, Highs, Lows

LEMMA AcceptKeepsBand ==
  ASSUME BandInv, NEW t \in PlantTags, NEW value \in Int, NEW dt, Accept(t, value, dt)
  PROVE  BandInv'
<1> DEFINE a == LimitCalls(t, value)
           b == DeviationCalls(t, value)
           c == RocCalls(t, value, dt)
<1>1. /\ enabled' = enabled /\ prev' = [prev EXCEPT ![t] = value]
      /\ calls' = [calls EXCEPT ![t] = a \o b \o c]
      /\ calmAt' = [calmAt EXCEPT ![t] = IF a = <<"clear">> THEN value ELSE @]
  BY DEF Accept
<1>2. b \in {<< >>, <<"Deviation">>} /\ c \in {<< >>, <<"RateOfChange">>}
  BY DEF DeviationCalls, RocCalls
<1>3. a \in {<< >>, <<"clear">>} \cup {<<kind>> : kind \in Kinds}
  BY LimitCallsFit
<1>4. \A kind \in Raised(t)' : kind \in enabled[t] /\ Exceeds(kind, value, value)
  <2> SUFFICES ASSUME NEW kind \in Raised(t)' PROVE kind \in enabled[t] /\ Exceeds(kind, value, value)
    OBVIOUS
  <2>1. calls'[t] = a \o b \o c
    BY <1>1 DEF BandInv
  <2>2. PICK i \in 1 .. Len(a \o b \o c) : (a \o b \o c)[i] = kind
    BY <2>1 DEF Raised
  <2>3. kind \in Kinds
    BY DEF Raised
  <2> HIDE DEF a, b, c
  <2>4. a = <<kind>>
    BY <1>2, <1>3, <2>2, <2>3, OnlyLimitsRaised
  <2> QED BY <2>3, <2>4, LimitCallsFit DEF a, Kinds, Highs, Lows
<1>5. a = <<"clear">> => \A kind \in enabled[t] : Returns(kind, value)
  BY LimitCallsFit DEF Kinds, Highs, Lows
<1>6. \A q \in PlantTags \ {t} : /\ prev'[q] = prev[q] /\ calmAt'[q] = calmAt[q]
                                 /\ Raised(q)' = Raised(q)
  BY <1>1 DEF BandInv, Raised
<1>7. prev'[t] = value /\ calmAt'[t] = IF a = <<"clear">> THEN value ELSE calmAt[t]
  BY <1>1 DEF BandInv
<1> HIDE DEF a, b, c
<1>8. /\ prev' \in [PlantTags -> Int \cup {None}] /\ calmAt' \in [PlantTags -> Int \cup {None}]
      /\ enabled' \in [PlantTags -> SUBSET Kinds] /\ DOMAIN calls' = PlantTags
  BY <1>1 DEF BandInv
<1> QED BY <1>1, <1>4, <1>5, <1>6, <1>7, <1>8 DEF BandInv, Returns, Exceeds

(* The dead band holds between any clear and the next raise                 *)
(* (DataParseThread.cpp:150-174, DeadbandFilter.h:5-28).                    *)
THEOREM DeadbandHolds == PipelineSpec => []NoChatterInBand
<1>1. PipelineInit => BandInv
  BY DEF PipelineInit, ParseInit, BandInv, Raised
<1>2. BandInv /\ [PipelineNext]_pipelineVars => BandInv'
  <2> SUFFICES ASSUME BandInv, [PipelineNext]_pipelineVars PROVE BandInv'
    OBVIOUS
  <2>1. ASSUME NEW t \in PlantTags, NEW raw \in Raws, NEW dt \in Gaps, Parse(t, raw, dt)
        PROVE  BandInv'
    BY <2>1, ReadIsInt, AcceptKeepsBand DEF Parse
  <2>2. CASE UNCHANGED parseVars
    BY <2>2 DEF parseVars, BandInv, Raised
  <2> QED BY <2>1, <2>2 DEF PipelineNext, Commit, Operate, WriteSetPoint, WriteOutput,
                            ToggleAutoMode, SetAutoMode, pipelineVars
<1> QED BY <1>1, <1>2, BandInvSuffices, PTL DEF PipelineSpec

-----------------------------------------------------------------------------
(* The set points.                                                          *)

(* A set point in the buffers is one that was asked for, or the default.    *)
FromOperator(store) ==
  \A t \in PlantTags : store[t] # Absent => store[t].setPoint \in asked[t] \cup {0}

SetPointInv ==
  /\ DOMAIN buffer = PlantTags /\ DOMAIN asked = PlantTags
  /\ FromOperator(buffer) /\ FromOperator(shown)
  /\ command # NotSent => /\ command.tag \in PlantTags /\ command.value \in Int
                       /\ InRange(command.value) /\ command.raw = RawOf(command.value)
  /\ AutoSendsOwnSetPoint
  /\ \A t \in PlantTags : asked[t] \subseteq Int

LEMMA SetPointInvariant == PipelineSpec => []SetPointInv
<1> USE DEF SetPointInv, FromOperator, AutoSendsOwnSetPoint
<1>1. PipelineInit => SetPointInv
  BY DEF PipelineInit, Buffer!Init, Buffer!Empty, NotSent
<1>2. SetPointInv /\ [PipelineNext]_pipelineVars => SetPointInv'
  <2> SUFFICES ASSUME SetPointInv, [PipelineNext]_pipelineVars PROVE SetPointInv'
    OBVIOUS
  <2>1. ASSUME NEW t \in PlantTags, NEW raw \in Raws, NEW dt \in Gaps, Parse(t, raw, dt)
        PROVE  SetPointInv'
    BY <2>1 DEF Parse, Buffer!Write, Blank, InRange, RawOf, Scale, NotSent
  <2>2. CASE Commit
    BY <2>2 DEF Commit, Buffer!Commit, Buffer!Empty, InRange, RawOf, Scale, NotSent
  <2>3. ASSUME NEW t \in PlantTags, NEW value \in Requests, WriteSetPoint(t, value)
        PROVE  SetPointInv'
    <3>1. value \in Int
      BY ParseAssumption DEF Requests
    <3>2. /\ command' = Sending("operator", t, Register[t], value) /\ InRange(value)
          /\ asked' = [asked EXCEPT ![t] = @ \cup {value}]
          /\ shown' = shown /\ buffer' = [buffer EXCEPT ![t] = [Blank EXCEPT !.setPoint = value]]
      BY <2>3 DEF WriteSetPoint, Buffer!Write
    <3>3. FromOperator(buffer)' /\ FromOperator(shown)' /\ DOMAIN buffer' = PlantTags
      BY <3>2 DEF Blank
    <3>4. /\ command'.tag \in PlantTags /\ command'.value \in Int /\ InRange(command'.value)
          /\ command'.raw = RawOf(command'.value) /\ command'.by # "auto"
      BY <3>1, <3>2 DEF Sending
    <3>5. DOMAIN asked' = PlantTags /\ \A q \in PlantTags : asked'[q] \subseteq Int
      BY <3>1, <3>2
    <3> QED BY <3>3, <3>4, <3>5 DEF InRange, RawOf, Scale
  <2>4. ASSUME NEW t \in PlantTags, NEW value \in Requests, WriteOutput(t, value)
        PROVE  SetPointInv'
    BY <2>4 DEF WriteOutput, Buffer!Write, Blank, InRange, RawOf, Scale, NotSent
  <2>5. ASSUME NEW t \in PlantTags, ToggleAutoMode(t)
        PROVE  SetPointInv'
    BY <2>5 DEF ToggleAutoMode, SetAutoMode, ReadSetPoint, Sending, InRange, RawOf, Scale, NotSent
  <2>6. CASE UNCHANGED pipelineVars
    BY <2>6 DEF pipelineVars, InRange, RawOf, Scale, NotSent
  <2> QED BY <2>1, <2>2, <2>3, <2>4, <2>5, <2>6 DEF PipelineNext, Operate
<1> QED BY <1>1, <1>2, PTL DEF PipelineSpec

(* Switching to automatic sends nothing but a set point of the tag or the   *)
(* default (DataPipeline.cpp:111-150).                                      *)
THEOREM AutoSendsSetPoints == PipelineSpec => []AutoSendsOwnSetPoint
BY SetPointInvariant, PTL DEF SetPointInv

(* What was command reads back as what was asked for, up to rounding           *)
(* (DataPipeline.cpp:98, DataParseThread.cpp:133-137).                      *)
THEOREM SetPointsReadBack == PipelineSpec => []SentReadsBack
<1>1. SetPointInv => SentReadsBack
  BY RoundTrip DEF SetPointInv, SentReadsBack
<1> QED BY <1>1, SetPointInvariant, PTL
=============================================================================
