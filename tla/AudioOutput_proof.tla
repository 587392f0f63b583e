-------------------------- MODULE AudioOutput_proof --------------------------
(***************************************************************************)
(* Proofs about Resampler, for all rates, phases, filters and frames, and  *)
(* about AudioOutput, for all sizes of the driver's buffer.                *)
(***************************************************************************)
EXTENDS AudioOutput, TLAPS

-----------------------------------------------------------------------------
(* Arithmetic.                                                             *)

LEMMA DivMod ==
  ASSUME NEW a \in Int, NEW b \in Nat \ {0}
  PROVE  /\ a \div b \in Int /\ a % b \in 0 .. b - 1
         /\ a = b * (a \div b) + (a % b)
OBVIOUS

LEMMA DivBelow ==
  ASSUME NEW a \in Int, NEW b \in Nat \ {0}, NEW k \in Int, a < k * b
  PROVE  a \div b < k
OBVIOUS

LEMMA DivFrom ==
  ASSUME NEW a \in Int, NEW b \in Nat \ {0}, NEW k \in Int, a >= k * b
  PROVE  a \div b >= k
OBVIOUS

LEMMA DivBack ==
  ASSUME NEW a \in Int, NEW b \in Nat \ {0}, NEW k \in Int, ~(a \div b >= k)
  PROVE  a < k * b
OBVIOUS

(* A filter of t taps at position r, of which p make a sample, fits into n *)
(* samples.                                                                *)
LEMMA Fitting ==
  ASSUME NEW r \in Nat, NEW p \in Nat \ {0}, NEW t \in Nat, NEW n \in Nat,
         r \div p + t <= n
  PROVE  r < (n - t + 1) * p
<1>1. r \div p \in Int /\ n - t + 1 \in Int
  OBVIOUS
<1>2. ~(r \div p >= n - t + 1)
  BY <1>1
<1> QED
  BY <1>1, <1>2, DivBack

LEMMA RoundDown ==
  ASSUME NEW a \in Nat, NEW b \in Nat \ {0}
  PROVE  a \div b \in Nat /\ (a \div b + 1) * b > a
<1>1. /\ a \div b \in Int /\ a % b \in 0 .. b - 1
      /\ a = b * (a \div b) + (a % b)
  BY DivMod
<1>2. a \div b >= 0
  BY DivFrom, a >= 0 * b
<1> DEFINE q == a \div b
<1>3. q \in Int /\ a < b * q + b
  BY <1>1
<1> HIDE DEF q
<1>4. (q + 1) * b = b * q + b
  BY <1>3
<1> QED
  BY <1>2, <1>3, <1>4 DEF q

LEMMA Difference ==
  ASSUME NEW a \in Nat, NEW b \in Nat, a >= b
  PROVE  a - b + 1 \in Int /\ 1 <= a - b + 1
OBVIOUS

LEMMA Cancel ==
  ASSUME NEW a \in Int, NEW b \in Int, NEW d \in Nat \ {0}, a * d < b * d
  PROVE  a < b
OBVIOUS

LEMMA Scale ==
  ASSUME NEW a \in Int, NEW b \in Int, NEW d \in Nat, a <= b
  PROVE  a * d <= b * d
OBVIOUS

LEMMA ScaleLess ==
  ASSUME NEW a \in Int, NEW b \in Int, NEW d \in Nat \ {0}, a < b
  PROVE  a * d < b * d
OBVIOUS

LEMMA Distribute ==
  ASSUME NEW a \in Int, NEW b \in Int, NEW c \in Int
  PROVE  (a + b) * c = a * c + b * c /\ (a - b) * c = a * c - b * c
OBVIOUS

(* The constants of the loop of av_resample.                               *)
LEMMA Steps ==
  /\ DstIncr \in Nat \ {0}
  /\ Incr \in Nat /\ Incr < Phases
  /\ IncrFrac \in 0 .. OutRate - 1
  /\ DstIncr = Incr * OutRate + IncrFrac
<1>1. DstIncr \in Nat \ {0} /\ DstIncr < Phases * OutRate
  <2>1. InRate * Phases < OutRate * Phases /\ 0 * Phases < InRate * Phases
    BY ScaleLess, ResamplerAssumption
  <2> QED
    BY <2>1, ResamplerAssumption DEF DstIncr
<1>2. Incr \in Int /\ IncrFrac \in 0 .. OutRate - 1
      /\ DstIncr = OutRate * Incr + IncrFrac
  BY <1>1, DivMod, ResamplerAssumption DEF Incr, IncrFrac
<1>3. Incr < Phases
  BY <1>1, DivBelow, ResamplerAssumption DEF Incr
<1>4. Incr >= 0
  BY <1>1, DivFrom, ResamplerAssumption, DstIncr >= 0 * OutRate DEF Incr
<1> QED
  BY <1>1, <1>2, <1>3, <1>4, ResamplerAssumption

LEMMA First ==
  /\ FirstIndex \in Int /\ FirstIndex <= 0
  /\ FirstIndex >= -((Taps - 1) * Phases)
<1> DEFINE c == (Taps - 1) \div 2
<1>1. c \in Nat /\ c <= Taps - 1
  BY ResamplerAssumption
<1>2. c * Phases <= (Taps - 1) * Phases /\ 0 * Phases <= c * Phases
  BY <1>1, Scale, ResamplerAssumption
<1>3. FirstIndex = -(c * Phases)
  BY <1>1, ResamplerAssumption DEF FirstIndex
<1> QED
  BY <1>1, <1>2, <1>3, ResamplerAssumption

-----------------------------------------------------------------------------
(* The inductive invariant of the resampler.  Within a pass the position   *)
(* has moved on by the samples the pass has made, and the room is more     *)
(* than the filter can make before it reaches the last sample: up to that  *)
(* point, End, it is the way from index in the step DstIncr.               *)
End == (nb_samples - Taps + 1) * Phases

Place == (taken * Phases + index) * OutRate + frac
           = FirstIndex * OutRate + made * DstIncr

Outside == /\ fed = taken + temp_len
           /\ index < 0 => temp_len = 0

Moved == (r_index - index) * OutRate + (r_frac - frac) = dst_index * DstIncr
Roomy == (lenout - Slack + 2) * DstIncr > (End - index) * OutRate

Inside == /\ fed = taken + nb_samples
          /\ nb_samples >= Taps
          /\ channel \in 1 .. filter_channels
          /\ dst_index < lenout
          /\ r_index < End + Phases
          /\ Moved
          /\ Roomy

RInv == /\ ResamplerOK
        /\ Place
        /\ index >= FirstIndex
        /\ rpc # "pass" => Outside
        /\ rpc = "pass" => Inside

LEMMA ResampleInitial == ResampleInit => RInv
<1> SUFFICES ASSUME ResampleInit PROVE RInv
  OBVIOUS
<1>1. ResamplerOK
  BY First, ResamplerAssumption DEF ResampleInit, ResamplerOK
<1>2. Place
  BY First, Steps, ResamplerAssumption DEF ResampleInit, Place
<1> QED
  BY <1>1, <1>2, First DEF ResampleInit, RInv, Outside

LEMMA StartKeeps ==
  ASSUME RInv, NEW n \in FrameSizes, ResampleStart(n)
  PROVE  RInv'
<1>1. n \in Nat /\ n >= Taps
  BY ResamplerAssumption
<1>2. /\ rpc = "idle" /\ rpc' = "pass" /\ nb_samples' = temp_len + n
      /\ channel' = 1 /\ r_index' = index /\ r_frac' = frac /\ dst_index' = 0
      /\ fed' = fed + n /\ taken' = taken /\ made' = made
      /\ made_by' = made_by /\ filter_channels' = filter_channels
      /\ temp_len' = temp_len /\ index' = index /\ frac' = frac
  BY DEF ResampleStart, context
<1>3. PICK d \in {-1, 0, 1} : lenout' = (n * OutRate) \div InRate + Slack + d
  BY DEF ResampleStart, Room
<1> DEFINE q == (n * OutRate) \div InRate
<1>4. q \in Nat /\ (q + 1) * InRate > n * OutRate /\ q >= n
  <2>1. n * OutRate \in Nat /\ n * OutRate >= n * InRate
    BY <1>1, Scale, ResamplerAssumption
  <2>2. q \in Nat /\ (q + 1) * InRate > n * OutRate
    BY <2>1, RoundDown, ResamplerAssumption
  <2>3. q >= n
    BY <2>1, <1>1, DivFrom, ResamplerAssumption
  <2> QED
    BY <2>2, <2>3
<1> HIDE DEF q
<1>a. lenout' = q + Slack + d
  BY <1>3 DEF q
<1>5. ResamplerOK'
  <2>1. lenout' \in Nat
    BY <1>a, <1>4, ResamplerAssumption
  <2> QED
    BY <2>1, <1>1, <1>2 DEF RInv, ResamplerOK
<1>6. Place'
  BY <1>2 DEF RInv, Place
<1>7. Roomy'
  <2>1. End' = (temp_len + n - Taps + 1) * Phases
    <3>1. nb_samples' - Taps + 1 = temp_len + n - Taps + 1
      BY <1>1, <1>2, ResamplerAssumption DEF RInv, ResamplerOK
    <3> QED
      BY <3>1 DEF End
  <2>2. /\ temp_len \in Nat /\ temp_len < Taps /\ index \in Int
        /\ index < 0 => temp_len = 0
        /\ index >= FirstIndex
    BY <1>2 DEF RInv, ResamplerOK, Outside
  <2>3. End' - index <= n * Phases
    <3>1. CASE index >= 0
      <4>1. (temp_len + n - Taps + 1) * Phases <= n * Phases
        BY <2>2, <1>1, Scale, ResamplerAssumption
      <4>2. End' \in Int /\ End' <= n * Phases /\ n * Phases \in Int
        BY <4>1, <2>1, <2>2, <1>1, ResamplerAssumption
      <4> QED
        BY <4>2, <3>1, <2>2
    <3>2. CASE index < 0
      <4>1. End' = (n - (Taps - 1)) * Phases
        BY <3>2, <2>1, <2>2, <1>1, ResamplerAssumption
      <4>2. End' = n * Phases - (Taps - 1) * Phases
        BY <4>1, <1>1, Distribute, ResamplerAssumption
      <4> QED
        BY <4>2, <2>2, First, <1>1, ResamplerAssumption
    <3> QED
      BY <3>1, <3>2, <2>2
  <2>4. End' \in Int
    BY <2>1, <2>2, <1>1, ResamplerAssumption
  <2>5. (End' - index) * OutRate <= (n * Phases) * OutRate
    <3>1. End' - index \in Int /\ n * Phases \in Int /\ OutRate \in Nat
      BY <2>4, <2>2, <1>1, ResamplerAssumption
    <3> QED
      BY <3>1, <2>3, Scale
  <2>6. (n * OutRate) * Phases < ((q + 1) * InRate) * Phases
    BY <1>4, <1>1, ScaleLess, ResamplerAssumption
  <2>7. (n * OutRate) * Phases = (n * Phases) * OutRate
    BY <1>1, ResamplerAssumption
  <2>8. ((q + 1) * InRate) * Phases = (q + 1) * DstIncr
    BY <1>4, ResamplerAssumption DEF DstIncr
  <2>9. (q + 1) * DstIncr <= (lenout' - Slack + 2) * DstIncr
    <3>1. lenout' - Slack + 2 \in Int /\ q + 1 <= lenout' - Slack + 2
      BY <1>a, <1>4, ResamplerAssumption
    <3> QED
      BY <3>1, <1>4, Steps, Scale
  <2>10. /\ (End' - index) * OutRate \in Int /\ (n * Phases) * OutRate \in Int
         /\ (q + 1) * DstIncr \in Int /\ (lenout' - Slack + 2) * DstIncr \in Int
    BY <2>4, <2>2, <1>1, <1>a, <1>4, Steps, ResamplerAssumption
  <2>11. (lenout' - Slack + 2) * DstIncr > (End' - index) * OutRate
    BY <2>5, <2>6, <2>7, <2>8, <2>9, <2>10
  <2> QED
    BY <2>11, <1>2 DEF Roomy
<1>8. Inside'
  <2>1. 0 < lenout'
    BY <1>1, <1>a, <1>4, ResamplerAssumption
  <2>2. Moved'
    BY <1>2, Steps, ResamplerAssumption DEF RInv, ResamplerOK, Moved
  <2>3. nb_samples' \in Nat /\ nb_samples' >= Taps
    BY <1>1, <1>2, ResamplerAssumption DEF RInv, ResamplerOK
  <2>4. r_index' < End' + Phases
    <3>1. 1 * Phases <= (nb_samples' - Taps + 1) * Phases
      <4>1. nb_samples' - Taps + 1 \in Int /\ 1 <= nb_samples' - Taps + 1
        BY <2>3, Difference, ResamplerAssumption
      <4> QED
        BY <4>1, Scale, ResamplerAssumption
    <3> QED
      BY <3>1, <2>3, <1>2, ResamplerAssumption DEF RInv, ResamplerOK, End
  <2>5. fed' = taken' + nb_samples'
    BY <1>1, <1>2 DEF RInv, ResamplerOK, Outside
  <2>6. channel' \in 1 .. filter_channels'
    BY <1>2 DEF RInv, ResamplerOK
  <2> QED
    BY <2>1, <2>2, <2>3, <2>4, <2>5, <2>6, <1>7, <1>2 DEF Inside
<1> QED
  BY <1>2, <1>5, <1>6, <1>8 DEF RInv

(* The types that a pass works with.                                       *)
LEMMA PassTypes ==
  ASSUME RInv, rpc = "pass"
  PROVE  /\ r_index \in Int /\ r_frac \in 0 .. OutRate - 1
         /\ index \in Int /\ frac \in 0 .. OutRate - 1
         /\ index >= FirstIndex /\ index < Phases
         /\ nb_samples \in Nat /\ lenout \in Nat /\ dst_index \in Nat
         /\ nb_samples >= Taps
         /\ End \in Int /\ End >= Phases
<1>1. nb_samples \in Nat /\ nb_samples >= Taps
  BY DEF RInv, ResamplerOK, Inside
<1>2. nb_samples - Taps + 1 \in Int /\ 1 <= nb_samples - Taps + 1
  BY <1>1, Difference, ResamplerAssumption
<1>3. 1 * Phases <= (nb_samples - Taps + 1) * Phases
  BY <1>2, Scale, ResamplerAssumption
<1>4. End \in Int /\ End >= Phases
  BY <1>2, <1>3, ResamplerAssumption DEF End
<1> QED
  BY <1>1, <1>4 DEF RInv, ResamplerOK

(* One turn of the loop moves the position by one step, exactly.           *)
LEMMA OneStep ==
  ASSUME NEW r \in Int, NEW f \in 0 .. OutRate - 1,
         r_index = r, r_frac = f
  PROVE  /\ NextIndex \in Int /\ NextIndex <= r + Phases
         /\ NextFrac \in 0 .. OutRate - 1
         /\ NextIndex * OutRate + NextFrac = r * OutRate + f + DstIncr
<1>1. (r + Incr) * OutRate = r * OutRate + Incr * OutRate
  BY Distribute, Steps, ResamplerAssumption
<1>2. (r + Incr + 1) * OutRate = (r + Incr) * OutRate + OutRate
  BY Distribute, Steps, ResamplerAssumption
<1>3. CASE f + IncrFrac >= OutRate
  <2>1. NextIndex = r + Incr + 1 /\ NextFrac = f + IncrFrac - OutRate
    BY <1>3, Steps DEF NextIndex, NextFrac
  <2> QED
    BY <1>1, <1>2, <1>3, <2>1, Steps, ResamplerAssumption
<1>4. CASE ~(f + IncrFrac >= OutRate)
  <2>1. NextIndex = r + Incr /\ NextFrac = f + IncrFrac
    BY <1>4, Steps DEF NextIndex, NextFrac
  <2> QED
    BY <1>1, <1>4, <2>1, Steps, ResamplerAssumption
<1> QED
  BY <1>3, <1>4

(* While the filter fits, there is room for the sample and for one more.   *)
LEMMA RoomForOneMore ==
  ASSUME RInv, rpc = "pass", MayMake
  PROVE  r_index < End /\ dst_index + 1 < lenout
<1>1. r_index < End
  <2>1. CASE r_index < 0
    BY <2>1, PassTypes, ResamplerAssumption
  <2>2. CASE r_index >= 0
    <3>1. r_index \div Phases + Taps <= nb_samples
      BY <2>2, PassTypes DEF MayMake, FilterFits
    <3>2. r_index < (nb_samples - Taps + 1) * Phases
      BY <3>1, <2>2, Fitting, PassTypes, ResamplerAssumption
    <3> QED
      BY <3>2, PassTypes DEF End
  <2> QED
    BY <2>1, <2>2, PassTypes
<1> DEFINE room == lenout - Slack + 2
           w == End - index
<1>2. room \in Int /\ w \in Int
  BY PassTypes, ResamplerAssumption
<1>3. dst_index * DstIncr < room * DstIncr
  <2>1. (r_index - index) * OutRate + (r_frac - frac) = dst_index * DstIncr
    BY DEF RInv, Inside, Moved
  <2>2. room * DstIncr > w * OutRate
    BY DEF RInv, Inside, Roomy
  <2>3. (r_index - index) * OutRate <= (w - 1) * OutRate
    BY <1>1, <1>2, PassTypes, Scale, ResamplerAssumption
  <2>4. (w - 1) * OutRate = w * OutRate - OutRate
    BY <1>2, Distribute, ResamplerAssumption
  <2>5. /\ (r_index - index) * OutRate \in Int /\ w * OutRate \in Int
        /\ room * DstIncr \in Int /\ dst_index * DstIncr \in Int
    BY <1>2, PassTypes, Steps, ResamplerAssumption
  <2>6. r_frac - frac < OutRate /\ r_frac - frac \in Int
    BY PassTypes, ResamplerAssumption
  <2> HIDE DEF room, w
  <2> QED
    BY <2>1, <2>2, <2>3, <2>4, <2>5, <2>6, ResamplerAssumption
<1>4. dst_index < room
  BY <1>2, <1>3, Cancel, PassTypes, Steps
<1> QED
  BY <1>1, <1>4, PassTypes, ResamplerAssumption

LEMMA MakeKeeps ==
  ASSUME RInv, MakeSample
  PROVE  RInv'
<1>1. /\ rpc = "pass" /\ rpc' = "pass" /\ MayMake
      /\ dst_index' = dst_index + 1
      /\ r_index' = NextIndex /\ r_frac' = NextFrac
      /\ nb_samples' = nb_samples /\ lenout' = lenout /\ channel' = channel
      /\ filter_channels' = filter_channels /\ temp_len' = temp_len
      /\ index' = index /\ frac' = frac /\ made_by' = made_by
      /\ fed' = fed /\ taken' = taken /\ made' = made
  BY DEF MakeSample, context, totals
<1>2. End' = End
  BY <1>1 DEF End
<1>3. /\ NextIndex \in Int /\ NextIndex <= r_index + Phases
      /\ NextFrac \in 0 .. OutRate - 1
      /\ NextIndex * OutRate + NextFrac = r_index * OutRate + r_frac + DstIncr
  BY <1>1, PassTypes, OneStep
<1>4. r_index < End /\ dst_index + 1 < lenout
  BY <1>1, RoomForOneMore
<1>5. ResamplerOK'
  BY <1>1, <1>3, PassTypes DEF RInv, ResamplerOK
<1>6. Place'
  BY <1>1 DEF RInv, Place
<1>7. (NextIndex - index) * OutRate + (NextFrac - frac)
        = (dst_index + 1) * DstIncr
  <2>1. (NextIndex - index) * OutRate = NextIndex * OutRate - index * OutRate
    BY <1>1, <1>3, PassTypes, Distribute, ResamplerAssumption
  <2>2. (r_index - index) * OutRate = r_index * OutRate - index * OutRate
    BY <1>1, PassTypes, Distribute, ResamplerAssumption
  <2>3. (dst_index + 1) * DstIncr = dst_index * DstIncr + DstIncr
    BY <1>1, PassTypes, Distribute, Steps
  <2>4. (r_index - index) * OutRate + (r_frac - frac) = dst_index * DstIncr
    BY <1>1 DEF RInv, Inside, Moved
  <2>5. /\ NextIndex * OutRate \in Int /\ index * OutRate \in Int
        /\ r_index * OutRate \in Int /\ dst_index * DstIncr \in Int
        /\ DstIncr \in Int /\ r_frac \in Int /\ frac \in Int
        /\ NextFrac \in Int
    BY <1>1, <1>3, PassTypes, Steps, ResamplerAssumption
  <2> QED
    BY <1>3, <2>1, <2>2, <2>3, <2>4, <2>5
<1>8. Moved'
  BY <1>1, <1>7 DEF Moved
<1>9. Roomy'
  BY <1>1, <1>2 DEF RInv, Inside, Roomy
<1>10. r_index' < End' + Phases
  BY <1>1, <1>2, <1>3, <1>4, PassTypes, ResamplerAssumption
<1>11. Inside'
  BY <1>1, <1>4, <1>8, <1>9, <1>10 DEF RInv, Inside
<1> QED
  BY <1>1, <1>5, <1>6, <1>11 DEF RInv

(* A pass ends because the filter has reached the last sample: what is     *)
(* left is less than a filter.                                             *)
LEMMA LeftOver ==
  ASSUME NEW r \in Nat, NEW p \in Nat \ {0}, NEW t \in Nat \ {0}, NEW n \in Nat,
         n >= t, ~(r \div p + t <= n), r < (n - t + 1) * p + p
  PROVE  /\ r \div p \in Nat
         /\ n - r \div p \in Nat /\ n - r \div p < t
         /\ r = (r \div p) * p + (r % p)
<1>1. /\ r \div p \in Int /\ r % p \in 0 .. p - 1
      /\ r = p * (r \div p) + (r % p)
  BY DivMod
<1>2. r \div p >= 0
  BY DivFrom, r >= 0 * p
<1>3. r < (n - t + 2) * p
  <2>1. (n - t + 2) * p = (n - t + 1) * p + p
    BY Distribute, n - t + 1 \in Int, n - t + 2 = (n - t + 1) + 1
  <2> QED
    BY <2>1
<1>4. r \div p < n - t + 2
  BY <1>3, DivBelow, n - t + 2 \in Int
<1> DEFINE z == r \div p
<1> HIDE DEF z
<1>5. z \in Nat /\ z < n - t + 2 /\ ~(z + t <= n) /\ r = p * z + (r % p)
  BY <1>1, <1>2, <1>4 DEF z
<1>6. n - z \in Nat /\ n - z < t
  BY <1>5
<1>7. p * z = z * p
  BY <1>5
<1> QED
  BY <1>5, <1>6, <1>7 DEF z

LEMMA Rest ==
  ASSUME RInv, rpc = "pass", ~MayMake
  PROVE  /\ r_index >= 0
         /\ Consumed \in Nat
         /\ nb_samples - Consumed \in Nat /\ nb_samples - Consumed < Taps
         /\ r_index = Consumed * Phases + (r_index % Phases)
         /\ r_index % Phases \in 0 .. Phases - 1
<1>1. dst_index < lenout /\ r_index < End + Phases
  BY DEF RInv, Inside
<1>2. r_index >= 0 /\ ~(r_index \div Phases + Taps <= nb_samples)
  BY <1>1, PassTypes DEF MayMake, FilterFits
<1>3. Consumed = r_index \div Phases
  BY <1>2 DEF Consumed
<1>4. r_index % Phases \in 0 .. Phases - 1
  BY <1>2, PassTypes, DivMod, ResamplerAssumption
<1>5. r_index < (nb_samples - Taps + 1) * Phases + Phases
  BY <1>1 DEF End
<1>6. r_index \in Nat
  BY <1>2, PassTypes
<1> QED
  BY <1>2, <1>3, <1>4, <1>5, <1>6, LeftOver, PassTypes, ResamplerAssumption

LEMMA NextChannelKeeps ==
  ASSUME RInv, NextChannel
  PROVE  RInv'
<1>1. /\ rpc = "pass" /\ rpc' = "pass" /\ ~MayMake
      /\ channel # filter_channels /\ channel' = channel + 1
      /\ temp_len' = nb_samples - Consumed
      /\ made_by' = [made_by EXCEPT ![channel] = dst_index]
      /\ index' = index /\ frac' = frac
      /\ r_index' = index' /\ r_frac' = frac' /\ dst_index' = 0
      /\ filter_channels' = filter_channels
      /\ nb_samples' = nb_samples /\ lenout' = lenout
      /\ fed' = fed /\ taken' = taken /\ made' = made
  BY DEF NextChannel, KeepRest, IsLast, totals
<1>2. nb_samples - Consumed \in Nat /\ nb_samples - Consumed < Taps
  BY <1>1, Rest
<1>3. channel \in 1 .. filter_channels /\ filter_channels \in {1, 2}
  BY <1>1 DEF RInv, Inside, ResamplerOK
<1>4. channel' \in 1 .. filter_channels
  BY <1>1, <1>3
<1>5. ResamplerOK'
  <2>1. made_by' \in [1 .. 2 -> Nat]
    BY <1>1, <1>3, PassTypes DEF RInv, ResamplerOK
  <2> QED
    BY <1>1, <1>2, <1>4, <2>1 DEF RInv, ResamplerOK
<1>6. Place'
  BY <1>1 DEF RInv, Place
<1>7. End' = End
  BY <1>1 DEF End
<1>8. Moved'
  <2>1. (index - index) * OutRate + (frac - frac) = 0 * DstIncr
    BY <1>1, PassTypes, Steps, ResamplerAssumption
  <2> QED
    BY <1>1, <2>1 DEF Moved
<1>9. Roomy'
  BY <1>1, <1>7 DEF RInv, Inside, Roomy
<1>10. 0 < lenout
  BY <1>1, PassTypes DEF RInv, Inside
<1>11. index < End + Phases
  BY <1>1, PassTypes, ResamplerAssumption
<1>12. Inside'
  BY <1>1, <1>4, <1>7, <1>8, <1>9, <1>10, <1>11 DEF RInv, Inside
<1> QED
  BY <1>1, <1>5, <1>6, <1>12 DEF RInv

LEMMA LastChannelKeeps ==
  ASSUME RInv, LastChannel
  PROVE  RInv'
<1>1. /\ rpc = "pass" /\ rpc' = "done" /\ ~MayMake
      /\ temp_len' = nb_samples - Consumed
      /\ made_by' = [made_by EXCEPT ![channel] = dst_index]
      /\ frac' = r_frac
      /\ taken' = taken + Consumed /\ made' = made + dst_index
      /\ filter_channels' = filter_channels /\ channel' = channel
      /\ nb_samples' = nb_samples /\ lenout' = lenout
      /\ r_index' = r_index /\ r_frac' = r_frac /\ dst_index' = dst_index
      /\ fed' = fed
  BY DEF LastChannel, KeepRest, MoveContext
<1>2. /\ r_index >= 0 /\ Consumed \in Nat
      /\ nb_samples - Consumed \in Nat /\ nb_samples - Consumed < Taps
      /\ r_index = Consumed * Phases + (r_index % Phases)
      /\ r_index % Phases \in 0 .. Phases - 1
  BY <1>1, Rest
<1>3. index' = r_index % Phases
  BY <1>2 DEF LastChannel, MoveContext
<1> DEFINE m == r_index % Phases
<1>4. m \in 0 .. Phases - 1 /\ index' = m /\ r_index = Consumed * Phases + m
  BY <1>2, <1>3
<1> HIDE DEF m
<1>5. channel \in 1 .. filter_channels /\ filter_channels \in {1, 2}
  BY <1>1 DEF RInv, Inside, ResamplerOK
<1>6. /\ fed \in Nat /\ taken \in Nat /\ made \in Nat
      /\ made_by \in [1 .. 2 -> Nat]
  BY DEF RInv, ResamplerOK
<1>7. ResamplerOK'
  <2>1. made_by' \in [1 .. 2 -> Nat]
    BY <1>1, <1>5, <1>6, PassTypes
  <2>2. taken' \in Nat /\ made' \in Nat
    BY <1>1, <1>2, <1>6, PassTypes
  <2>3. index' \in Int /\ index' < Phases
    BY <1>4, ResamplerAssumption
  <2>4. frac' \in 0 .. OutRate - 1 /\ r_index' \in Int
        /\ r_frac' \in 0 .. OutRate - 1 /\ dst_index' \in Nat
        /\ nb_samples' \in Nat /\ lenout' \in Nat
    BY <1>1, PassTypes
  <2>5. channel' \in 0 .. filter_channels' /\ filter_channels' \in {1, 2}
    BY <1>1, <1>5
  <2> QED
    BY <1>1, <1>2, <1>6, <2>1, <2>2, <2>3, <2>4, <2>5 DEF ResamplerOK
<1>8. ((taken + Consumed) * Phases + m) * OutRate + r_frac
        = FirstIndex * OutRate + (made + dst_index) * DstIncr
  <2>1. (taken + Consumed) * Phases + m = taken * Phases + r_index
    <3>1. (taken + Consumed) * Phases = taken * Phases + Consumed * Phases
      BY <1>2, <1>6, Distribute, ResamplerAssumption
    <3>2. taken * Phases \in Int /\ Consumed * Phases \in Int
      BY <1>2, <1>6, ResamplerAssumption
    <3> QED
      BY <3>1, <3>2, <1>4
  <2> DEFINE t == taken * Phases
  <2>2. t \in Int
    BY <1>6, ResamplerAssumption
  <2>3. (t + index) * OutRate + frac = FirstIndex * OutRate + made * DstIncr
    BY DEF RInv, Place
  <2>4. (r_index - index) * OutRate + (r_frac - frac) = dst_index * DstIncr
    BY <1>1 DEF RInv, Inside, Moved
  <2> HIDE DEF t
  <2>5. /\ (t + r_index) * OutRate = t * OutRate + r_index * OutRate
        /\ (t + index) * OutRate = t * OutRate + index * OutRate
        /\ (r_index - index) * OutRate = r_index * OutRate - index * OutRate
        /\ (made + dst_index) * DstIncr = made * DstIncr + dst_index * DstIncr
    BY <1>1, <1>6, <2>2, PassTypes, Distribute, Steps, ResamplerAssumption
  <2>6. /\ t * OutRate \in Int /\ r_index * OutRate \in Int
        /\ index * OutRate \in Int /\ made * DstIncr \in Int
        /\ dst_index * DstIncr \in Int /\ FirstIndex * OutRate \in Int
        /\ r_frac \in Int /\ frac \in Int
    BY <1>1, <1>6, <2>2, PassTypes, Steps, First, ResamplerAssumption
  <2>7. (t + r_index) * OutRate + r_frac
          = FirstIndex * OutRate + (made + dst_index) * DstIncr
    BY <2>3, <2>4, <2>5, <2>6
  <2> QED
    BY <2>1, <2>7 DEF t
<1>9. Place'
  BY <1>1, <1>4, <1>8 DEF Place
<1>10. Outside'
  <2>1. fed = taken + nb_samples
    BY <1>1 DEF RInv, Inside
  <2>2. fed = (taken + Consumed) + (nb_samples - Consumed)
    BY <1>1, <1>2, <1>6, <2>1, PassTypes
  <2>3. ~(index' < 0)
    BY <1>4, ResamplerAssumption
  <2> QED
    BY <1>1, <2>2, <2>3 DEF Outside
<1>11. index' >= FirstIndex
  BY <1>4, First, ResamplerAssumption
<1> QED
  BY <1>1, <1>7, <1>9, <1>10, <1>11 DEF RInv

LEMMA ReturnKeeps == ASSUME RInv, ResampleReturn PROVE RInv'
BY DEF RInv, ResampleReturn, context, call, totals, ResamplerOK, Place, Outside

LEMMA ResampleStutter == ASSUME RInv, UNCHANGED rvars PROVE RInv'
BY DEF RInv, rvars, context, call, totals, ResamplerOK, Place, Outside, Inside,
       Moved, Roomy, End

-----------------------------------------------------------------------------
(* The resampler's inductive invariant.                                    *)
THEOREM ResamplerInvariance == ResampleSpec => []RInv
<1>1. RInv /\ [ResampleNext]_rvars => RInv'
  BY StartKeeps, MakeKeeps, NextChannelKeeps, LastChannelKeeps, ReturnKeeps,
     ResampleStutter DEF ResampleNext, ResampleStep
<1> QED
  BY ResampleInitial, <1>1, PTL DEF ResampleSpec

(* Its types: what is left of a frame is always less than a filter.        *)
THEOREM ResamplerCorrect == ResampleSpec => []ResamplerOK
<1>1. RInv => ResamplerOK
  BY DEF RInv
<1> QED
  BY <1>1, ResamplerInvariance, PTL

(* After any number of frames of any sizes the samples made stand exactly  *)
(* where the ratio of the rates puts them: nothing accumulates.            *)
THEOREM Drift == ResampleSpec => []NoDrift
<1>1. RInv => NoDrift
  BY DEF RInv, NoDrift, Place, Outside
<1> QED
  BY <1>1, ResamplerInvariance, PTL

(* The output buffer of audio_resample is never filled up, for any frames  *)
(* of at least one filter and however the float product was rounded.       *)
THEOREM RoomEnough == ResampleSpec => []RoomSuffices
<1>1. RInv => RoomSuffices
  BY DEF RInv, RoomSuffices, Inside
<1> QED
  BY <1>1, ResamplerInvariance, PTL

-----------------------------------------------------------------------------
(* The two channels.  A pass stops at the first position from which the    *)
(* filter would reach behind the last sample, and both start from the same *)
(* one: made_by[1] is the least number that the second can come to, too.   *)
Fits(k) == index * OutRate + frac + k * DstIncr < End * OutRate

InStep ==
  /\ rpc = "pass" =>
       /\ dst_index > 0 => Fits(dst_index - 1)
       /\ channel = 2 => /\ ~Fits(made_by[1])
                         /\ made_by[1] > 0 => Fits(made_by[1] - 1)
  /\ rpc = "done" /\ filter_channels = 2 => made_by[1] = made_by[2]

(* The sums of Fits are integers.                                          *)
LEMMA FitTypes ==
  ASSUME RInv, rpc = "pass", NEW k \in Int
  PROVE  /\ index * OutRate \in Int /\ r_index * OutRate \in Int
         /\ k * DstIncr \in Int /\ End * OutRate \in Int
         /\ frac \in Int /\ r_frac \in Int
BY PassTypes, Steps, ResamplerAssumption

(* Where the pass is, as a sum without products of differences.            *)
LEMMA PassPlace ==
  ASSUME RInv, rpc = "pass"
  PROVE  index * OutRate + frac + dst_index * DstIncr
           = r_index * OutRate + r_frac
<1>1. (r_index - index) * OutRate = r_index * OutRate - index * OutRate
  BY PassTypes, Distribute, ResamplerAssumption
<1>2. (r_index - index) * OutRate + (r_frac - frac) = dst_index * DstIncr
  BY DEF RInv, Inside, Moved
<1>3. dst_index \in Int
  BY PassTypes
<1> QED
  BY <1>1, <1>2, <1>3, FitTypes

(* The pass may make a sample exactly if the filter fits where it is.      *)
LEMMA MayMakeFits ==
  ASSUME RInv, rpc = "pass"
  PROVE  MayMake <=> Fits(dst_index)
<1> USE FitTypes, PassTypes
<1>1. ASSUME MayMake PROVE Fits(dst_index)
  <2>1. r_index <= End - 1 /\ End - 1 \in Int
    BY <1>1, RoomForOneMore
  <2>2. r_index * OutRate <= (End - 1) * OutRate
    BY <2>1, Scale, ResamplerAssumption
  <2>3. (End - 1) * OutRate = End * OutRate - OutRate
    BY Distribute, ResamplerAssumption
  <2>4. r_index * OutRate + r_frac < End * OutRate
    BY <2>2, <2>3, ResamplerAssumption
  <2> QED
    BY <2>4, PassPlace DEF Fits
<1>2. ASSUME ~MayMake PROVE ~Fits(dst_index)
  <2>1. r_index >= 0 /\ ~(r_index \div Phases + Taps <= nb_samples)
    BY <1>2 DEF RInv, Inside, MayMake, FilterFits
  <2>2. ~(r_index < End)
    <3> SUFFICES ASSUME r_index < (nb_samples - Taps + 1) * Phases PROVE FALSE
      BY DEF End
    <3>1. nb_samples - Taps + 1 \in Int
      BY ResamplerAssumption
    <3>2. r_index \div Phases < nb_samples - Taps + 1
      BY <3>1, DivBelow, ResamplerAssumption
    <3>3. r_index \div Phases \in Int
      BY DivMod, ResamplerAssumption
    <3> QED
      BY <2>1, <3>2, <3>3, ResamplerAssumption
  <2>3. End * OutRate <= r_index * OutRate
    BY <2>2, Scale, ResamplerAssumption
  <2>4. ~(r_index * OutRate + r_frac < End * OutRate)
    BY <2>3, ResamplerAssumption
  <2> QED
    BY <2>4, PassPlace DEF Fits
<1> QED
  BY <1>1, <1>2

(* What fits at a later position fits at an earlier one.                   *)
LEMMA FitsEarlier ==
  ASSUME RInv, rpc = "pass", NEW j \in Int, NEW k \in Int, j <= k, Fits(k)
  PROVE  Fits(j)
<1>1. j * DstIncr <= k * DstIncr
  BY Scale, Steps
<1>2. j * DstIncr \in Int /\ k * DstIncr \in Int
  BY FitTypes
<1>3. index * OutRate + frac \in Int /\ End * OutRate \in Int
  BY FitTypes
<1>4. index * OutRate + frac + k * DstIncr < End * OutRate
  BY DEF Fits
<1>5. index * OutRate + frac + j * DstIncr < End * OutRate
  BY <1>1, <1>2, <1>3, <1>4
<1> QED
  BY <1>5 DEF Fits

LEMMA InStepMake == ASSUME RInv, InStep, MakeSample PROVE InStep'
<1>1. /\ rpc = "pass" /\ rpc' = "pass" /\ MayMake
      /\ dst_index' = dst_index + 1 /\ dst_index \in Nat
      /\ nb_samples' = nb_samples /\ channel' = channel
      /\ index' = index /\ frac' = frac /\ made_by' = made_by
  BY PassTypes DEF MakeSample, context, totals
<1>2. End' = End /\ (dst_index + 1) - 1 = dst_index
  BY <1>1 DEF End
<1>3. Fits(dst_index)
  BY <1>1, MayMakeFits
<1>4. Fits(dst_index - 1)'
  BY <1>1, <1>2, <1>3 DEF Fits
<1>5. channel' = 2 => /\ ~Fits(made_by[1])'
                      /\ made_by'[1] > 0 => Fits(made_by[1] - 1)'
  BY <1>1, <1>2 DEF InStep, Fits
<1> QED
  BY <1>1, <1>4, <1>5 DEF InStep

LEMMA InStepNext == ASSUME RInv, InStep, NextChannel PROVE InStep'
<1>1. /\ rpc = "pass" /\ rpc' = "pass" /\ ~MayMake
      /\ channel # filter_channels /\ channel' = channel + 1
      /\ made_by' = [made_by EXCEPT ![channel] = dst_index]
      /\ index' = index /\ frac' = frac /\ dst_index' = 0
      /\ nb_samples' = nb_samples
  BY DEF NextChannel, KeepRest, IsLast, totals
<1>2. channel = 1 /\ made_by \in [1 .. 2 -> Nat]
  BY <1>1 DEF RInv, Inside, ResamplerOK
<1>3. made_by'[1] = dst_index /\ dst_index \in Nat
  BY <1>1, <1>2, PassTypes
<1>4. ~Fits(dst_index) /\ (dst_index > 0 => Fits(dst_index - 1))
  BY <1>1, MayMakeFits DEF InStep
<1>5. ~Fits(made_by[1])' /\ (made_by'[1] > 0 => Fits(made_by[1] - 1)')
  BY <1>1, <1>3, <1>4 DEF Fits, End
<1> QED
  BY <1>1, <1>5 DEF InStep

LEMMA InStepLast == ASSUME RInv, InStep, LastChannel PROVE InStep'
<1>1. /\ rpc = "pass" /\ rpc' = "done" /\ ~MayMake
      /\ channel = filter_channels /\ filter_channels' = filter_channels
      /\ made_by' = [made_by EXCEPT ![channel] = dst_index]
  BY DEF LastChannel, KeepRest
<1>2. ASSUME filter_channels = 2 PROVE made_by'[1] = made_by'[2]
  <2>1. made_by \in [1 .. 2 -> Nat] /\ dst_index \in Nat
    BY <1>1, PassTypes DEF RInv, ResamplerOK
  <2> DEFINE e == made_by[1]
  <2>2. e \in Nat /\ made_by'[1] = e /\ made_by'[2] = dst_index
    BY <1>1, <1>2, <2>1
  <2>3. /\ ~Fits(e) /\ ~Fits(dst_index)
        /\ e > 0 => Fits(e - 1)
        /\ dst_index > 0 => Fits(dst_index - 1)
    BY <1>1, <1>2, MayMakeFits DEF InStep
  <2> HIDE DEF e
  <2>4. ~(e < dst_index)
    BY <1>1, <2>1, <2>2, <2>3, FitsEarlier
  <2>5. ~(dst_index < e)
    BY <1>1, <2>1, <2>2, <2>3, FitsEarlier
  <2> QED
    BY <2>1, <2>2, <2>4, <2>5
<1> QED
  BY <1>1, <1>2 DEF InStep

LEMMA InStepOther ==
  ASSUME InStep, \/ \E n \in FrameSizes : ResampleStart(n)
                 \/ ResampleReturn
                 \/ UNCHANGED rvars
  PROVE  InStep'
<1>1. ASSUME NEW n \in FrameSizes, ResampleStart(n) PROVE InStep'
  BY <1>1 DEF ResampleStart, InStep
<1>2. CASE ResampleReturn
  BY <1>2 DEF ResampleReturn, InStep
<1>3. CASE UNCHANGED rvars
  BY <1>3 DEF InStep, rvars, context, call, totals, Fits, End
<1> QED
  BY <1>1, <1>2, <1>3

(* The resampler makes as many samples for one ear as for the other,       *)
(* although their passes run one after the other from one context.         *)
THEOREM InStepAlways == ResampleSpec => []ChannelsInStep
<1>1. ResampleInit => InStep
  BY DEF ResampleInit, InStep
<1>2. RInv /\ InStep /\ [ResampleNext]_rvars => InStep'
  BY InStepMake, InStepNext, InStepLast, InStepOther
  DEF ResampleNext, ResampleStep
<1>3. InStep => ChannelsInStep
  BY DEF InStep, ChannelsInStep
<1> QED
  BY <1>1, <1>2, <1>3, ResamplerInvariance, PTL DEF ResampleSpec

-----------------------------------------------------------------------------
(* The player uses the resampler as ResampleSpec says: every step of the   *)
(* sound's way is a step of the resampler or leaves it alone.              *)
LEMMA ResampleSteps == ASSUME Next PROVE [ResampleNext]_rvars
<1>1. CASE OpenAudio \/ PutPacket \/ TogglePause \/ AbortQueue \/ ReadClock
           \/ CallbackStart
  BY <1>1 DEF OpenAudio, PutPacket, TogglePause, AbortQueue, ReadClock,
     CallbackStart
<1>2. CASE EnterLoop \/ DecodeError \/ DecodeNothing
  BY <1>2 DEF EnterLoop, DecodeError, DecodeNothing
<1>3. ASSUME NEW n \in FrameSizes, DecodePlain(n) \/ DecodeToResample(n)
      PROVE  [ResampleNext]_rvars
  BY <1>3 DEF DecodePlain, DecodeToResample, ResampleNext
<1>4. CASE Resample \/ Resampled
  BY <1>4 DEF Resample, Resampled, ResampleNext
<1>5. CASE NeedPacket \/ GetPacket \/ OutputSilence
  BY <1>5 DEF NeedPacket, GetPacket, OutputSilence
<1>6. CASE SetSize \/ ResetIndex \/ Copy \/ CallbackReturn
  BY <1>6 DEF SetSize, ResetIndex, Copy, CallbackReturn
<1> QED
  BY <1>1, <1>2, <1>3, <1>4, <1>5, <1>6 DEF Next, Callback

THEOREM Implements == Spec => ResampleSpec
<1>1. Init => ResampleInit
  BY DEF Init
<1>2. [Next]_vars => [ResampleNext]_rvars
  BY ResampleSteps DEF vars
<1> QED
  BY <1>1, <1>2, PTL DEF Spec, ResampleSpec

-----------------------------------------------------------------------------
(* The inductive invariant of the callback: the driver's buffer holds what *)
(* is no longer needed, and the clock counts what was decoded.             *)
AType ==
  /\ audio_st \in {0, 1} /\ channels \in Channels /\ audio_resample \in {0, 1}
  /\ paused \in {0, 1} /\ abort \in {0, 1}
  /\ audioq \in Nat /\ packets \in Nat /\ pkt_frames \in Nat
  /\ audio_clock \in Nat /\ lost \in Nat
  /\ audio_buf_size \in Nat /\ audio_buf_index \in Nat
  /\ pc # "index" => audio_buf_index <= audio_buf_size
  /\ audio_size \in Nat /\ pts \in Int
  /\ sound \in {0, 1} /\ decoded \in Nat /\ played \in Nat
  /\ pc \in {"idle", "loop", "decode", "resample", "size", "index", "get",
            "copy", "crashed"}
  /\ len \in Nat /\ callbacks \in Nat
  /\ out \in Seq(Int)

Fill ==
  /\ len <= Needed
  /\ pc # "idle" => Len(out) = IF Doubled THEN 2 * (Needed - len)
                                          ELSE Needed - len
  /\ pc = "idle" /\ callbacks > 0 /\ channels <= 2 => Len(out) = 2 * Length
  /\ callbacks = 0 => pc = "idle" /\ out = <<>>

Kept ==
  /\ NothingLost
  /\ audio_st = 0 => sound = 0 /\ pc = "idle"
  /\ pc \in {"decode", "get", "resample", "size"} =>
       audio_buf_index = audio_buf_size
  /\ pc = "resample" => audio_resample = 1
  /\ audio_resample = 0 => /\ decoded + InHand <= audio_clock
                           /\ audio_clock <= decoded + InHand + lost

AInv == AType /\ Fill /\ Kept

LEMMA ChannelCounts == ASSUME AType PROVE channels \in Nat /\ channels > 0
BY AudioOutputAssumption DEF AType

LEMMA NeededNat == ASSUME AType PROVE Needed \in Nat
BY ChannelCounts, AudioOutputAssumption DEF AType, Needed

LEMMA WordsNat ==
  ASSUME AType, NEW n \in FrameSizes
  PROVE  Words(n) \in Nat
BY ChannelCounts, ResamplerAssumption DEF Words

LEMMA AudioInitial == Init => AInv
<1> SUFFICES ASSUME Init PROVE AInv
  OBVIOUS
<1>1. AType
  BY DEF Init, AType
<1>2. Fill
  BY <1>1, NeededNat DEF Init, Fill
<1>3. Kept
  BY DEF Init, Kept, NothingLost, Left, InHand
<1> QED
  BY <1>1, <1>2, <1>3 DEF AInv

LEMMA RequestsKeep ==
  ASSUME AInv, OpenAudio \/ PutPacket \/ TogglePause \/ AbortQueue \/ ReadClock
  PROVE  AInv'
<1>1. /\ channels' = channels /\ audio_resample' = audio_resample
      /\ len' = len /\ out' = out /\ pc' = pc /\ callbacks' = callbacks
      /\ played' = played /\ decoded' = decoded /\ sound' = sound
      /\ audio_clock' = audio_clock /\ lost' = lost
      /\ pkt_frames' = pkt_frames /\ audio_size' = audio_size
  BY DEF OpenAudio, PutPacket, TogglePause, AbortQueue, ReadClock, file,
         packet, buffer, contents, driver
<1>2. AType'
  <2>1. CASE OpenAudio
    BY <1>1, <2>1 DEF AInv, AType, OpenAudio, requests, packet
  <2>2. CASE PutPacket
    BY <1>1, <2>2 DEF AInv, AType, PutPacket, file, requests, buffer, contents
  <2>3. CASE TogglePause
    BY <1>1, <2>3 DEF AInv, AType, TogglePause, file, packet, buffer, contents
  <2>4. CASE AbortQueue
    BY <1>1, <2>4 DEF AInv, AType, AbortQueue, file, packet, buffer, contents
  <2>5. CASE ReadClock
    BY <1>1, <2>5 DEF AInv, AType, ReadClock, file, packet, buffer, contents
  <2> QED
    BY <2>1, <2>2, <2>3, <2>4, <2>5
<1>3. Fill'
  BY <1>1 DEF AInv, Fill, Needed, Doubled
<1>4. Kept'
  <2>1. CASE OpenAudio
    <3>1. /\ audio_st = 0 /\ audio_st' = 1
          /\ audio_buf_size' = 0 /\ audio_buf_index' = 0
      BY <2>1 DEF OpenAudio
    <3>2. sound = 0 /\ pc = "idle"
      BY <3>1 DEF AInv, Kept
    <3> QED
      BY <1>1, <3>1, <3>2 DEF AInv, Kept, NothingLost, Left, InHand
  <2>2. CASE PutPacket \/ TogglePause \/ AbortQueue \/ ReadClock
    <3>1. audio_buf_size' = audio_buf_size /\ audio_buf_index' = audio_buf_index
          /\ audio_st' = audio_st
      BY <2>2 DEF PutPacket, TogglePause, AbortQueue, ReadClock, file, buffer,
         contents
    <3>2. InHand' = InHand /\ Left' = Left
      BY <1>1, <3>1 DEF InHand, Left
    <3> QED
      BY <1>1, <3>1, <3>2 DEF AInv, Kept, NothingLost
  <2> QED
    BY <2>1, <2>2
<1> QED
  BY <1>2, <1>3, <1>4 DEF AInv

LEMMA StartFills == ASSUME AInv, CallbackStart PROVE AInv'
<1>1. /\ pc = "idle" /\ callbacks' = callbacks + 1
      /\ file' = file /\ requests' = requests /\ packet' = packet
      /\ buffer' = buffer /\ played' = played
  BY DEF CallbackStart
<1>2. CASE audio_st = 1
  <2>1. out' = <<>> /\ len' = Needed /\ pc' = "loop"
    BY <1>2 DEF CallbackStart
  <2>2. AType'
    BY <1>1, <2>1, NeededNat
    DEF AInv, AType, file, requests, packet, buffer, contents
  <2>3. Fill'
    <3>1. Needed' = Needed /\ Needed \in Nat /\ Doubled' = Doubled
      BY <1>1, NeededNat DEF AInv, Needed, Doubled, file
    <3>2. callbacks' > 0
      BY <1>1 DEF AInv, AType
    <3> QED
      BY <1>1, <2>1, <3>1, <3>2 DEF Fill
  <2>4. Kept'
    <3>1. audio_st' = 1 /\ pc' = "loop"
      BY <1>1, <1>2, <2>1 DEF file
    <3> QED
      BY <1>1, <3>1 DEF AInv, Kept, NothingLost, Left, InHand, file,
         packet, buffer, contents
  <2> QED
    BY <2>2, <2>3, <2>4 DEF AInv
<1>3. CASE audio_st # 1
  <2>1. /\ out' = [i \in 1 .. 2 * Length |-> Silence]
        /\ len' = len /\ pc' = pc
    BY <1>3 DEF CallbackStart
  <2>2. 2 * Length \in Nat /\ Silence \in Int
    BY AudioOutputAssumption DEF Silence
  <2>3. out' \in Seq(Int) /\ Len(out') = 2 * Length
    BY <2>1, <2>2
  <2>4. AType'
    BY <1>1, <2>1, <2>3
    DEF AInv, AType, file, requests, packet, buffer, contents
  <2>5. Fill'
    <3>1. Needed' = Needed /\ len <= Needed
      BY <1>1 DEF AInv, Fill, Needed, file
    <3>2. callbacks' # 0
      BY <1>1 DEF AInv, AType
    <3>3. len' = len /\ pc' = "idle" /\ Len(out') = 2 * Length
      BY <1>1, <2>1, <2>3
    <3> QED
      BY <3>1, <3>2, <3>3 DEF Fill
  <2> QED
    BY <1>1, <2>1, <2>4, <2>5
    DEF AInv, Kept, NothingLost, Left, InHand, file,
         packet, buffer, contents
<1> QED
  BY <1>2, <1>3

LEMMA Loosened ==
  ASSUME NEW d \in Nat, NEW c \in Nat, NEW l \in Nat, NEW m \in Nat,
         l <= m, c <= d + l
  PROVE  c <= d + m
OBVIOUS

(* The steps that leave audio_buf and the driver's buffer alone.           *)
LEMMA DecoderKeeps ==
  ASSUME RInv, AInv, EnterLoop \/ NeedPacket \/ GetPacket \/ DecodeError
               \/ DecodeNothing \/ Resample
  PROVE  AInv'
<1>1. /\ file' = file /\ requests' = requests /\ buffer' = buffer
      /\ driver' = driver /\ callbacks' = callbacks
  BY DEF EnterLoop, NeedPacket, GetPacket, DecodeError, DecodeNothing, Resample,
         avars
<1>2. /\ pc # "idle" /\ pc' # "idle"
      /\ pc \notin {"size", "index"}
      /\ pc' \in {"decode", "resample", "get", "copy"}
      /\ pc' \in {"decode", "get", "resample"}
           => audio_buf_index = audio_buf_size
  <2>1. CASE EnterLoop
    BY <2>1 DEF EnterLoop, AInv, AType, BufferUsed
  <2>2. CASE pc = "decode" /\ pc' \in {"decode", "get"}
    BY <2>2 DEF AInv, Kept
  <2>3. CASE pc = "get" /\ pc' = "decode"
    BY <2>3 DEF AInv, Kept
  <2>4. CASE pc = "resample" /\ pc' = "resample"
    BY <2>4 DEF AInv, Kept
  <2>5. CASE NeedPacket
    BY <2>2, <2>5 DEF NeedPacket
  <2>6. CASE GetPacket
    BY <2>3, <2>6 DEF GetPacket
  <2>7. CASE DecodeError \/ DecodeNothing
    BY <2>2, <2>7 DEF DecodeError, DecodeNothing
  <2>8. CASE Resample
    BY <2>4, <2>8 DEF Resample, avars
  <2> QED
    BY <2>1, <2>5, <2>6, <2>7, <2>8
<1>3. /\ audioq' \in Nat /\ packets' \in Nat /\ pkt_frames' \in Nat
      /\ lost' \in Nat /\ lost <= lost'
  <2>1. CASE EnterLoop \/ NeedPacket \/ Resample
    BY <2>1 DEF EnterLoop, NeedPacket, Resample, AInv, AType, avars, packet
  <2>2. CASE GetPacket
    BY <2>2, AudioOutputAssumption DEF GetPacket, AInv, AType
  <2>3. CASE DecodeError
    <3>1. PICK n \in FrameSizes : lost' = lost + pkt_frames * Words(n)
      BY <2>3 DEF DecodeError
    <3>2. pkt_frames * Words(n) \in Nat
      BY WordsNat DEF AInv, AType
    <3> QED
      BY <2>3, <3>1, <3>2 DEF DecodeError, AInv, AType
  <2>4. CASE DecodeNothing
    BY <2>4 DEF DecodeNothing, AInv, AType
  <2> QED
    BY <2>1, <2>2, <2>3, <2>4
<1>4. /\ audio_clock' \in Nat
      /\ audio_resample = 0 =>
           decoded <= audio_clock' /\ audio_clock' <= decoded + lost'
  <2>1. CASE GetPacket
    <3>1. audio_clock' \in {audio_clock, Position} /\ lost' = lost
      BY <2>1 DEF GetPacket
    <3>2. /\ audio_resample = 0 => Position = decoded + lost
          /\ audio_resample = 1 => Position = fed * channels + lost
      BY DEF Position
    <3>3. fed * channels \in Nat
      BY ChannelCounts DEF AInv, RInv, ResamplerOK
    <3>4. decoded \in Nat /\ lost \in Nat /\ audio_resample \in {0, 1}
          /\ audio_clock \in Nat
      BY DEF AInv, AType
    <3>5. audio_resample = 0 =>
            decoded <= audio_clock /\ audio_clock <= decoded + lost
      BY <1>2, <3>4 DEF AInv, Kept, InHand
    <3>6. Position \in Nat
      BY <3>2, <3>3, <3>4
    <3> QED
      BY <3>1, <3>2, <3>4, <3>5, <3>6
  <2>2. CASE EnterLoop \/ NeedPacket \/ Resample \/ DecodeError \/ DecodeNothing
    <3>1. audio_clock' = audio_clock
      BY <2>2 DEF EnterLoop, NeedPacket, Resample, DecodeError, DecodeNothing,
                  avars, packet
    <3>2. decoded \in Nat /\ lost \in Nat /\ audio_clock \in Nat
      BY DEF AInv, AType
    <3>3. audio_resample = 0 =>
            decoded <= audio_clock /\ audio_clock <= decoded + lost
      BY <1>2, <3>2 DEF AInv, Kept, InHand
    <3>4. lost' \in Nat /\ lost <= lost'
      BY <1>3
    <3>5. audio_resample = 0 => audio_clock <= decoded + lost'
      BY <3>2, <3>3, <3>4, Loosened
    <3> QED
      BY <3>1, <3>2, <3>3, <3>5
  <2> QED
    BY <2>1, <2>2
<1>5. AType'
  BY <1>1, <1>2, <1>3, <1>4
  DEF AInv, AType, file, requests, buffer, contents, driver
<1>6. Fill'
  <2>1. /\ Needed' = Needed /\ Doubled' = Doubled /\ len' = len /\ out' = out
        /\ pc # "idle" /\ pc' # "idle" /\ callbacks' = callbacks
    BY <1>1, <1>2 DEF Needed, Doubled, file, driver
  <2> QED
    BY <2>1 DEF AInv, Fill
<1>7. Kept'
  <2>1. NothingLost'
    BY <1>1, <1>2 DEF AInv, Kept, NothingLost, Left, buffer, contents, driver
  <2>2. pc' = "resample" => audio_resample = 1
    BY DEF EnterLoop, NeedPacket, GetPacket, DecodeError, DecodeNothing,
           Resample, avars, AInv, AType, Kept
  <2>3. audio_st # 0
    BY <1>2 DEF AInv, Kept
  <2>4. /\ audio_st' = audio_st /\ audio_resample' = audio_resample
        /\ decoded' = decoded /\ audio_buf_index' = audio_buf_index
        /\ audio_buf_size' = audio_buf_size
    BY <1>1 DEF file, buffer, contents
  <2>5. InHand' = 0
    BY <1>2 DEF InHand
  <2>6. decoded \in Nat /\ lost' \in Nat
    BY <1>3 DEF AInv, AType
  <2>7. audio_resample' = 0 =>
          /\ decoded' + InHand' <= audio_clock'
          /\ audio_clock' <= decoded' + InHand' + lost'
    <3>1. decoded' + InHand' = decoded
      BY <2>4, <2>5, <2>6
    <3> QED
      BY <1>4, <2>4, <3>1
  <2>8. pc' \in {"decode", "get", "resample", "size"} =>
          audio_buf_index' = audio_buf_size'
    BY <1>2, <2>4 DEF AInv, Kept
  <2> QED
    BY <2>1, <2>2, <2>3, <2>4, <2>7, <2>8 DEF Kept
<1> QED
  BY <1>5, <1>6, <1>7 DEF AInv

LEMMA ReturnFills == ASSUME AInv, CallbackReturn PROVE AInv'
<1>1. /\ pc = "loop" /\ pc' = "idle" /\ len <= 0
      /\ file' = file /\ requests' = requests /\ packet' = packet
      /\ buffer' = buffer /\ driver' = driver /\ callbacks' = callbacks
  BY DEF CallbackReturn
<1>2. AType'
  BY <1>1 DEF AInv, AType, file, requests, packet, buffer, contents, driver
<1>3. len = 0
  BY <1>1 DEF AInv, AType
<1>4. channels <= 2 => Len(out) = 2 * Length
  <2>1. Len(out) = IF Doubled THEN 2 * (Needed - 0) ELSE Needed - 0
    BY <1>1, <1>3 DEF AInv, Fill
  <2>2. Needed \in Nat /\ Length \in Nat
    BY NeededNat, AudioOutputAssumption DEF AInv
  <2>3. CASE audio_resample = 1
    BY <2>1, <2>2, <2>3 DEF Needed, Doubled
  <2>4. CASE audio_resample # 1 /\ channels = 1
    BY <2>1, <2>2, <2>4 DEF Needed, Doubled, AInv, AType
  <2>5. CASE audio_resample # 1 /\ channels = 2
    BY <2>1, <2>2, <2>5 DEF Needed, Doubled
  <2>6. channels <= 2 => channels \in {1, 2}
    BY ChannelCounts DEF AInv
  <2> QED
    BY <2>3, <2>4, <2>5, <2>6
<1>5. Fill'
  BY <1>1, <1>3, <1>4 DEF AInv, Fill, Needed, Doubled, file, driver
<1>6. Kept'
  BY <1>1 DEF AInv, Kept, NothingLost, Left, InHand, file, packet, buffer,
       contents, driver
<1> QED
  BY <1>2, <1>5, <1>6 DEF AInv

(* A frame is there: it goes to audio_buf, of which nothing is left.       *)
LEMMA HandKeeps ==
  ASSUME AInv, pc \in {"decode", "resample"}, NEW size \in Nat, Decoded(size),
         NEW gained \in Nat,
         file' = file, requests' = requests, driver' = driver,
         callbacks' = callbacks, audioq' = audioq, packets' = packets,
         lost' = lost, pkt_frames' \in Nat,
         audio_clock' = audio_clock + gained,
         audio_resample = 0 => gained = size
  PROVE  AInv'
<1>1. audio_size' = size /\ pc' = "size" /\ contents' = contents
  BY DEF Decoded
<1>2. AType'
  BY <1>1 DEF AInv, AType, contents, file, requests, driver
<1>3. Fill'
  BY <1>1 DEF AInv, Fill, Needed, Doubled, file, driver
<1>4. NothingLost'
  BY <1>1 DEF AInv, Kept, NothingLost, Left, contents, driver
<1>5. audio_resample' = 0 => /\ decoded' + InHand' <= audio_clock'
                             /\ audio_clock' <= decoded' + InHand' + lost'
  <2>1. InHand = 0 /\ InHand' = size /\ decoded' = decoded
    BY <1>1 DEF InHand, contents
  <2>2. decoded \in Nat /\ audio_clock \in Nat /\ lost \in Nat
    BY DEF AInv, AType
  <2>3. audio_resample = 0 => /\ decoded + InHand <= audio_clock
                              /\ audio_clock <= decoded + InHand + lost
    BY DEF AInv, Kept
  <2> QED
    BY <2>1, <2>2, <2>3 DEF file
<1>6. audio_st' # 0 /\ audio_buf_index' = audio_buf_size'
  BY <1>1 DEF AInv, Kept, file, contents
<1> QED
  BY <1>1, <1>2, <1>3, <1>4, <1>5, <1>6 DEF AInv, Kept

LEMMA FrameKeeps ==
  ASSUME AInv, NEW n \in FrameSizes, DecodePlain(n) PROVE AInv'
<1>1. /\ pc = "decode" /\ audio_resample = 0
      /\ Decoded(Words(n))
      /\ file' = file /\ requests' = requests /\ driver' = driver
      /\ callbacks' = callbacks /\ audioq' = audioq /\ packets' = packets
      /\ lost' = lost /\ audio_clock' = audio_clock + Words(n)
  BY DEF DecodePlain, DecodeFrame
<1>2. Words(n) \in Nat
  BY WordsNat DEF AInv
<1>3. pkt_frames' \in Nat
  BY DEF DecodePlain, DecodeFrame, AInv, AType
<1> QED
  BY <1>1, <1>2, <1>3, HandKeeps

LEMMA ResampledKeeps == ASSUME RInv, AInv, Resampled PROVE AInv'
<1>1. /\ pc = "resample"
      /\ Decoded(2 * dst_index)
      /\ file' = file /\ requests' = requests /\ driver' = driver
      /\ callbacks' = callbacks /\ audioq' = audioq /\ packets' = packets
      /\ lost' = lost /\ audio_clock' = audio_clock + 0
      /\ pkt_frames' = pkt_frames
  BY DEF Resampled, packet, AInv, AType
<1>2. 2 * dst_index \in Nat
  BY DEF RInv, ResamplerOK
<1>3. audio_resample # 0
  BY <1>1 DEF AInv, Kept
<1>4. pkt_frames' \in Nat
  BY <1>1 DEF AInv, AType
<1> QED
  BY <1>1, <1>2, <1>3, <1>4, HandKeeps

(* The steps that give audio_buf its new contents.                         *)
LEMMA SilenceKeeps == ASSUME AInv, OutputSilence PROVE AInv'
<1>1. /\ pc \in {"decode", "get"} /\ pc' = "index"
      /\ audio_buf_size' = len /\ sound' = 0
      /\ UNCHANGED <<audio_buf_index, decoded, audio_size>>
      /\ file' = file /\ requests' = requests /\ driver' = driver
      /\ callbacks' = callbacks /\ packet' = packet
  BY DEF OutputSilence, Silent
<1>2. AType'
  BY <1>1 DEF AInv, AType, file, requests, packet, driver
<1>3. Fill'
  BY <1>1 DEF AInv, Fill, Needed, Doubled, file, driver
<1>4. decoded = played
  BY <1>1 DEF AInv, AType, Kept, NothingLost, Left
<1>5. InHand = 0 /\ InHand' = 0 /\ Left' = 0
  BY <1>1 DEF InHand, Left
<1>6. played \in Nat
  BY DEF AInv, AType
<1> QED
  BY <1>1, <1>2, <1>3, <1>4, <1>5, <1>6
     DEF AInv, Kept, NothingLost, file, packet, driver

LEMMA SizeKeeps == ASSUME AInv, SetSize PROVE AInv'
<1>1. /\ pc = "size" /\ pc' = "index"
      /\ audio_buf_size' = audio_size /\ sound' = 1 /\ audio_size' = 0
      /\ UNCHANGED <<audio_buf_index, decoded>>
      /\ file' = file /\ requests' = requests /\ driver' = driver
      /\ callbacks' = callbacks /\ packet' = packet
  BY DEF SetSize
<1>2. AType'
  BY <1>1 DEF AInv, AType, file, requests, packet, driver
<1>3. Fill'
  BY <1>1 DEF AInv, Fill, Needed, Doubled, file, driver
<1>4. decoded = played
  BY <1>1 DEF AInv, AType, Kept, NothingLost, Left
<1>5. InHand' = InHand /\ Left' = 0
  BY <1>1 DEF InHand, Left
<1>6. played \in Nat /\ audio_st # 0
  BY <1>1 DEF AInv, AType, Kept
<1> QED
  BY <1>1, <1>2, <1>3, <1>4, <1>5, <1>6
     DEF AInv, Kept, NothingLost, file, packet, driver

LEMMA IndexKeeps == ASSUME AInv, ResetIndex PROVE AInv'
<1>1. /\ pc = "index" /\ pc' = "copy" /\ audio_buf_index' = 0
      /\ decoded' = IF sound = 1 THEN decoded + audio_buf_size ELSE decoded
      /\ UNCHANGED <<audio_buf_size, sound, audio_size>>
      /\ file' = file /\ requests' = requests /\ driver' = driver
      /\ callbacks' = callbacks /\ packet' = packet
  BY DEF ResetIndex
<1>2. AType'
  <2>1. decoded' \in Nat /\ audio_buf_size \in Nat
    BY <1>1 DEF AInv, AType
  <2> QED
    BY <1>1, <2>1 DEF AInv, AType, file, requests, packet, driver
<1>3. Fill'
  BY <1>1 DEF AInv, Fill, Needed, Doubled, file, driver
<1>4. /\ decoded = played /\ decoded \in Nat /\ audio_buf_size \in Nat
      /\ lost \in Nat /\ audio_clock \in Nat /\ audio_st # 0
  BY <1>1 DEF AInv, AType, Kept, NothingLost, Left
<1>5. NothingLost'
  BY <1>1, <1>4 DEF NothingLost, Left, driver
<1>6. InHand = (IF sound = 1 THEN audio_buf_size ELSE 0) /\ InHand' = 0
  BY <1>1 DEF InHand
<1>7. decoded' + InHand' = decoded + InHand
  BY <1>1, <1>4, <1>6
<1>8. audio_resample' = 0 => /\ decoded' + InHand' <= audio_clock'
                             /\ audio_clock' <= decoded' + InHand' + lost'
  BY <1>1, <1>7 DEF AInv, Kept, file, packet
<1> QED
  BY <1>1, <1>2, <1>3, <1>4, <1>5, <1>8 DEF AInv, Kept, file

LEMMA ToResampleKeeps ==
  ASSUME AInv, NEW n \in FrameSizes, DecodeToResample(n) PROVE AInv'
<1>1. /\ pc = "decode" /\ audio_resample = 1
      /\ pc' \in {"crashed", "resample"}
      /\ file' = file /\ requests' = requests /\ driver' = driver
      /\ buffer' = buffer
      /\ callbacks' = callbacks /\ audioq' = audioq /\ packets' = packets
      /\ lost' = lost /\ audio_clock' = audio_clock + Words(n)
      /\ pkt_frames' = pkt_frames - 1 /\ pkt_frames > 0
  BY DEF DecodeToResample, DecodeFrame
<1>2. audio_clock' \in Nat /\ pkt_frames' \in Nat
  BY <1>1, WordsNat DEF AInv, AType
<1>3. AType'
  BY <1>1, <1>2 DEF AInv, AType, file, requests, buffer, contents, driver
<1>4. Fill'
  <2>1. /\ Needed' = Needed /\ Doubled' = Doubled /\ len' = len /\ out' = out
        /\ pc # "idle" /\ pc' # "idle" /\ callbacks' = callbacks
    BY <1>1 DEF Needed, Doubled, file, driver
  <2> QED
    BY <2>1 DEF AInv, Fill
<1>5. Kept'
  <2>1. NothingLost'
    BY <1>1 DEF AInv, Kept, NothingLost, Left, buffer, contents, driver
  <2> QED
    BY <1>1, <2>1 DEF AInv, Kept, file, buffer, contents
<1> QED
  BY <1>3, <1>4, <1>5 DEF AInv

(* What a chunk adds to the driver's buffer.                               *)
Copied == IF Doubled THEN [i \in 1 .. 2 * Chunk |-> Word((i - 1) \div 2)]
                     ELSE [i \in 1 .. Chunk |-> Word(i - 1)]

LEMMA ChunkFits ==
  ASSUME AType, pc = "copy"
  PROVE  /\ Chunk \in Nat /\ Chunk <= len
         /\ audio_buf_index + Chunk \in 0 .. audio_buf_size
BY DEF AType, Chunk

LEMMA CopiedLen ==
  ASSUME AType, pc = "copy"
  PROVE  /\ Copied \in Seq(Int)
         /\ Len(Copied) = IF Doubled THEN 2 * Chunk ELSE Chunk
<1>1. \A i \in Int : Word(i) \in Int
  BY DEF AType, Word, Silence
<1> DEFINE c == Chunk
<1>2. c \in Nat /\ 2 * c \in Nat
  BY ChunkFits
<1> HIDE DEF c
<1>3. CASE Doubled
  <2>1. \A i \in 1 .. 2 * c : Word((i - 1) \div 2) \in Int
    BY <1>1, <1>2
  <2>2. Copied = [i \in 1 .. 2 * c |-> Word((i - 1) \div 2)]
    BY <1>3 DEF Copied, c
  <2> QED
    BY <1>2, <1>3, <2>1, <2>2 DEF c
<1>4. CASE ~Doubled
  <2>1. \A i \in 1 .. c : Word(i - 1) \in Int
    BY <1>1, <1>2
  <2>2. Copied = [i \in 1 .. c |-> Word(i - 1)]
    BY <1>4 DEF Copied, c
  <2> QED
    BY <1>2, <1>4, <2>1, <2>2 DEF c
<1> QED
  BY <1>3, <1>4

LEMMA CopyKeeps == ASSUME AInv, Copy PROVE AInv'
<1> DEFINE c == Chunk
<1>1. /\ pc = "copy" /\ pc' = "loop" /\ out' = out \o Copied
      /\ len' = len - c /\ audio_buf_index' = audio_buf_index + c
      /\ played' = IF sound = 1 THEN played + c ELSE played
      /\ file' = file /\ requests' = requests /\ packet' = packet
      /\ audio_buf_size' = audio_buf_size /\ sound' = sound
      /\ decoded' = decoded /\ callbacks' = callbacks
      /\ audio_size' = audio_size
  BY DEF Copy, Copied
<1>2. /\ c \in Nat /\ c <= len
      /\ audio_buf_index + c \in 0 .. audio_buf_size
  BY <1>1, ChunkFits DEF AInv
<1>3. /\ Copied \in Seq(Int)
      /\ Len(Copied) = IF Doubled THEN 2 * c ELSE c
  BY <1>1, CopiedLen DEF AInv
<1> HIDE DEF c
<1>4. /\ out \in Seq(Int) /\ len \in Nat /\ played \in Nat /\ sound \in {0, 1}
      /\ audio_buf_size \in Nat /\ audio_buf_index \in Nat /\ decoded \in Nat
  BY DEF AInv, AType
<1>5. out' \in Seq(Int) /\ Len(out') = Len(out) + Len(Copied)
  BY <1>1, <1>3, <1>4
<1>6. len' \in Nat /\ played' \in Nat
  BY <1>1, <1>2, <1>4
<1>7. AType'
  BY <1>1, <1>2, <1>5, <1>6 DEF AInv, AType, file, requests, packet
<1>8. Fill'
  <2>1. Needed' = Needed /\ Doubled' = Doubled /\ Needed \in Nat
    BY <1>1, NeededNat DEF Needed, Doubled, file, AInv
  <2>2. /\ len <= Needed
        /\ Len(out) = IF Doubled THEN 2 * (Needed - len) ELSE Needed - len
        /\ callbacks # 0
    BY <1>1 DEF AInv, Fill
  <2>3. len - c <= Needed
    BY <1>2, <1>4, <2>1, <2>2
  <2>4. Len(out) + Len(Copied) = IF Doubled THEN 2 * (Needed - (len - c))
                                            ELSE Needed - (len - c)
    BY <1>2, <1>3, <1>4, <2>1, <2>2
  <2> QED
    BY <1>1, <1>5, <2>1, <2>2, <2>3, <2>4 DEF Fill
<1>9. Kept'
  <2>1. decoded = played + IF sound = 1 THEN audio_buf_size - audio_buf_index
                                        ELSE 0
    BY <1>1 DEF AInv, Kept, NothingLost, Left
  <2>2. decoded = (IF sound = 1 THEN played + c ELSE played)
                    + IF sound = 1 THEN audio_buf_size - (audio_buf_index + c)
                                   ELSE 0
    BY <1>2, <1>4, <2>1
  <2>3. NothingLost'
    BY <1>1, <2>2 DEF NothingLost, Left
  <2> QED
    BY <1>1, <2>3 DEF AInv, Kept, InHand, file, packet
<1> QED
  BY <1>7, <1>8, <1>9 DEF AInv

LEMMA CallbackKeeps == ASSUME RInv, AInv, Callback PROVE AInv'
<1>1. CASE EnterLoop \/ DecodeError \/ DecodeNothing \/ Resample \/ NeedPacket
           \/ GetPacket
  BY <1>1, DecoderKeeps
<1>2. ASSUME NEW n \in FrameSizes, DecodePlain(n) \/ DecodeToResample(n)
      PROVE  AInv'
  BY <1>2, FrameKeeps, ToResampleKeeps
<1>3. CASE Resampled \/ OutputSilence \/ SetSize \/ ResetIndex
  BY <1>3, ResampledKeeps, SilenceKeeps, SizeKeeps, IndexKeeps
<1>4. CASE Copy \/ CallbackReturn
  BY <1>4, CopyKeeps, ReturnFills
<1> QED
  BY <1>1, <1>2, <1>3, <1>4 DEF Callback

LEMMA AudioStutter == ASSUME AInv, UNCHANGED vars PROVE AInv'
<1>1. /\ file' = file /\ requests' = requests /\ packet' = packet
      /\ buffer' = buffer /\ driver' = driver /\ pc' = pc
      /\ callbacks' = callbacks
  BY DEF vars, avars
<1>2. AType'
  BY <1>1 DEF AInv, AType, file, requests, packet, buffer, contents, driver
<1>3. Fill'
  BY <1>1 DEF AInv, Fill, Needed, Doubled, file, driver
<1>4. Kept'
  BY <1>1 DEF AInv, Kept, NothingLost, Left, InHand, file, packet, buffer,
       contents, driver
<1> QED
  BY <1>2, <1>3, <1>4 DEF AInv

(* The invariant of the resampler and that of the callback, together.      *)
THEOREM AudioInvariance == Spec => [](RInv /\ AInv)
<1>1. Spec => []RInv
  BY Implements, ResamplerInvariance, PTL
<1>2. RInv /\ AInv /\ [Next]_vars => AInv'
  BY RequestsKeep, StartFills, CallbackKeeps, AudioStutter DEF Next
<1>3. Init => AInv
  BY AudioInitial
<1> QED
  BY <1>1, <1>2, <1>3, PTL DEF Spec

(* The types of the whole way of the sound.                                *)
THEOREM AudioTypes == Spec => []TypeOK
<1>1. RInv /\ AInv => TypeOK
  BY DEF RInv, AInv, AType, TypeOK
<1> QED
  BY <1>1, AudioInvariance, PTL

(* In the player, too, the resampler does not drift.                       *)
THEOREM PlayerDrift == Spec => []NoDrift
BY Implements, Drift, PTL

(* In the player, too, the resampler's buffer is large enough.             *)
THEOREM PlayerRoom == Spec => []RoomSuffices
BY Implements, RoomEnough, PTL

(* Every call of the driver fills its buffer, and none writes beyond it,   *)
(* for any rates, frames and buffer lengths of files of one or two         *)
(* channels.                                                               *)
THEOREM Filled == Spec => []DriverFilled
<1>1. ASSUME AInv PROVE DriverFilled
  <2> SUFFICES ASSUME channels <= 2
               PROVE  /\ Len(out) <= 2 * Length
                      /\ pc = "idle" /\ callbacks > 0 => Len(out) = 2 * Length
    BY DEF DriverFilled
  <2>1. Length \in Nat /\ len \in Nat /\ callbacks \in Nat
    BY <1>1, AudioOutputAssumption DEF AInv, AType
  <2>2. channels \in {1, 2} /\ audio_resample \in {0, 1}
    BY <1>1, ChannelCounts DEF AInv, AType
  <2>3. CASE pc = "idle"
    BY <1>1, <2>1, <2>3 DEF AInv, Fill
  <2>4. CASE pc # "idle"
    <3>1. Len(out) = IF Doubled THEN 2 * (Needed - len) ELSE Needed - len
      BY <1>1, <2>4 DEF AInv, Fill
    <3>2. Needed = IF Doubled THEN Length ELSE 2 * Length
      BY <2>1, <2>2 DEF Needed, Doubled
    <3> QED
      BY <2>1, <2>4, <3>1, <3>2
  <2> QED
    BY <2>3, <2>4
<1> QED
  BY <1>1, AudioInvariance, PTL

(* No word of the sound is lost or played twice.                           *)
THEOREM Lossless == Spec => []NothingLost
<1>1. AInv => NothingLost
  BY DEF AInv, Kept
<1> QED
  BY <1>1, AudioInvariance, PTL

-----------------------------------------------------------------------------
(* The two ears in the driver's buffer: it is written in whole pairs, and  *)
(* audio_buf is read in whole pairs unless it has one channel.             *)
Paired(left, right) ==
  IF left = Silence \/ right = Silence \/ (audio_resample = 0 /\ channels = 1)
    THEN left = right
    ELSE left % 2 = 0 /\ right = left + 1

InPairs ==
  /\ Len(out) % 2 = 0
  /\ \A k \in 1 .. Len(out) \div 2 : Paired(out[2 * k - 1], out[2 * k])

Even == /\ audio_buf_size % 2 = 0 /\ audio_buf_index % 2 = 0
        /\ audio_size % 2 = 0
        /\ decoded % 2 = 0 /\ len % 2 = 0

Balanced ==
  channels <= 2 =>
    /\ InPairs
    /\ ~Doubled => Even
    /\ sound = 1 /\ pc # "index" => audio_buf_size <= decoded

LEMMA EvenSum ==
  ASSUME NEW a \in Int, NEW b \in Int, a % 2 = 0, b % 2 = 0
  PROVE  (a + b) % 2 = 0 /\ (a - b) % 2 = 0
OBVIOUS

LEMMA EvenDouble == ASSUME NEW a \in Int PROVE (2 * a) % 2 = 0
OBVIOUS

LEMMA Halves ==
  ASSUME NEW a \in Int, a % 2 = 0
  PROVE  (a - 1) \div 2 = (a - 2) \div 2
OBVIOUS

(* Pairs stay pairs when pairs are written behind them.                    *)
LEMMA PairsAppended ==
  ASSUME NEW s \in Seq(Int), NEW t \in Seq(Int),
         Len(s) % 2 = 0, Len(t) % 2 = 0,
         \A k \in 1 .. Len(s) \div 2 : Paired(s[2 * k - 1], s[2 * k]),
         \A k \in 1 .. Len(t) \div 2 : Paired(t[2 * k - 1], t[2 * k])
  PROVE  /\ Len(s \o t) % 2 = 0
         /\ \A k \in 1 .. Len(s \o t) \div 2 :
              Paired((s \o t)[2 * k - 1], (s \o t)[2 * k])
<1> DEFINE m == Len(s)
           n == Len(t)
           u == s \o t
<1>1. /\ m \in Nat /\ n \in Nat /\ Len(u) = m + n
      /\ \A i \in 1 .. m : u[i] = s[i]
      /\ \A i \in m + 1 .. m + n : u[i] = t[i - m]
  OBVIOUS
<1>2. /\ m % 2 = 0 /\ n % 2 = 0
      /\ \A k \in 1 .. m \div 2 : Paired(s[2 * k - 1], s[2 * k])
      /\ \A k \in 1 .. n \div 2 : Paired(t[2 * k - 1], t[2 * k])
  OBVIOUS
<1> HIDE DEF m, n, u
<1>3. ASSUME NEW k \in 1 .. (m + n) \div 2
      PROVE  Paired(u[2 * k - 1], u[2 * k])
  <2>1. CASE 2 * k <= m
    <3>1. k \in 1 .. m \div 2 /\ 2 * k - 1 \in 1 .. m /\ 2 * k \in 1 .. m
      BY <1>1, <2>1
    <3>2. u[2 * k - 1] = s[2 * k - 1] /\ u[2 * k] = s[2 * k]
      BY <1>1, <3>1
    <3> QED
      BY <1>2, <3>1, <3>2
  <2>2. CASE ~(2 * k <= m)
    <3> DEFINE j == k - m \div 2
    <3>a. m = 2 * (m \div 2) /\ n = 2 * (n \div 2) /\ 2 * k <= m + n
      <4>1. m = 2 * (m \div 2)
        BY <1>1, <1>2
      <4>2. n = 2 * (n \div 2)
        BY <1>1, <1>2
      <4>3. 2 * k <= m + n
        BY <1>1
      <4> QED
        BY <4>1, <4>2, <4>3
    <3>b. k \in Nat /\ m \div 2 \in Nat /\ n \div 2 \in Nat
      BY <1>1
    <3>1. /\ j \in 1 .. n \div 2 /\ 2 * j = 2 * k - m
          /\ 2 * k - 1 \in m + 1 .. m + n /\ 2 * k \in m + 1 .. m + n
      BY <1>1, <2>2, <3>a, <3>b
    <3>2. 2 * k - 1 - m = 2 * j - 1 /\ 2 * k - m = 2 * j
      BY <1>1, <3>1
    <3> HIDE DEF j
    <3>3. u[2 * k - 1] = t[2 * j - 1] /\ u[2 * k] = t[2 * j]
      BY <1>1, <3>1, <3>2
    <3> QED
      BY <1>2, <3>1, <3>3
  <2> QED
    BY <2>1, <2>2
<1>4. Len(u) % 2 = 0
  BY <1>1, <1>2, EvenSum
<1> QED
  BY <1>1, <1>3, <1>4 DEF u

(* A chunk is made of pairs.                                               *)
LEMMA CopiedPairs ==
  ASSUME AInv, Balanced, channels <= 2, pc = "copy"
  PROVE  /\ Len(Copied) % 2 = 0
         /\ \A k \in 1 .. Len(Copied) \div 2 :
              Paired(Copied[2 * k - 1], Copied[2 * k])
         /\ ~Doubled => Chunk % 2 = 0
<1> DEFINE c == Chunk
<1>1. /\ c \in Nat
      /\ Len(Copied) = IF Doubled THEN 2 * c ELSE c
  BY ChunkFits, CopiedLen DEF AInv
<1>2. CASE Doubled
  <2>1. Copied = [i \in 1 .. 2 * c |-> Word((i - 1) \div 2)]
    BY <1>2 DEF Copied
  <2> HIDE DEF c
  <2>2. ASSUME NEW k \in 1 .. c
        PROVE  Paired(Copied[2 * k - 1], Copied[2 * k])
    <3>1. 2 * k - 1 \in 1 .. 2 * c /\ 2 * k \in 1 .. 2 * c
      BY <1>1
    <3>2. (2 * k - 1) \div 2 = (2 * k - 2) \div 2
      BY EvenDouble, Halves
    <3>3. (2 * k - 1) - 1 = 2 * k - 2
      OBVIOUS
    <3>4. Copied[2 * k - 1] = Word((2 * k - 2) \div 2)
          /\ Copied[2 * k] = Word((2 * k - 1) \div 2)
      BY <2>1, <3>1, <3>3
    <3> QED
      BY <1>2, <3>2, <3>4 DEF Paired, Doubled
  <2>3. Len(Copied) % 2 = 0 /\ Len(Copied) \div 2 = c
    BY <1>1, <1>2
  <2> QED
    BY <1>2, <2>2, <2>3
<1>3. CASE ~Doubled
  <2>1. Copied = [i \in 1 .. c |-> Word(i - 1)]
    BY <1>3 DEF Copied
  <2>2. /\ audio_buf_size \in Nat /\ audio_buf_index \in Nat /\ len \in Nat
        /\ decoded \in Nat /\ sound \in {0, 1}
        /\ audio_buf_size % 2 = 0 /\ audio_buf_index % 2 = 0
        /\ decoded % 2 = 0 /\ len % 2 = 0
        /\ sound = 1 => audio_buf_size <= decoded
    BY <1>3 DEF AInv, AType, Balanced, Even
  <2>3. c % 2 = 0
    BY <2>2, EvenSum DEF Chunk
  <2> HIDE DEF c
  <2>4. ASSUME NEW k \in 1 .. c \div 2
        PROVE  Paired(Copied[2 * k - 1], Copied[2 * k])
    <3>1. 2 * k - 1 \in 1 .. c /\ 2 * k \in 1 .. c
      BY <1>1, <2>3
    <3>2. (2 * k - 1) - 1 = 2 * k - 2
      OBVIOUS
    <3>3. Copied[2 * k - 1] = Word(2 * k - 2) /\ Copied[2 * k] = Word(2 * k - 1)
      BY <2>1, <3>1, <3>2
    <3>4. CASE sound = 1
      <4> DEFINE b == decoded - audio_buf_size + audio_buf_index
      <4>1. b \in Nat /\ b % 2 = 0
        <5>1. (decoded - audio_buf_size) % 2 = 0
          BY <2>2, EvenSum
        <5> QED
          BY <2>2, <3>4, <5>1, EvenSum
      <4>2. Word(2 * k - 2) = b + (2 * k - 2) /\ Word(2 * k - 1) = b + (2 * k - 1)
        BY <3>4 DEF Word
      <4> HIDE DEF b
      <4>3. (b + (2 * k - 2)) % 2 = 0 /\ b + (2 * k - 2) >= 0
        BY <4>1
      <4>4. b + (2 * k - 1) = (b + (2 * k - 2)) + 1
        BY <4>1
      <4> QED
        BY <1>3, <3>3, <4>1, <4>2, <4>3, <4>4 DEF Paired, Silence, Doubled
    <3>5. CASE sound # 1
      BY <3>3, <3>5 DEF Word, Paired
    <3> QED
      BY <3>4, <3>5
  <2> QED
    BY <1>1, <1>3, <2>3, <2>4 DEF c
<1> QED
  BY <1>2, <1>3

(* The steps of Balanced.                                                  *)
LEMMA BalancedFrame ==
  ASSUME Balanced, file' = file, buffer' = buffer, driver' = driver,
         pc = "index" => pc' = "index"
  PROVE  Balanced'
BY DEF Balanced, InPairs, Paired, Even, Doubled, file, buffer, contents,
       driver

LEMMA BalancedOpen ==
  ASSUME AInv, Balanced,
         OpenAudio \/ PutPacket \/ TogglePause \/ AbortQueue \/ ReadClock
  PROVE  Balanced'
<1>1. CASE PutPacket \/ TogglePause \/ AbortQueue \/ ReadClock
  BY <1>1, BalancedFrame DEF PutPacket, TogglePause, AbortQueue, ReadClock
<1>2. CASE OpenAudio
  <2>1. /\ audio_st = 0 /\ channels' = channels
        /\ audio_resample' = audio_resample /\ audio_buf_size' = 0
        /\ audio_buf_index' = 0 /\ sound' = sound /\ decoded' = decoded
        /\ len' = len /\ out' = out /\ audio_size' = audio_size
    BY <1>2 DEF OpenAudio, driver
  <2>2. sound = 0
    BY <2>1 DEF AInv, Kept
  <2>3. InPairs' <=> InPairs
    BY <2>1 DEF InPairs, Paired
  <2>4. Doubled' <=> Doubled
    BY <2>1 DEF Doubled
  <2>5. 0 % 2 = 0
    OBVIOUS
  <2> QED
    BY <2>1, <2>2, <2>3, <2>4, <2>5 DEF Balanced, Even
<1> QED
  BY <1>1, <1>2

LEMMA BalancedStart ==
  ASSUME AInv, Balanced, CallbackStart
  PROVE  Balanced'
<1> SUFFICES ASSUME channels <= 2, channels' = channels,
                    audio_resample' = audio_resample, Doubled' <=> Doubled,
                    buffer' = buffer
             PROVE  InPairs' /\ (~Doubled => Even')
  BY DEF CallbackStart, Balanced, Doubled, file, buffer, contents
<1>1. Length \in Nat
  BY AudioOutputAssumption
<1>2. CASE audio_st = 1
  <2>1. out' = <<>> /\ len' = Needed
    BY <1>2 DEF CallbackStart
  <2>2. InPairs'
    <3>1. Len(<<>>) % 2 = 0 /\ Len(<<>>) \div 2 = 0
      OBVIOUS
    <3> QED
      BY <2>1, <3>1 DEF InPairs
  <2>3. ~Doubled => len' % 2 = 0
    <3>1. channels \in {1, 2} /\ audio_resample \in {0, 1}
      BY ChannelCounts DEF AInv, AType
    <3>2. ~Doubled => Needed = 2 * Length
      BY <1>1, <3>1 DEF Doubled, Needed
    <3> QED
      BY <1>1, <2>1, <3>2, EvenDouble
  <2> QED
    BY <2>2, <2>3 DEF Balanced, Even, buffer, contents
<1>3. CASE audio_st # 1
  <2>1. out' = [i \in 1 .. 2 * Length |-> Silence] /\ len' = len
    BY <1>3 DEF CallbackStart
  <2>2. /\ Len(out') = 2 * Length
        /\ \A i \in 1 .. 2 * Length : out'[i] = Silence
    BY <1>1, <2>1
  <2>3. Len(out') % 2 = 0 /\ Len(out') \div 2 = Length
    BY <1>1, <2>2
  <2>4. \A k \in 1 .. Length : out'[2 * k - 1] = Silence /\ out'[2 * k] = Silence
    BY <1>1, <2>2
  <2>5. InPairs'
    BY <2>3, <2>4 DEF InPairs, Paired
  <2> QED
    BY <2>1, <2>5 DEF Balanced, Even, buffer, contents
<1> QED
  BY <1>2, <1>3

LEMMA BalancedHand ==
  ASSUME AInv, Balanced, NEW size \in Nat, Decoded(size), pc # "index",
         file' = file, driver' = driver,
         channels <= 2 /\ ~Doubled => size % 2 = 0
  PROVE  Balanced'
<1>1. audio_size' = size /\ contents' = contents /\ pc' = "size"
  BY DEF Decoded
<1>2. /\ channels' = channels /\ (Doubled' <=> Doubled)
      /\ (InPairs' <=> InPairs)
  BY DEF file, driver, Doubled, InPairs, Paired
<1>3. channels <= 2 /\ ~Doubled => Even'
  BY <1>1 DEF Balanced, Even, contents, driver
<1> QED
  BY <1>1, <1>2, <1>3 DEF Balanced, contents

LEMMA BalancedDecode ==
  ASSUME RInv, AInv, Balanced,
         (\E n \in FrameSizes : DecodePlain(n)) \/ Resampled
  PROVE  Balanced'
<1>1. ASSUME NEW n \in FrameSizes, DecodePlain(n) PROVE Balanced'
  <2>1. /\ Decoded(Words(n)) /\ file' = file /\ driver' = driver
        /\ audio_resample = 0 /\ pc = "decode"
    BY <1>1 DEF DecodePlain, DecodeFrame
  <2>2. Words(n) \in Nat
    BY WordsNat DEF AInv
  <2>3. channels <= 2 /\ ~Doubled => Words(n) % 2 = 0
    <3> SUFFICES ASSUME channels <= 2, ~Doubled PROVE Words(n) % 2 = 0
      OBVIOUS
    <3>1. channels = 2
      BY <2>1, ChannelCounts DEF AInv, Doubled
    <3>2. n \in Int /\ Words(n) = 2 * n
      BY <3>1, ResamplerAssumption DEF Words
    <3> QED
      BY <3>2, EvenDouble
  <2> QED
    BY <2>1, <2>2, <2>3, BalancedHand
<1>2. CASE Resampled
  <2>1. /\ Decoded(2 * dst_index) /\ file' = file /\ driver' = driver
        /\ pc = "resample"
    BY <1>2 DEF Resampled
  <2>2. dst_index \in Nat
    BY DEF RInv, ResamplerOK
  <2>3. 2 * dst_index \in Nat /\ (2 * dst_index) % 2 = 0
    BY <2>2, EvenDouble
  <2> QED
    BY <2>1, <2>3, BalancedHand
<1> QED
  BY <1>1, <1>2

LEMMA BalancedRefill ==
  ASSUME AInv, Balanced, OutputSilence \/ SetSize \/ ResetIndex
  PROVE  Balanced'
<1>1. /\ channels' = channels /\ (Doubled' <=> Doubled)
      /\ (InPairs' <=> InPairs) /\ len' = len
  BY DEF OutputSilence, SetSize, ResetIndex, file, driver, Doubled, InPairs,
     Paired
<1>2. 0 % 2 = 0
  OBVIOUS
<1>3. CASE OutputSilence \/ SetSize
  <2>1. /\ pc' = "index" /\ audio_buf_size' \in {len, audio_size}
        /\ audio_size' \in {audio_size, 0}
        /\ UNCHANGED <<audio_buf_index, decoded>>
    BY <1>3 DEF OutputSilence, Silent, SetSize
  <2>2. channels <= 2 /\ ~Doubled => Even'
    BY <1>1, <1>2, <2>1 DEF Balanced, Even
  <2> QED
    BY <1>1, <2>1, <2>2 DEF Balanced
<1>4. CASE ResetIndex
  <2>1. /\ audio_buf_index' = 0
        /\ decoded' = IF sound = 1 THEN decoded + audio_buf_size ELSE decoded
        /\ UNCHANGED <<audio_buf_size, audio_size, sound>>
    BY <1>4 DEF ResetIndex
  <2>2. decoded \in Nat /\ audio_buf_size \in Nat
    BY DEF AInv, AType
  <2>3. channels <= 2 /\ ~Doubled => Even'
    BY <1>1, <1>2, <2>1, <2>2, EvenSum DEF Balanced, Even
  <2>4. sound' = 1 => audio_buf_size' <= decoded'
    BY <2>1, <2>2
  <2> QED
    BY <1>1, <2>3, <2>4 DEF Balanced
<1> QED
  BY <1>3, <1>4

LEMMA BalancedCopy == ASSUME AInv, Balanced, Copy PROVE Balanced'
<1> SUFFICES ASSUME channels <= 2, channels' = channels,
                    audio_resample' = audio_resample, Doubled' <=> Doubled
             PROVE  /\ InPairs'
                    /\ ~Doubled => Even'
                    /\ sound' = 1 => audio_buf_size' <= decoded'
  BY DEF Copy, Balanced, Doubled, file
<1>1. /\ out' = out \o Copied
      /\ len' = len - Chunk /\ audio_buf_index' = audio_buf_index + Chunk
      /\ audio_buf_size' = audio_buf_size /\ sound' = sound
      /\ decoded' = decoded /\ audio_size' = audio_size /\ pc = "copy"
  BY DEF Copy, Copied
<1>2. /\ out \in Seq(Int) /\ Copied \in Seq(Int)
      /\ len \in Int /\ audio_buf_index \in Int /\ Chunk \in Int
  BY <1>1, ChunkFits, CopiedLen DEF AInv, AType
<1>3. InPairs'
  <2>1. /\ Len(out \o Copied) % 2 = 0
        /\ \A k \in 1 .. Len(out \o Copied) \div 2 :
             Paired((out \o Copied)[2 * k - 1], (out \o Copied)[2 * k])
    <3> HIDE DEF Copied
    <3> QED
      BY <1>1, <1>2, PairsAppended, CopiedPairs DEF Balanced, InPairs
  <2> QED
    BY <1>1, <2>1 DEF InPairs, Paired
<1>4. ~Doubled => Even'
  <2> SUFFICES ASSUME ~Doubled PROVE Even'
    OBVIOUS
  <2>1. Even /\ Chunk % 2 = 0
    BY <1>1, CopiedPairs DEF Balanced
  <2> QED
    BY <1>1, <1>2, <2>1, EvenSum DEF Even
<1> QED
  BY <1>1, <1>3, <1>4 DEF Balanced

(* Every sample reaches both ears, and each its own, for any frames and    *)
(* any lengths of the driver's buffer.                                     *)
THEOREM BothEars == Spec => []EarsAligned
<1>1. Init => Balanced
  <2> SUFFICES ASSUME Init PROVE Balanced
    OBVIOUS
  <2>1. Len(<<>>) = 0 /\ 0 % 2 = 0 /\ 0 \div 2 = 0
    OBVIOUS
  <2> QED
    BY <2>1 DEF Init, Balanced, InPairs, Even
<1>2. RInv /\ AInv /\ Balanced /\ [Next]_vars => Balanced'
  <2> SUFFICES ASSUME RInv, AInv, Balanced, [Next]_vars PROVE Balanced'
    OBVIOUS
  <2>1. CASE EnterLoop \/ DecodeError \/ DecodeNothing
    BY <2>1, BalancedFrame DEF EnterLoop, DecodeError, DecodeNothing
  <2>2. CASE Resample \/ NeedPacket \/ GetPacket \/ CallbackReturn
    BY <2>2, BalancedFrame DEF Resample, NeedPacket, GetPacket,
       CallbackReturn, avars
  <2>3. ASSUME NEW n \in FrameSizes, DecodeToResample(n) PROVE Balanced'
    BY <2>3, BalancedFrame DEF DecodeToResample, DecodeFrame
  <2>4. CASE UNCHANGED vars
    BY <2>4, BalancedFrame DEF vars, avars
  <2> QED
    BY <2>1, <2>2, <2>3, <2>4, BalancedOpen, BalancedStart, BalancedDecode,
       BalancedRefill, BalancedCopy DEF Next, Callback
<1>3. Spec => []Balanced
  BY <1>1, <1>2, AudioInvariance, PTL DEF Spec
<1>4. Spec => []ChannelsInStep
  BY Implements, InStepAlways, PTL
<1>5. Balanced /\ ChannelsInStep => EarsAligned
  BY DEF Balanced, InPairs, Paired, EarsAligned
<1> QED
  BY <1>3, <1>4, <1>5, PTL

(* What audio_buf holds, and the clock that was read.                      *)
Bounded ==
  audio_resample = 0 =>
    /\ audio_buf_size <= BufSize /\ audio_buf_index <= BufSize
    /\ audio_size <= BufSize
    /\ pts \in 0 .. BufSize + lost

(* The clock counts what was played, what is left of audio_buf and the     *)
(* frame that is not yet there.                                            *)
LEMMA ClockCounts ==
  ASSUME AInv, audio_resample = 0
  PROVE  /\ audio_clock \in Nat /\ played \in Nat /\ lost \in Nat
         /\ Left \in Nat /\ InHand \in Nat
         /\ played + Left + InHand <= audio_clock
         /\ audio_clock <= played + Left + InHand + lost
<1>1. /\ audio_clock \in Nat /\ lost \in Nat /\ decoded \in Nat
      /\ played \in Nat /\ audio_buf_size \in Nat /\ audio_size \in Nat
      /\ audio_buf_index \in Nat
      /\ pc # "index" => audio_buf_index <= audio_buf_size
  BY DEF AInv, AType
<1>2. Left \in Nat /\ InHand \in Nat
  BY <1>1 DEF Left, InHand
<1>3. decoded + InHand <= audio_clock /\ audio_clock <= decoded + InHand + lost
  BY DEF AInv, Kept
<1>4. decoded = played + Left
  BY DEF AInv, Kept, NothingLost
<1> QED
  BY <1>1, <1>2, <1>3, <1>4

(* Of audio_buf and the frame that goes to it only one has words.          *)
LEMMA HeldFits ==
  ASSUME AInv, Bounded, audio_resample = 0
  PROVE  Left + InHand <= BufSize
<1>1. /\ audio_buf_size \in Nat /\ audio_size \in Nat
      /\ audio_buf_index \in Nat
      /\ pc # "index" => audio_buf_index <= audio_buf_size
      /\ pc = "size" => audio_buf_index = audio_buf_size
      /\ audio_buf_size <= BufSize /\ audio_size <= BufSize /\ BufSize \in Nat
  BY AudioOutputAssumption DEF AInv, AType, Kept, Bounded
<1>2. CASE pc = "size"
  BY <1>1, <1>2 DEF Left, InHand
<1>3. CASE pc = "index"
  BY <1>1, <1>3 DEF Left, InHand
<1>4. CASE pc \notin {"size", "index"}
  BY <1>1, <1>4 DEF Left, InHand
<1> QED
  BY <1>2, <1>3, <1>4

LEMMA RangeGrows ==
  ASSUME NEW b \in Nat, NEW m \in Nat, NEW l \in Nat, m <= l,
         NEW p \in 0 .. b + m
  PROVE  p \in 0 .. b + l
OBVIOUS

(* The steps that give audio_buf no other size.                            *)
LEMMA BoundedFrame ==
  ASSUME AInv, AInv', Bounded, UNCHANGED <<channels, audio_resample, pts>>,
         lost <= lost',
         audio_resample = 0 => /\ audio_buf_size' <= BufSize
                               /\ audio_buf_index' <= BufSize
                               /\ audio_size' <= BufSize
  PROVE  Bounded'
<1>1. lost \in Nat /\ lost' \in Nat /\ BufSize \in Nat
  BY AudioOutputAssumption DEF AInv, AType
<1>2. pts \in 0 .. BufSize + lost => pts \in 0 .. BufSize + lost'
  BY <1>1, RangeGrows
<1>3. audio_resample' = 0 => pts' \in 0 .. BufSize + lost'
  BY <1>2 DEF Bounded
<1>4. audio_resample' = 0 => /\ audio_buf_size' <= BufSize
                             /\ audio_buf_index' <= BufSize
                             /\ audio_size' <= BufSize
  OBVIOUS
<1> QED
  BY <1>3, <1>4 DEF Bounded

LEMMA BoundedStep ==
  ASSUME RInv, AInv, AInv', Bounded, [Next]_vars
  PROVE  Bounded'
<1>0. /\ lost \in Nat /\ BufSize \in Nat /\ lost <= lost
      /\ audio_buf_size \in Nat /\ audio_buf_index \in Nat /\ len \in Nat
  BY AudioOutputAssumption DEF AInv, AType
<1>1. CASE OpenAudio
  BY <1>0, <1>1, BoundedFrame
     DEF OpenAudio, requests, packet, Bounded
<1>2. CASE PutPacket \/ TogglePause \/ AbortQueue \/ UNCHANGED vars
  <2>1. UNCHANGED <<channels, audio_resample, pts, lost, buffer>>
    BY <1>2 DEF PutPacket, TogglePause, AbortQueue, vars, avars, file,
       requests, packet
  <2> QED
    BY <1>0, <2>1, BoundedFrame DEF Bounded, buffer, contents
<1>3. CASE ReadClock
  <2>1. /\ UNCHANGED <<file, packet, buffer>>
        /\ pts' = audio_clock - played /\ audio_resample = 0
    BY <1>3 DEF ReadClock
  <2>2. audio_clock - played \in 0 .. BufSize + lost
    BY <1>0, <2>1, ClockCounts, HeldFits
  <2> QED
    BY <2>1, <2>2 DEF Bounded, file, packet, buffer, contents
<1>4. CASE CallbackStart \/ EnterLoop \/ DecodeNothing \/ Resample
           \/ NeedPacket \/ GetPacket \/ CallbackReturn
  <2>1. UNCHANGED <<channels, audio_resample, pts, lost, buffer>>
    BY <1>4 DEF CallbackStart, EnterLoop, DecodeNothing, Resample, NeedPacket,
       GetPacket, CallbackReturn, avars, file, requests, packet
  <2> QED
    BY <1>0, <2>1, BoundedFrame DEF Bounded, buffer, contents
<1>5. CASE DecodeError
  <2>1. UNCHANGED <<channels, audio_resample, pts, buffer>>
    BY <1>5 DEF DecodeError, file, requests
  <2>2. PICK n \in FrameSizes : lost' = lost + pkt_frames * Words(n)
    BY <1>5 DEF DecodeError
  <2>3. pkt_frames * Words(n) \in Nat
    <3>1. pkt_frames \in Nat /\ Words(n) \in Nat
      BY WordsNat DEF AInv, AType
    <3> QED
      BY <3>1
  <2>4. lost <= lost'
    BY <1>0, <2>2, <2>3
  <2>5. audio_resample = 0 => /\ audio_buf_size' <= BufSize
                              /\ audio_buf_index' <= BufSize
                              /\ audio_size' <= BufSize
    BY <2>1 DEF Bounded, buffer, contents
  <2> QED
    BY <2>1, <2>4, <2>5, BoundedFrame
<1>6. ASSUME NEW n \in FrameSizes, DecodePlain(n) PROVE Bounded'
  <2>1. /\ UNCHANGED <<file, requests, contents, lost>>
        /\ audio_size' = Words(n)
    BY <1>6 DEF DecodePlain, DecodeFrame, Decoded
  <2>2. Words(n) <= BufSize
    BY AudioOutputAssumption DEF AInv, AType, Words
  <2> QED
    BY <1>0, <2>1, <2>2, BoundedFrame DEF Bounded, file, requests, contents
<1>7. ASSUME NEW n \in FrameSizes, DecodeToResample(n) PROVE Bounded'
  BY <1>7 DEF DecodeToResample, DecodeFrame, Bounded, file
<1>8. CASE Resampled
  BY <1>8 DEF Resampled, Bounded, file, AInv, Kept
<1>9. CASE OutputSilence
  <2>1. /\ UNCHANGED <<file, requests, packet, audio_buf_index, audio_size>>
        /\ audio_buf_size' = len
    BY <1>9 DEF OutputSilence, Silent
  <2>2. audio_resample = 0 => len <= BufSize
    <3>1. audio_resample = 0 => len <= Length * channels
      BY DEF AInv, Fill, Needed
    <3>2. Length * channels <= BufSize /\ Length * channels \in Nat
      BY AudioOutputAssumption, ChannelCounts DEF AInv, AType
    <3> QED
      BY <1>0, <3>1, <3>2
  <2> QED
    BY <1>0, <2>1, <2>2, BoundedFrame DEF Bounded, file, requests, packet
<1>10. CASE SetSize \/ ResetIndex
  <2>1. /\ UNCHANGED <<file, requests, packet>>
        /\ audio_buf_size' \in {audio_buf_size, audio_size}
        /\ audio_buf_index' \in {audio_buf_index, 0}
        /\ audio_size' \in {audio_size, 0}
    BY <1>10 DEF SetSize, ResetIndex
  <2> QED
    BY <1>0, <2>1, BoundedFrame DEF Bounded, file, requests, packet
<1>11. CASE Copy
  <2>1. /\ UNCHANGED <<file, requests, packet, audio_buf_size, audio_size>>
        /\ pc = "copy" /\ audio_buf_index' = audio_buf_index + Chunk
    BY <1>11 DEF Copy
  <2>2. audio_buf_index + Chunk \in 0 .. audio_buf_size
    BY <2>1, ChunkFits DEF AInv
  <2> QED
    BY <1>0, <2>1, <2>2, BoundedFrame DEF Bounded, file, requests, packet
<1> QED
  BY <1>1, <1>2, <1>3, <1>4, <1>5, <1>6, <1>7, <1>8, <1>9, <1>10, <1>11
     DEF Next, Callback

(* The audio clock never leaves the sound by more than the buffers and the *)
(* frames that could not be decoded, not even between the two reads of     *)
(* get_audio_clock.                                                        *)
THEOREM ClockFollows == Spec => []ClockNear
<1>1. Init => Bounded
  BY AudioOutputAssumption DEF Init, Bounded
<1>2. /\ RInv /\ AInv /\ (RInv /\ AInv)' /\ Bounded /\ [Next]_vars
      => Bounded'
  BY BoundedStep
<1>3. Spec => []Bounded
  BY <1>1, <1>2, AudioInvariance, PTL DEF Spec
<1>4. ASSUME AInv, Bounded PROVE ClockNear
  <2> SUFFICES ASSUME audio_resample = 0 PROVE ClockNear
    BY DEF ClockNear
  <2>1. /\ HwSize \in Nat /\ BufSize \in Nat /\ audio_buf_index \in Nat
        /\ audio_buf_index <= BufSize /\ pts \in 0 .. BufSize + lost
    BY <1>4, AudioOutputAssumption DEF AInv, AType, Bounded
  <2>2. /\ audio_clock \in Nat /\ played \in Nat /\ lost \in Nat
        /\ Left \in Nat /\ InHand \in Nat
        /\ played + Left + InHand <= audio_clock
        /\ audio_clock <= played + Left + InHand + lost
    BY <1>4, ClockCounts
  <2> QED
    BY <2>1, <2>2 DEF ClockNear, AudioClock
<1> QED
  BY <1>3, <1>4, AudioInvariance, PTL

-----------------------------------------------------------------------------
(* That a call of the driver returns: the callback never waits but for a   *)
(* packet, and does not go round without using up a frame or a packet.     *)

(* The guards of the callback's actions.                                   *)
CallbackReady == \/ pc \in {"loop", "decode", "size", "index", "copy"}
                 \/ pc = "resample" /\ rpc \in {"pass", "done"}
                 \/ pc = "get" /\ (abort = 1 \/ audioq > 0)

NotStuck == \/ pc \in {"idle", "crashed"} \/ CallbackReady
            \/ pc = "get" /\ abort = 0

(* Steps of a call of audio_resample to its end, at the most.              *)
PassLeft == IF rpc = "pass"
              THEN lenout - dst_index + 1
                     + (IF channel = filter_channels THEN 0 ELSE lenout + 2)
              ELSE 0

(* Steps until the callback needs another frame or packet, or returns.     *)
StepsLeft ==
  CASE pc = "resample" -> 10 + PassLeft
    [] pc = "loop" -> IF len = 0 THEN 1 ELSE IF BufferUsed THEN 6 ELSE 8
    [] pc = "copy" -> IF audio_buf_size - audio_buf_index >= len THEN 2 ELSE 7
    [] pc = "index" -> IF audio_buf_size >= len THEN 3 ELSE 8
    [] pc = "size" -> 9
    [] pc = "decode" -> 5
    [] pc = "get" -> 4
    [] OTHER -> 0

UsesPacket == audioq' < audioq
UsesFrame == audioq' = audioq /\ pkt_frames' < pkt_frames

(* Every step of the callback uses up a packet or a frame of one, or       *)
(* brings it nearer to its return; no other step takes that back.          *)
CallbackAdvances ==
  [][/\ Callback => UsesPacket \/ UsesFrame \/ StepsLeft' < StepsLeft
     /\ pc # "idle" => UsesPacket \/ UsesFrame \/ StepsLeft' <= StepsLeft]_vars

InCall == pc = "resample" => rpc \in {"pass", "done"}

LEMMA CallStep ==
  ASSUME RInv, AInv, InCall, [Next]_vars
  PROVE  InCall'
<1>1. CASE OpenAudio \/ PutPacket \/ TogglePause \/ AbortQueue \/ ReadClock
  BY <1>1 DEF OpenAudio, PutPacket, TogglePause, AbortQueue, ReadClock, InCall,
     rvars
<1>2. CASE CallbackStart
  BY <1>2 DEF CallbackStart, InCall, rvars
<1>3. CASE EnterLoop \/ DecodeError \/ DecodeNothing \/ NeedPacket \/ GetPacket
           \/ OutputSilence \/ SetSize \/ ResetIndex \/ Copy \/ CallbackReturn
  BY <1>3 DEF EnterLoop, DecodeError, DecodeNothing, NeedPacket, GetPacket,
     OutputSilence, Silent, SetSize, ResetIndex, Copy, CallbackReturn, InCall,
     rvars
<1>4. ASSUME NEW n \in FrameSizes, DecodePlain(n) \/ DecodeToResample(n)
      PROVE  InCall'
  BY <1>4 DEF DecodePlain, DecodeToResample, Decoded, ResampleStart, InCall
<1>5. CASE Resample
  BY <1>5 DEF Resample, ResampleStep, MakeSample, NextChannel, LastChannel,
     InCall, avars
<1>6. CASE Resampled
  BY <1>6 DEF Resampled, Decoded, InCall
<1>7. CASE UNCHANGED vars
  BY <1>7 DEF vars, avars, rvars, InCall
<1> QED
  BY <1>1, <1>2, <1>3, <1>4, <1>5, <1>6, <1>7 DEF Next, Callback

LEMMA InCallAlways == Spec => []InCall
<1>1. Init => InCall
  BY DEF Init, InCall
<1>2. RInv /\ AInv /\ InCall /\ [Next]_vars => InCall'
  BY CallStep
<1> QED
  BY <1>1, <1>2, AudioInvariance, PTL DEF Spec

(* The callback waits for nothing but a packet, and not for that once the  *)
(* queue is aborted.                                                       *)
THEOREM NeverStuck == Spec => []NotStuck
<1>1. AInv /\ InCall => NotStuck
  BY DEF AInv, AType, InCall, NotStuck, CallbackReady
<1> QED
  BY <1>1, AudioInvariance, InCallAlways, PTL

LEMMA PassLeftNatural == RInv => PassLeft \in Nat
BY DEF RInv, ResamplerOK, Inside, PassLeft

LEMMA StepsLeftNatural == RInv => StepsLeft \in Nat
BY PassLeftNatural DEF StepsLeft

(* The resampler makes all the samples of both channels and returns.       *)
LEMMA ResampleNearer ==
  ASSUME RInv, RInv', ResampleStep
  PROVE  PassLeft' < PassLeft
<1> USE DEF RInv, ResamplerOK, Inside, PassLeft
<1>1. CASE MakeSample
  BY <1>1 DEF MakeSample, context
<1>2. CASE NextChannel
  BY <1>2 DEF NextChannel, KeepRest
<1>3. CASE LastChannel
  BY <1>3 DEF LastChannel, KeepRest
<1> QED
  BY <1>1, <1>2, <1>3 DEF ResampleStep

LEMMA CallbackNearer ==
  ASSUME RInv, RInv', AInv, AInv', InCall, Callback
  PROVE  UsesPacket \/ UsesFrame \/ StepsLeft' < StepsLeft
<1>0. RInv' => (PassLeft \in Nat)'
  BY PassLeftNatural, PTL
<1>1. /\ len \in Nat /\ audio_buf_size \in Nat /\ audio_buf_index \in Nat
      /\ pc # "index" => audio_buf_index <= audio_buf_size
      /\ pkt_frames \in Nat /\ audioq \in Nat
      /\ PassLeft \in Nat
  BY PassLeftNatural DEF AInv, AType
<1>2. CASE EnterLoop
  <2>1. /\ pc = "loop" /\ len > 0 /\ pc' = IF BufferUsed THEN "decode" ELSE "copy"
        /\ len' = len /\ audio_buf_size' = audio_buf_size
        /\ audio_buf_index' = audio_buf_index
    BY <1>2 DEF EnterLoop, buffer, contents, driver
  <2> QED
    BY <1>1, <2>1 DEF StepsLeft, BufferUsed
<1>3. CASE DecodeError \/ DecodeNothing
  BY <1>1, <1>3 DEF DecodeError, DecodeNothing, UsesFrame
<1>4. ASSUME NEW n \in FrameSizes, DecodePlain(n) \/ DecodeToResample(n)
      PROVE  UsesFrame
  BY <1>1, <1>4 DEF DecodePlain, DecodeToResample, DecodeFrame, UsesFrame
<1>5. CASE Resample
  <2>1. PassLeft' < PassLeft /\ pc = "resample" /\ pc' = pc
    BY <1>5, ResampleNearer DEF Resample, avars
  <2>2. PassLeft' \in Nat
    BY <1>0
  <2> QED
    BY <1>1, <2>1, <2>2 DEF StepsLeft
<1>6. CASE Resampled
  BY <1>1, <1>6 DEF Resampled, Decoded, StepsLeft
<1>7. CASE NeedPacket
  BY <1>7 DEF NeedPacket, StepsLeft
<1>8. CASE GetPacket
  BY <1>1, <1>8 DEF GetPacket, UsesPacket
<1>9. CASE OutputSilence
  <2>1. /\ pc \in {"decode", "get"} /\ pc' = "index" /\ len' = len
        /\ audio_buf_size' = len
    BY <1>9 DEF OutputSilence, Silent, driver
  <2> QED
    BY <1>1, <2>1 DEF StepsLeft
<1>10. CASE Copy
  <2>1. /\ pc = "copy" /\ pc' = "loop" /\ len' = len - Chunk
        /\ audio_buf_size' = audio_buf_size
        /\ audio_buf_index' = audio_buf_index + Chunk
    BY <1>10 DEF Copy
  <2>2. CASE audio_buf_size - audio_buf_index >= len
    <3>1. Chunk = len
      BY <1>1, <2>2 DEF Chunk
    <3> QED
      BY <1>1, <2>1, <2>2, <3>1 DEF StepsLeft
  <2>3. CASE ~(audio_buf_size - audio_buf_index >= len)
    <3>1. Chunk = audio_buf_size - audio_buf_index
      BY <1>1, <2>3 DEF Chunk
    <3> QED
      BY <1>1, <2>1, <2>3, <3>1 DEF StepsLeft, BufferUsed
  <2> QED
    BY <2>2, <2>3
<1>11. CASE CallbackReturn
  BY <1>1, <1>11 DEF CallbackReturn, StepsLeft
<1>12. CASE SetSize
  BY <1>12 DEF SetSize, StepsLeft
<1>13. CASE ResetIndex
  <2>1. /\ pc = "index" /\ pc' = "copy" /\ len' = len
        /\ audio_buf_size' = audio_buf_size /\ audio_buf_index' = 0
    BY <1>13 DEF ResetIndex, driver
  <2> QED
    BY <1>1, <2>1 DEF StepsLeft
<1> QED
  BY <1>2, <1>3, <1>4, <1>5, <1>6, <1>7, <1>8, <1>9, <1>10, <1>11, <1>12,
     <1>13 DEF Callback

(* A call of the driver comes to its end: it can go round its loop only as *)
(* often as there are frames and packets.                                  *)
THEOREM CallbackApproaches == Spec => CallbackAdvances
<1> DEFINE Step ==
      /\ Callback => UsesPacket \/ UsesFrame \/ StepsLeft' < StepsLeft
      /\ pc # "idle" => UsesPacket \/ UsesFrame \/ StepsLeft' <= StepsLeft
<1>1. RInv' => (StepsLeft \in Nat)'
  BY StepsLeftNatural, PTL
<1>2. ASSUME RInv, RInv', AInv, AInv', InCall, Callback PROVE Step
  <2>1. StepsLeft \in Nat /\ StepsLeft' \in Nat
    BY <1>1, <1>2, StepsLeftNatural
  <2>2. UsesPacket \/ UsesFrame \/ StepsLeft' < StepsLeft
    BY <1>2, CallbackNearer
  <2> QED
    BY <2>1, <2>2
<1>3. ASSUME RInv, AInv, [Next]_vars, ~Callback, pc # "idle"
      PROVE  StepsLeft' = StepsLeft
  <2>1. CASE PutPacket \/ TogglePause \/ AbortQueue \/ ReadClock
             \/ UNCHANGED vars
    <3>1. UNCHANGED <<buffer, driver, pc, rvars>>
      BY <2>1 DEF PutPacket, TogglePause, AbortQueue, ReadClock, vars, avars
    <3> QED
      BY <3>1 DEF buffer, contents, driver, rvars, context, call, StepsLeft,
         PassLeft, BufferUsed
  <2>2. ~OpenAudio
    BY <1>3 DEF OpenAudio, AInv, Kept
  <2>3. ~CallbackStart
    BY <1>3 DEF CallbackStart
  <2> QED
    BY <1>3, <2>1, <2>2, <2>3 DEF Next
<1>4. ASSUME RInv, AInv, [Next]_vars, ~Callback PROVE Step
  <2>1. StepsLeft \in Nat
    BY <1>4, StepsLeftNatural
  <2> QED
    BY <1>3, <1>4, <2>1
<1>5. RInv /\ RInv' /\ AInv /\ AInv' /\ InCall /\ [Next]_vars => [Step]_vars
  BY <1>2, <1>4
<1> QED
  BY <1>5, AudioInvariance, InCallAlways, PTL DEF Spec, CallbackAdvances
=============================================================================
