------------------------------ MODULE Resampler ------------------------------
(***************************************************************************)
(* libavcodec/resample.c and resample2.c as the player uses them: a file   *)
(* of less than 44100 Hz is brought to 44100 Hz, one decoded frame at a    *)
(* time.  av_resample walks over the samples that are left of the last     *)
(* call and those of the frame with a position made of a sample, a phase   *)
(* and a fraction; it is called once for each channel, and only the last   *)
(* call may move the position in the context.                              *)
(*                                                                         *)
(* Sizes count samples of one channel.  What the filter computes from the  *)
(* samples at a position is not modelled.                                  *)
(***************************************************************************)
EXTENDS Integers

CONSTANTS OutRate, InRate,  \* 44100, src_incr, and the file's rate
          Phases,           \* 1 << phase_shift
          Taps,             \* filter_length
          Slack,            \* the "zoom to avoid round pb"
          FrameSizes        \* samples in a decoded frame

(* A file of a lower rate, frames that fill the filter, and a slack for    *)
(* the rounding of the float ratio.  The code does not look at the size of *)
(* a frame: one that is shorter than the filter, as the last of a file of  *)
(* raw samples may be, is left out.                                        *)
ASSUME ResamplerAssumption ==
         /\ OutRate \in Nat /\ InRate \in Nat /\ 0 < InRate /\ InRate < OutRate
         /\ Phases \in Nat \ {0}
         /\ Taps \in Nat \ {0}
         /\ Slack \in Nat /\ Slack > 2
         /\ FrameSizes \subseteq {n \in Nat : n >= Taps}

VARIABLES
  filter_channels,     \* channels that are resampled
  temp_len,            \* samples left of the last call
  index, frac,         \* the position in the AVResampleContext
  \* one call of audio_resample
  rpc,                 \* "idle", "pass" in av_resample, "done"
  nb_samples, lenout,
  channel,             \* of the pass
  r_index, r_frac,     \* the position in the pass
  dst_index,           \* samples the pass has made
  made_by,             \* samples made by each channel's pass
  \* auxiliary, since the file was opened
  fed,                 \* samples given to the resampler
  taken,               \* samples it has consumed
  made                 \* samples it has made

context == <<filter_channels, temp_len, index, frac>>
call == <<nb_samples, lenout, channel, r_index, r_frac, dst_index, made_by>>
totals == <<fed, taken, made>>
rvars == <<context, rpc, call, totals>>

-----------------------------------------------------------------------------
(* The step from one sample made to the next, in phases, and its fraction. *)
DstIncr == InRate * Phases
Incr == DstIncr \div OutRate
IncrFrac == DstIncr % OutRate

(* Half a filter before the first sample.                                  *)
FirstIndex == -Phases * ((Taps - 1) \div 2)

(* audio_resample_init.                                                    *)
ResampleInit ==
  /\ filter_channels \in {1, 2}
  /\ temp_len = 0
  /\ index = FirstIndex /\ frac = 0
  /\ rpc = "idle"
  /\ nb_samples = 0 /\ lenout = 0 /\ channel = 0
  /\ r_index = FirstIndex /\ r_frac = 0 /\ dst_index = 0
  /\ made_by = <<0, 0>>
  /\ fed = 0 /\ taken = 0 /\ made = 0

(* The room for the samples made: the ratio is a float, and its product    *)
(* with the size of the frame may be rounded either way.                   *)
Room(n) == {(n * OutRate) \div InRate + Slack + d : d \in {-1, 0, 1}}

(* audio_resample puts the frame behind what is left of the last one.      *)
ResampleStart(n) ==
  /\ rpc = "idle"
  /\ rpc' = "pass"
  /\ nb_samples' = temp_len + n
  /\ lenout' \in Room(n)
  /\ channel' = 1
  /\ r_index' = index /\ r_frac' = frac
  /\ dst_index' = 0
  /\ fed' = fed + n
  /\ UNCHANGED <<context, made_by, taken, made>>

(* Before the first sample the filter sees the samples mirrored; later it  *)
(* must not reach behind the last.                                         *)
FilterFits == r_index < 0 \/ r_index \div Phases + Taps <= nb_samples

MayMake == dst_index < lenout /\ FilterFits

(* One turn of the loop of av_resample.                                    *)
NextIndex == r_index + Incr + (IF r_frac + IncrFrac >= OutRate THEN 1 ELSE 0)
NextFrac_nowrap == r_frac + IncrFrac
NextFrac == IF r_frac + IncrFrac >= OutRate THEN r_frac + IncrFrac - OutRate
                                            ELSE r_frac + IncrFrac

MakeSample ==
  /\ rpc = "pass" /\ MayMake
  /\ dst_index' = dst_index + 1
  /\ r_index' = NextIndex /\ r_frac' = NextFrac
  /\ UNCHANGED <<context, rpc, nb_samples, lenout, channel, made_by, totals>>

Consumed == IF r_index >= 0 THEN r_index \div Phases ELSE 0

IsLast_every == TRUE
IsLast == channel = filter_channels

(* The end of a channel's pass: what was not consumed is kept for the next *)
(* call.                                                                   *)
KeepRest ==
  /\ rpc = "pass" /\ ~MayMake
  /\ temp_len' = nb_samples - Consumed
  /\ made_by' = [made_by EXCEPT ![channel] = dst_index]

MoveContext ==
  /\ index' = IF r_index >= 0 THEN r_index % Phases ELSE r_index
  /\ frac' = r_frac

NextChannel ==
  /\ channel # filter_channels
  /\ KeepRest
  /\ IF IsLast THEN MoveContext ELSE UNCHANGED <<index, frac>>
  /\ channel' = channel + 1
  /\ r_index' = index' /\ r_frac' = frac' /\ dst_index' = 0
  /\ UNCHANGED <<filter_channels, rpc, nb_samples, lenout, totals>>

LastChannel ==
  /\ channel = filter_channels
  /\ KeepRest
  /\ MoveContext
  /\ rpc' = "done"
  /\ taken' = taken + Consumed
  /\ made' = made + dst_index
  /\ UNCHANGED <<filter_channels, nb_samples, lenout, channel, r_index, r_frac,
       dst_index, fed>>

(* audio_resample returns the samples made.                                *)
ResampleReturn ==
  /\ rpc = "done"
  /\ rpc' = "idle"
  /\ UNCHANGED <<context, call, totals>>

ResampleStep == MakeSample \/ NextChannel \/ LastChannel

ResampleNext ==
  \/ \E n \in FrameSizes : ResampleStart(n)
  \/ ResampleStep
  \/ ResampleReturn

ResampleSpec == ResampleInit /\ [][ResampleNext]_rvars

-----------------------------------------------------------------------------
(* The types, and what is always left: less than a filter once the first   *)
(* samples have been made.                                                 *)
ResamplerOK ==
  /\ filter_channels \in {1, 2} /\ channel \in 0 .. filter_channels
  /\ temp_len \in Nat /\ temp_len < Taps
  /\ index \in Int /\ index < Phases
  /\ frac \in 0 .. OutRate - 1
  /\ rpc \in {"idle", "pass", "done"}
  /\ nb_samples \in Nat /\ lenout \in Nat
  /\ r_index \in Int /\ r_frac \in 0 .. OutRate - 1
  /\ dst_index \in Nat /\ made_by \in [1 .. 2 -> Nat]
  /\ fed \in Nat /\ taken \in Nat /\ made \in Nat

(* The resampler never drifts: outside a call the position, counted from   *)
(* the first sample of the file in units of 1 / (Phases * OutRate) sample, *)
(* is exactly the samples made times the step, whatever frames the samples *)
(* came in; and no sample given is lost between two calls.                 *)
NoDrift ==
  rpc # "pass" =>
    /\ (taken * Phases + index) * OutRate + frac
         = FirstIndex * OutRate + made * DstIncr
    /\ fed = taken + temp_len

(* The loop ends because the samples do, never for want of room: bufout is *)
(* not overrun, and nothing is held back that could have been made.        *)
RoomSuffices == rpc = "pass" => dst_index < lenout

(* Both channels have been resampled from the same position.               *)
ChannelsInStep ==
  rpc = "done" /\ filter_channels = 2 => made_by[1] = made_by[2]
=============================================================================
