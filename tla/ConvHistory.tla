----------------------------- MODULE ConvHistory -----------------------------
(***************************************************************************)
(* causal_conv_silu of text_forward.cpp: the depthwise convolution of KDA, *)
(* one token to a call, over the inputs of the last calls that it keeps in *)
(* `mem'.  Input and output are stretches of one array of floats and may   *)
(* be the same; a float is an input, or the product of a window, and what  *)
(* is kept of it is its bf16 rounding.                                     *)
(***************************************************************************)
EXTENDS Integers, Sequences

CONSTANTS
  Channels,  \* channels
  Kernel,    \* kernel size, tap 1 the oldest
  Places,    \* where input and output may begin
  MaxCalls   \* bound: tokens

ASSUME ConvAssumption ==
  Channels \in Nat \ {0} /\ Kernel \in Int /\ Places \subseteq Nat /\ MaxCalls \in Nat

VARIABLES
  array,    \* the floats input and output lie in
  mem,      \* [channel -> its last Kernel - 1 inputs, the oldest first]
  input,    \* where the call's input begins
  output,   \* where its output begins
  channel,  \* next channel of the call, 0 between calls
  calls,    \* calls begun
  given,    \* [channel -> the inputs of all calls so far]
  failed

convVars == <<array, mem, input, output, channel, calls, given, failed>>

Zero == <<"zero">>
Given(c, n) == <<"given", c, n>>
Rounded(value) == IF value = Zero THEN Zero ELSE <<"bf16", value>>
Product(window) == <<"silu", window>>

History == Kernel - 1
Zeros(n) == [i \in 1 .. n |-> Zero]

ConvInit ==
  /\ array = << >> /\ mem = [c \in 1 .. Channels |-> Zeros(History)]
  /\ input = 0 /\ output = 0 /\ channel = 0 /\ calls = 0
  /\ given = [c \in 1 .. Channels |-> << >>] /\ failed = FALSE

Apart(left, right) == left >= right + Channels \/ right >= left + Channels

(* Slip: only an output that begins before its input is refused. *)
RefusedIfBehind(left, right) == Kernel < 1 \/ (right < left /\ ~Apart(left, right))

Refused(left, right) == Kernel < 1 \/ (left # right /\ ~Apart(left, right))

(* A call on a token's new inputs. *)
Call ==
  /\ channel = 0 /\ calls < MaxCalls /\ ~failed
  /\ \E left, right \in Places :
       IF Refused(left, right)
       THEN failed' = TRUE /\ UNCHANGED <<array, input, output, channel, calls, given>>
       ELSE /\ input' = left /\ output' = right /\ channel' = 1 /\ calls' = calls + 1
            /\ array' = [i \in left + 1 .. left + Channels |-> Given(i - left, calls + 1)]
            /\ given' = [c \in 1 .. Channels |-> Append(given[c], Given(c, calls + 1))]
            /\ UNCHANGED failed
  /\ UNCHANGED mem

(* The history moves up by one; the value read before the output went over *)
(* it comes last.                                                          *)
Kept(c, raw) == Append(Tail(mem[c]), Rounded(raw))

Convolve ==
  /\ channel \in 1 .. Channels
  /\ LET raw == array[input + channel]
     IN /\ array' = [i \in DOMAIN array \cup {output + channel} |->
                       IF i = output + channel THEN Product(Append(mem[channel], raw)) ELSE array[i]]
        /\ mem' = IF History <= 0 THEN mem ELSE [mem EXCEPT ![channel] = Kept(channel, raw)]
  /\ channel' = IF channel = Channels THEN 0 ELSE channel + 1
  /\ UNCHANGED <<input, output, calls, given, failed>>

ConvRest == channel = 0 /\ (failed \/ calls = MaxCalls) /\ UNCHANGED convVars

ConvNext == Call \/ Convolve \/ ConvRest

ConvSpec == ConvInit /\ [][ConvNext]_convVars

-----------------------------------------------------------------------------
(* The last inputs but the newest, rounded, with zeros before the first. *)
Recent(c) ==
  LET earlier == Zeros(History) \o [i \in 1 .. calls - 1 |-> Rounded(given[c][i])]
  IN SubSeq(earlier, calls, calls + History - 1)

(* After a call every output is the product of the channel's own inputs of *)
(* the last Kernel calls, the newest unrounded, wherever the output was    *)
(* put: a window is never built from an output, of this call or of an      *)
(* earlier one, nor out of order (text_forward.cpp:1484-1509).             *)
OutputsSeeTheRecentInputs ==
  channel = 0 /\ calls > 0 /\ ~failed =>
    \A c \in 1 .. Channels :
      array[output + c] = Product(Append(Recent(c), given[c][calls]))
=============================================================================
