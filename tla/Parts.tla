-------------------------------- MODULE Parts --------------------------------
(***************************************************************************)
(* The parts of the system that are one process each, or a library whose   *)
(* calls run with interrupts disabled: their models share no state.  This  *)
(* module puts them side by side.  A behaviour is one of one part, chosen  *)
(* at the start, while the others stay in their initial states, so that    *)
(* the states are the sum and not the product of the parts' states.        *)
(***************************************************************************)
EXTENDS Heap, Train, Console, WmScreen, KeyDecoder, KeyRing, Shell, Pong, Formats

VARIABLE part        \* the part whose behaviour it is

trainProgramVars == <<trackVars, trainVars>>
keyboardVars == <<decoderVars, codes, typistVars>>

partsVars == <<part, heapVars, trainProgramVars, consoleVars, wmScreenVars,
               keyboardVars, ringVars, shellVars, pongVars, formatVars>>

PartsInit ==
  /\ part \in {"heap", "train", "console", "screen", "decoder", "ring", "shell",
               "pong", "formats"}
  /\ HeapInit /\ TrainInit /\ ConsoleInit /\ WmScreenInit /\ DecoderInit
  /\ RingInit /\ ShellInit /\ PongInit /\ FormatsInit

HeapPart ==
  /\ part = "heap" /\ HeapNext
  /\ UNCHANGED <<part, trainProgramVars, consoleVars, wmScreenVars, keyboardVars,
                 ringVars, shellVars, pongVars, formatVars>>

TrainPart ==
  /\ part = "train" /\ TrainNext
  /\ UNCHANGED <<part, heapVars, consoleVars, wmScreenVars, keyboardVars,
                 ringVars, shellVars, pongVars, formatVars>>

ConsolePart ==
  /\ part = "console" /\ ConsoleNext
  /\ UNCHANGED <<part, heapVars, trainProgramVars, wmScreenVars, keyboardVars,
                 ringVars, shellVars, pongVars, formatVars>>

ScreenPart ==
  /\ part = "screen" /\ WmScreenNext
  /\ UNCHANGED <<part, heapVars, trainProgramVars, consoleVars, keyboardVars,
                 ringVars, shellVars, pongVars, formatVars>>

DecoderPart ==
  /\ part = "decoder" /\ DecoderNext
  /\ UNCHANGED <<part, heapVars, trainProgramVars, consoleVars, wmScreenVars,
                 ringVars, shellVars, pongVars, formatVars>>

RingPart ==
  /\ part = "ring" /\ RingNext
  /\ UNCHANGED <<part, heapVars, trainProgramVars, consoleVars, wmScreenVars,
                 keyboardVars, shellVars, pongVars, formatVars>>

ShellPart ==
  /\ part = "shell" /\ ShellNext
  /\ UNCHANGED <<part, heapVars, trainProgramVars, consoleVars, wmScreenVars,
                 keyboardVars, ringVars, pongVars, formatVars>>

PongPart ==
  /\ part = "pong" /\ PongNext
  /\ UNCHANGED <<part, heapVars, trainProgramVars, consoleVars, wmScreenVars,
                 keyboardVars, ringVars, shellVars, formatVars>>

FormatsPart ==
  /\ part = "formats" /\ FormatsNext
  /\ UNCHANGED <<part, heapVars, trainProgramVars, consoleVars, wmScreenVars,
                 keyboardVars, ringVars, shellVars, pongVars>>

PartsNext == \/ HeapPart \/ TrainPart \/ ConsolePart \/ ScreenPart \/ DecoderPart
             \/ RingPart \/ ShellPart \/ PongPart \/ FormatsPart

PartsSpec == PartsInit /\ [][PartsNext]_partsVars

=============================================================================
