------------------------------ MODULE MCRecords ------------------------------
(***************************************************************************)
(* What records share, checked side by side: the registers of hardware.c,  *)
(* the bunch banks, the text of selections and of status strings, the      *)
(* min/max/sum waveforms, the sources and outputs of the converters, and   *)
(* the taps of the bunch filter.  An initial state picks one of them, and  *)
(* the others stay as they are.                                            *)
(***************************************************************************)
EXTENDS HwRegisters, BunchBank, BunchText, MinMaxSum, Converter, BunchFir

VARIABLE part
mcVars ==
  <<part, regVars, bankVars, textVars, mmsVars, converterVars, firVars>>

\* Bunches differ in their extremes and from turn to turn.
MCSample(turn, bunch) == ((2 * turn + 3 * bunch) % 5) + 1

\* What clients write to the waveforms of a bank.
MCEnableInput == {Const(TRUE), [i \in Bunch |-> i = 1]}
MCGainInput == {[i \in Bunch |-> i % 2]}
MCFirInput == {[i \in Bunch |-> (i + 5) % 8]}
MCOutInput == {Const({"nco"})}
MCBunchInput == {{0}}

\* The parts at rest have one initial state.
MCInit ==
  /\ part \in {"registers", "banks", "text", "mms", "converter", "fir"}
  /\ part # "text" =>
       wf = [i \in TextBunch |-> 0] /\ enables = None /\ result = "summing"
  /\ part # "converter" =>
       converter = "DAC" /\ enabled = [a \in OutputAxis |-> FALSE]
  /\ part # "fir" => lmbf = FALSE /\ useWaveform = [a \in FirAxis |-> FALSE]
  /\ RegInit /\ BankInit /\ TextInit /\ MmsInit /\ ConverterInit /\ FirInit

MCRegisters ==
  /\ part = "registers" /\ RegNext
  /\ UNCHANGED <<part, bankVars, textVars, mmsVars, converterVars, firVars>>
MCBanks ==
  /\ part = "banks" /\ BankNext
  /\ UNCHANGED <<part, regVars, textVars, mmsVars, converterVars, firVars>>
MCText ==
  /\ part = "text" /\ TextNext
  /\ UNCHANGED <<part, regVars, bankVars, mmsVars, converterVars, firVars>>
MCMms ==
  /\ part = "mms" /\ MmsNext
  /\ UNCHANGED <<part, regVars, bankVars, textVars, converterVars, firVars>>
MCConverter ==
  /\ part = "converter" /\ ConverterNext
  /\ UNCHANGED <<part, regVars, bankVars, textVars, mmsVars, firVars>>
MCFir ==
  /\ part = "fir" /\ FirNext
  /\ UNCHANGED <<part, regVars, bankVars, textVars, mmsVars, converterVars>>

MCNext ==
  MCRegisters \/ MCBanks \/ MCText \/ MCMms \/ MCConverter \/ MCFir
MCSpec == MCInit /\ [][MCNext]_mcVars

\* The types of the part that runs (hardware.c, bunch_select.c, mms.c, dac.c,
\* bunch_fir.c); the others are as in their initial states.
TypesOK ==
  /\ part = "registers" => RegTypeOK
  /\ part = "banks" => BankTypeOK
  /\ part = "text" => TextTypeOK
  /\ part = "mms" => MmsTypeOK
  /\ part = "converter" => ConverterTypeOK
  /\ part = "fir" => FirTypeOK

=============================================================================
