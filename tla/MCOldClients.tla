---------------------------- MODULE MCOldClients ----------------------------
EXTENDS OldClients

LOCAL INSTANCE SequencesExt

(* The words on either side of every change of sign and of carry. *)
MCWords ==
  {0, 1, -1, 255, 256, -256, 32768, 65536, 8388608, 2147483647, -2147483647 - 1}

(* Two readings that share no symbol: one with room to spare and a value that
   just fits with its last symbol cut off, one whose values are as long as
   the targets and one more, and so are refused. *)
MCReports ==
  { [oneWireSensor1 |-> <<"1", "2">>, oneWireSensor2 |-> <<"3", "4", "5">>],
    [oneWireSensor1 |-> <<"6">>,      oneWireSensor2 |-> <<"7", "8">>],
    [oneWireSensor1 |-> <<"9", "a">>, oneWireSensor2 |-> <<"b", "c", "d", "e">>] }

(* Values are compared, not computed with: any numbers that differ will do. *)
Digits == <<"1", "2", "3", "4", "5", "6", "7", "8", "9", "a", "b", "c", "d", "e",
            "NOTEMP">>

MCAtof(text) ==
  FoldLeft(LAMBDA n, c : 16 * n + (CHOOSE d \in DOMAIN Digits : Digits[d] = c),
           0, text)
=============================================================================
