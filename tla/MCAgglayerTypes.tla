--------------------------- MODULE MCAgglayerTypes ---------------------------
(* Go's integer kinds with their widths scaled so that every value fits   *)
(* TLC's integers: 8 bits stay 8, 16 become 10, 32 become 12 and 64 become *)
(* 14, keeping each kind's order and signedness.  The inputs hold every   *)
(* status and leaf type number, one past them, and the edges of uint8 and *)
(* (scaled) uint32, with -1 below both.                                    *)
EXTENDS AgglayerTypes, ConfigLoader

(* The configuration loader's inputs: default layers holding ordinary     *)
(* keys, and user keys that hit an exact pattern, a section, a key of a   *)
(* section that has its own rule, a key under an exact pattern, and keys  *)
(* that only look like deprecated ones (l1networkconfig, agglayerclient). *)
MC_Key(ws) == [i \in DOMAIN ws |-> KeyWord(ws[i])]
MC_DefaultMandatoryVars == {MC_Key(<<"l1networkconfig", "rpcurl">>)}
MC_DefaultVars == {}
MC_DefaultValues == {MC_Key(<<"log", "level">>), MC_Key(<<"aggsender", "maxretries">>)}
MC_UserKeys ==
  { MC_Key(<<"aggsender", "urlrpcl2">>),
    MC_Key(<<"etherman", "url">>),
    MC_Key(<<"networkconfig">>),
    MC_Key(<<"networkconfig", "l1", "poladdr">>),
    MC_Key(<<"networkconfig", "l1", "rollupmanageraddr">>),
    MC_Key(<<"l1networkconfig", "poladdr">>),
    MC_Key(<<"aggsender", "agglayerclient", "usetls">>) }

MC_KindBits ==
  [k \in IntKinds |->
     CASE k \in {"int8", "uint8"} -> 8
       [] k \in {"int16", "uint16"} -> 10
       [] k \in {"int32", "uint32"} -> 12
       [] OTHER -> 14]

MC_Ints == {-1, 0, 1, 2, 3, 4, 5, 255, 256, 4095, 4096}

(* The decoders and the configuration loader are independent: every     *)
(* decoder input is explored with one load call, and every load call with *)
(* one decoder input.                                                      *)
MC_OneInput == CHOOSE i \in Inputs : TRUE
MC_OneCall == CHOOSE c \in LoadCalls : TRUE

MC_Init ==
  \/ loadCall = MC_OneCall /\ Init /\ LoaderInit
  \/ input = MC_OneInput /\ Init /\ LoaderInit

MC_Next == (Next /\ UNCHANGED loaderVars) \/ (LoaderNext /\ UNCHANGED vars)

MC_Spec == MC_Init /\ [][MC_Next]_<<vars, loaderVars>>
=============================================================================
