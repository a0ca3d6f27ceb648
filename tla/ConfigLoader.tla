---------------------------- MODULE ConfigLoader ----------------------------
(***************************************************************************)
(* Loading the node's configuration (src/config/config.go): LoadFile      *)
(* stacks the default layers and the user's files, renders them into one  *)
(* TOML text, optionally saves it, lets viper decode it, rejects keys the *)
(* table deprecatedFieldsOnConfig names (unless allowDeprecatedFields),   *)
(* and optionally saves the final configuration.                          *)
(*                                                                         *)
(* Data abstraction.  A key is the sequence of its dot-separated words;   *)
(* a word is its text in lower case and whether it is written with        *)
(* capitals, which is all strings.ToLower and string equality tell apart. *)
(* A file is the set of its keys, and rendering a stack of files yields   *)
(* the union of their keys (the merge and the template variables of       *)
(* ConfigRender are not under src/).  Every call that can fail for I/O    *)
(* or syntax reasons is one input, fail, naming the call that fails.      *)
(***************************************************************************)
EXTENDS Integers, SequencesExt

CONSTANTS
  DefaultMandatoryVars, \* the keys of the embedded default layers
  DefaultVars,
  DefaultValues,
  UserKeys              \* the keys, as viper lists them, a user's file may hold

KeyWord(w) == [name |-> w, caps |-> FALSE]
CapWord(w) == [name |-> w, caps |-> TRUE]

\* strings.ToLower.
ToLower(s) == [i \in DOMAIN s |-> [s[i] EXCEPT !.caps = FALSE]]

\* A key or pattern as written, every word with capitals (as all the
\* patterns of the table are).
Written(ws) == [i \in DOMAIN ws |-> CapWord(ws[i])]

DeprecatedField(ws, reason) == [pattern |-> Written(ws), reason |-> reason]
NoDeprecatedField == [pattern |-> <<>>, reason |-> "none"]

\* Faulty variant: the NetworkConfig section is listed before the two keys
\* under it that have reasons of their own.
NetworkConfigFieldsSectionFirst ==
  << DeprecatedField(<<"networkconfig">>, "networkConfigDeprecatedHint"),
     DeprecatedField(<<"networkconfig", "l1", "poladdr">>, "l1NetworkConfigUsePolTokenAddrHint"),
     DeprecatedField(<<"networkconfig", "l1", "zkevmaddr">>, "l1NetworkConfigUseRollupAddrHint") >>

\* Lines 164-175: the NetworkConfig entries, its keys before the section.
NetworkConfigFields ==
  << DeprecatedField(<<"networkconfig", "l1", "poladdr">>, "l1NetworkConfigUsePolTokenAddrHint"),
     DeprecatedField(<<"networkconfig", "l1", "zkevmaddr">>, "l1NetworkConfigUseRollupAddrHint"),
     DeprecatedField(<<"networkconfig">>, "networkConfigDeprecatedHint") >>

\* Lines 98-181, in their order.
deprecatedFieldsOnConfig ==
  << DeprecatedField(<<"l1config", "polygonbridgeaddr">>, "bridgeAddrSetOnWrongSection"),
     DeprecatedField(<<"l2config", "polygonbridgeaddr">>, "bridgeAddrSetOnWrongSection"),
     DeprecatedField(<<"aggoracle", "evmsender", "urlrpcl2">>, "l2URLHint"),
     DeprecatedField(<<"aggsender", "urlrpcl2">>, "l2URLHint"),
     DeprecatedField(<<"aggsender", "bridgemetadataashash">>, "bridgeMetadataAsHashHint"),
     DeprecatedField(<<"aggsender", "agglayerurl">>, "aggsenderAgglayerClientHint"),
     DeprecatedField(<<"aggsender", "aggchainproofurl">>, "aggsenderAggkitProverClientHint"),
     DeprecatedField(<<"aggchainproofgen", "aggchainproofurl">>, "aggsenderAggkitProverClientHint"),
     DeprecatedField(<<"aggsender", "useagglayertls">>, "aggsenderAgglayerClientUseTLSHint"),
     DeprecatedField(<<"aggsender", "useaggkitprovertls">>, "aggsenderAggkitProverClientUseTLSHint"),
     DeprecatedField(<<"aggsender", "generateaggchainprooftimeout">>, "aggsenderUseRequestTimeoutHint"),
     DeprecatedField(<<"aggchainproofgen", "generateaggchainprooftimeout">>,
                     "aggchainProofGenUseRequestTimeoutHint"),
     DeprecatedField(<<"common", "isvalidiummode">>, "isValidiumModeDeprecatedHint"),
     DeprecatedField(<<"common", "contractversions">>, "contractVersionsDeprecatedHint"),
     DeprecatedField(<<"common", "translator">>, "translatorDeprecatedHint"),
     DeprecatedField(<<"etherman">>, "ethermanDeprecatedHint") >>
  \o NetworkConfigFields
  \o << DeprecatedField(<<"aggsender", "delaybeetweenretries">>, "delayBetweenRetriesHint") >>

-----------------------------------------------------------------------------
(* The deprecated-field check.                                             *)

\* A pattern ending in a dot (a last, empty word) names a section.
EndsWithDot(pattern) == pattern /= <<>> /\ Last(pattern).name = ""

\* Lines 410-425: an exact match; for a pattern ending in a dot, a key
\* starting with it; otherwise a key under the pattern (pattern + ".").
PatternMatches(pattern, field) ==
  \/ pattern = field
  \/ EndsWithDot(pattern) /\ IsStrictPrefix(Front(pattern), field)
  \/ ~EndsWithDot(pattern) /\ IsStrictPrefix(pattern, field)

\* getDeprecatedField: the first rule of the table that matches the key,
\* both compared in lower case.
getDeprecatedField(fieldName) ==
  LET field == ToLower(fieldName)
      i == SelectInSeq(deprecatedFieldsOnConfig,
                       LAMBDA r : PatternMatches(ToLower(r.pattern), field))
  IN IF i = 0 THEN NoDeprecatedField ELSE deprecatedFieldsOnConfig[i]

\* checkDeprecatedFields and AddDeprecatedField: every key with a rule is
\* filed under it; the error, if any key is, maps rules to their keys.
checkDeprecatedFields(keysOnConfig) ==
  LET rules == {getDeprecatedField(k) : k \in keysOnConfig} \ {NoDeprecatedField}
  IN [err |-> IF rules = {} THEN "nil" ELSE "DeprecatedFieldsError",
      fields |-> [r \in rules |-> {k \in keysOnConfig : getDeprecatedField(k) = r}]]

-----------------------------------------------------------------------------
(* Loading.                                                                *)

Fails == {"none", "read", "render", "saveMerged", "load", "saveFinal"}

\* Lines 311-319: the layers, in the order they are merged.
FileLayers(files, setDefaultVars) ==
  (IF setDefaultVars THEN <<DefaultMandatoryVars>> ELSE <<>>)
    \o <<DefaultVars, DefaultValues>> \o files

\* ConfigRender.Render: the merged text, as its set of keys.
Render(layers) == UNION {layers[i] : i \in DOMAIN layers}

\* loadString and LoadFileFromString: viper reads and decodes the text,
\* and only then are its keys (viper.AllKeys, in lower case) checked.
loadString(keys, fail) ==
  IF fail = "load" THEN [err |-> "ViperError", fields |-> <<>>]
  ELSE checkDeprecatedFields({ToLower(k) : k \in keys})

\* LoadFile: saves names the files written, merged and final.
LoadFile(files, savePath, setDefaultVars, allowDeprecatedFields, fail) ==
  LET keys == Render(FileLayers(files, setDefaultVars))
      merged == IF savePath THEN {"merged"} ELSE {}
      loaded == loadString(keys, fail)
      tolerated == allowDeprecatedFields /\ loaded.err = "DeprecatedFieldsError"
  IN CASE fail = "render" -> [err |-> "RenderError", fields |-> <<>>, saves |-> {}]
       [] savePath /\ fail = "saveMerged" ->
            [err |-> "SaveError", fields |-> <<>>, saves |-> {}]
       [] loaded.err /= "nil" /\ ~tolerated ->
            [err |-> loaded.err, fields |-> loaded.fields, saves |-> merged]
       [] savePath /\ fail = "saveFinal" ->
            [err |-> "SaveError", fields |-> <<>>, saves |-> merged]
       [] OTHER -> [err |-> "nil", fields |-> <<>>,
                    saves |-> merged \cup (IF savePath THEN {"final"} ELSE {})]

-----------------------------------------------------------------------------
(* One LoadFile call: Init chooses its arguments, one step runs it.        *)

VARIABLES
  loadCall, \* the arguments of the call: the user's keys, the flags, fail
  loaded    \* what LoadFile returned, or NotLoaded before it returns

loaderVars == <<loadCall, loaded>>

LoadCalls == [keys : SUBSET UserKeys, savePath : BOOLEAN, setDefaultVars : BOOLEAN,
              allowDeprecatedFields : BOOLEAN, fail : Fails]
NotLoaded == [err |-> "none", fields |-> <<>>, saves |-> {}]

LoaderInit == loadCall \in LoadCalls /\ loaded = NotLoaded

\* Load: readFiles' error is returned before LoadFile runs; otherwise the
\* flags are handed to LoadFile.
Load ==
  /\ loaded = NotLoaded
  /\ loaded' = IF loadCall.fail = "read"
               THEN [err |-> "ReadError", fields |-> <<>>, saves |-> {}]
               ELSE LoadFile(<<loadCall.keys>>, loadCall.savePath, loadCall.setDefaultVars,
                             loadCall.allowDeprecatedFields, loadCall.fail)
  /\ UNCHANGED loadCall

LoaderNext == Load

LoaderSpec == LoaderInit /\ [][LoaderNext]_loaderVars

-----------------------------------------------------------------------------
(* Properties.                                                             *)

\* The rule a reader of the table expects for a key: of the patterns at or
\* above the key, compared without case, the longest.
ExpectedDeprecation(k) ==
  LET above == {r \in Range(deprecatedFieldsOnConfig) :
                  IsPrefix(ToLower(r.pattern), ToLower(k))}
  IN IF above = {} THEN NoDeprecatedField
     ELSE CHOOSE r \in above : \A s \in above : Len(s.pattern) <= Len(r.pattern)

\* Load and LoadFile, over every set of user keys, flag and single failing
\* call:
\* it returns a configuration exactly when no call fails and either
\* deprecated fields are allowed or no key, of the user's or of a default
\* layer, lies under a deprecated pattern; a DeprecatedFieldsError files
\* every such key, and no other, under the most specific rule (so the hint
\* printed for NetworkConfig.L1.PolAddr is its own, not the section's);
\* and the final configuration is saved only when it is returned.
LoadFileReportsDeprecatedFields ==
  loaded /= NotLoaded =>
    LET c == loadCall
        all == Render(FileLayers(<<c.keys>>, c.setDefaultVars))
        deprecated == {k \in all : ExpectedDeprecation(k) /= NoDeprecatedField}
        ioFails == \/ c.fail \in {"read", "render", "load"}
                   \/ c.savePath /\ c.fail \in {"saveMerged", "saveFinal"}
    IN /\ (loaded.err = "nil") <=> (~ioFails /\ (c.allowDeprecatedFields \/ deprecated = {}))
       /\ loaded.err = "DeprecatedFieldsError" =>
            /\ UNION {loaded.fields[x] : x \in DOMAIN loaded.fields} = deprecated
            /\ \A x \in DOMAIN loaded.fields : \A k \in loaded.fields[x] : x = ExpectedDeprecation(k)
       /\ ("final" \in loaded.saves) <=> (loaded.err = "nil" /\ c.savePath)
=============================================================================
