------------------------------- MODULE Versions -------------------------------
(***************************************************************************)
(* From the version FMG states to the adapter that speaks its dialect      *)
(* (core/models.py, versions/): pure functions, checked and used by         *)
(* ConfigManagers.                                                         *)
(*                                                                         *)
(* A version text such as "v7.6.5-build1234" is the record of a leading    *)
(* letter, its dotted parts and whether a dash suffix follows the last of  *)
(* them.  The suffix holds no dot.  The empty text has no parts.           *)
(***************************************************************************)
EXTENDS Naturals, Sequences

Texts == [prefix : {"", "v", "V"}, parts : Seq(Nat), build : BOOLEAN]

\* SystemStatus().version: the text of a status that states no version.
NoText == [prefix |-> "", parts |-> <<>>, build |-> FALSE]

\* Wrong variant (for testing the properties): the last part for the minor release.
FirstAndLast(parts) ==
    IF Len(parts) >= 2 THEN <<parts[1], parts[Len(parts)]>> ELSE parts

\* "X.Y" of "X.Y.Z"; a text without a dot stays what it is.
FirstTwo(parts) == IF Len(parts) >= 2 THEN <<parts[1], parts[2]>> ELSE parts

\* SystemStatus.major_minor: only a small "v" goes, and the suffix only with the
\* part it hangs on.
MajorMinor(t) ==
    [prefix |-> IF t.prefix = "v" THEN "" ELSE t.prefix,
     parts |-> FirstTwo(t.parts),
     build |-> t.build /\ Len(t.parts) <= 2]

\* AdapterRegistry._normalize: the key the registry is asked for.
Normalize(t) == FirstTwo(t.parts)

\* _parse_os_version: major and minor release as FMG wants them for a new device.
ParseOsVersion(t) ==
    IF t.parts = <<>> THEN <<7, 0>>
    ELSE <<t.parts[1], IF Len(t.parts) >= 2 THEN t.parts[2] ELSE 0>>

-----------------------------------------------------------------------------
(* The adapters *)

\* The keys v72.py, v74.py and v76.py register.
Registered == {<<7, 2>>, <<7, 4>>, <<7, 6>>}

\* BaseAdapter: where variables live, and the fields of a default and of an override.
BaseDialect == [space |-> "dynamic", default |-> "default-value", mapping |-> "local-value"]

\* Wrong variant: only the namespace has moved.
Dialect76Half == [space |-> "fmg", default |-> "value", mapping |-> "local-value"]

\* What FMG76Adapter overrides.
Dialect76 == [space |-> "fmg", default |-> "value", mapping |-> "value"]

\* AdapterRegistry.get: a registered key has an adapter, any other raises
\* VersionError.  Nothing stands in for a key that is not there.
Adapter(key) ==
    [label |-> key, dialect |-> IF key = <<7, 6>> THEN Dialect76 ELSE BaseDialect]

\* The texts FMG may state for a release: with a patch level or not, and so on.
Spellings(release) ==
    [prefix : {"", "v", "V"},
     parts : {<<release[1], release[2]>>, <<release[1], release[2], 6>>},
     build : BOOLEAN]
=============================================================================
