-------------------------- MODULE Versions_proofs --------------------------
(***************************************************************************)
(* Three parsers of FMG's version text and that they agree.                *)
(***************************************************************************)
EXTENDS Versions, TLAPS

LEMMA FirstTwoTwice ==
    ASSUME NEW s \in Seq(Nat) PROVE FirstTwo(FirstTwo(s)) = FirstTwo(s)
<1>1. CASE Len(s) >= 2
  <2>1. FirstTwo(s) = <<s[1], s[2]>>
    BY <1>1 DEF FirstTwo
  <2>2. QED
    BY <2>1 DEF FirstTwo
<1>2. CASE ~(Len(s) >= 2)
  BY <1>2 DEF FirstTwo
<1>3. QED
  BY <1>1, <1>2

\* detect_version hands SystemStatus.major_minor, not the version FMG states, to the
\* registry, which parses it again: the key is the same as if it had not been cut
\* before, for every text.
THEOREM CutTwice ==
    ASSUME NEW t \in Texts PROVE Normalize(MajorMinor(t)) = Normalize(t)
<1>1. MajorMinor(t).parts = FirstTwo(t.parts) /\ t.parts \in Seq(Nat)
  BY DEF MajorMinor, Texts
<1>2. QED
  BY <1>1, FirstTwoTwice DEF Normalize

\* The adapter a device manager works with and the release it asks FMG to register a
\* new device with are taken from a version text by different code.  They agree on
\* every text that has a minor release.
THEOREM ParsersAgree ==
    ASSUME NEW t \in Texts, Len(t.parts) >= 2
    PROVE  ParseOsVersion(t) = Normalize(t)
<1>1. t.parts # <<>>
  <2>1. Len(<<>>) = 0
    OBVIOUS
  <2>2. QED
    BY <2>1
<1>2. ParseOsVersion(t) = <<t.parts[1], t.parts[2]>>
  BY <1>1 DEF ParseOsVersion
<1>3. QED
  BY <1>2 DEF Normalize, FirstTwo

\* However FMG spells a release, that release is what the registry is asked for.
THEOREM SpellingsAgree ==
    ASSUME NEW release \in Nat \X Nat, NEW t \in Spellings(release)
    PROVE  t \in Texts /\ Normalize(MajorMinor(t)) = release
<1>1. PICK a \in Nat, b \in Nat : release = <<a, b>>
  OBVIOUS
<1>2. t.parts \in {<<a, b>>, <<a, b, 6>>}
  BY <1>1 DEF Spellings
<1>3. t.parts \in Seq(Nat) /\ FirstTwo(t.parts) = <<a, b>>
  <2>1. CASE t.parts = <<a, b>>
    <3>1. <<a, b>> \in Seq(Nat) /\ FirstTwo(<<a, b>>) = <<a, b>>
      BY DEF FirstTwo
    <3>2. QED
      BY <2>1, <3>1
  <2>2. CASE t.parts = <<a, b, 6>>
    <3>1. <<a, b, 6>> \in Seq(Nat) /\ FirstTwo(<<a, b, 6>>) = <<a, b>>
      BY DEF FirstTwo
    <3>2. QED
      BY <2>2, <3>1
  <2>3. QED
    BY <1>2, <2>1, <2>2
<1>4. t \in Texts
  BY <1>3 DEF Texts, Spellings
<1>5. QED
  BY <1>1, <1>3, <1>4, CutTwice DEF Normalize

\* A status that states no version has no adapter: SystemStatus() is never taken for a
\* registered release (detect.py:39).
LEMMA NoVersion == Normalize(MajorMinor(NoText)) \notin Registered
<1>1. NoText.parts = <<>>
  BY Zenon DEF NoText
<1>2. MajorMinor(NoText).parts = FirstTwo(NoText.parts)
  BY Zenon DEF MajorMinor
<1>3. FirstTwo(<<>>) = <<>>
  <2>1. Len(<<>>) = 0
    OBVIOUS
  <2>2. QED
    BY <2>1 DEF FirstTwo
<1>4. Normalize(MajorMinor(NoText)) = <<>>
  BY <1>1, <1>2, <1>3 DEF Normalize
<1>5. <<>> # <<7, 2>> /\ <<>> # <<7, 4>> /\ <<>> # <<7, 6>>
  OBVIOUS
<1>6. QED
  BY <1>4, <1>5 DEF Registered
=============================================================================
