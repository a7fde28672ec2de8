----------------------- MODULE ConfigManagers_proofs -----------------------
(***************************************************************************)
(* For any workers, programs, releases and upgrades: the adapter that       *)
(* detect_version chose fits, no write of a manager disappears silently,    *)
(* and an error has its reason.                                             *)
(***************************************************************************)
EXTENDS ConfigManagers, Versions_proofs, FiniteSetTheorems, WellFoundedInduction

-----------------------------------------------------------------------------
(* sorted(set(names)) *)

LEMMA LeastElement ==
    ASSUME NEW S \in SUBSET Nat, S # {}
    PROVE  \E m \in S : \A n \in S : m <= n
<1>1. PICK m \in S : \A n \in S : ~(<<n, m>> \in OpToRel(<, Nat))
  BY NatLessThanWellFounded, WFMin
<1>2. \A n \in S : ~(n < m)
  BY <1>1 DEF OpToRel
<1>3. QED
  BY <1>2

Sorts(s, S) ==
    /\ s \in [1 .. Cardinality(S) -> S]
    /\ \A i, j \in DOMAIN s : i < j => s[i] < s[j]

\* Every finite set of numbers can be sorted; the least that could not be would not be
\* empty, and what it is without its least element can.
LEMMA Sortable ==
    ASSUME NEW S \in SUBSET Nat, IsFiniteSet(S)
    PROVE  \E s : Sorts(s, S)
<1> DEFINE Bad == {n \in Nat : \E B \in SUBSET Nat :
                      /\ IsFiniteSet(B) /\ Cardinality(B) = n
                      /\ \A s : ~Sorts(s, B)}
<1>1. SUFFICES ASSUME Bad # {} PROVE FALSE
  <2>1. Cardinality(S) \in Nat
    BY FS_CardinalityType
  <2>2. Cardinality(S) \notin Bad
    BY <1>1
  <2>3. QED
    BY <2>1, <2>2
<1>2. PICK n \in Bad : \A k \in Bad : n <= k
  BY <1>1, LeastElement
<1>3. PICK B \in SUBSET Nat : /\ IsFiniteSet(B) /\ Cardinality(B) = n
                              /\ \A s : ~Sorts(s, B)
  BY <1>2
<1>4. n \in Nat
  BY <1>2
<1>5. B # {}
  <2>1. SUFFICES ASSUME B = {} PROVE FALSE
    OBVIOUS
  <2>2. Cardinality(B) = 0 /\ 1 .. 0 = {}
    BY <2>1, FS_EmptySet
  <2>3. Sorts([i \in 1 .. 0 |-> 0], B)
    BY <2>2 DEF Sorts
  <2>4. QED
    BY <1>3, <2>3
<1>6. PICK m \in B : \A b \in B : m <= b
  BY <1>3, <1>5, LeastElement
<1> DEFINE C == B \ {m}
<1>7. IsFiniteSet(C) /\ Cardinality(C) = n - 1 /\ n - 1 \in Nat
  <2>1. IsFiniteSet(C) /\ Cardinality(C) = n - 1
    BY <1>3, <1>6, FS_RemoveElement
  <2>2. QED
    BY <2>1, FS_CardinalityType
<1>8. PICK s : Sorts(s, C)
  <2>1. n - 1 \notin Bad
    BY <1>2, <1>4
  <2>2. QED
    BY <1>3, <1>7, <2>1
<1> DEFINE t == [i \in 1 .. n |-> IF i = 1 THEN m ELSE s[i - 1]]
<1>9. Sorts(t, B)
  <2>1. s \in [1 .. n - 1 -> C] /\ \A i, j \in 1 .. n - 1 : i < j => s[i] < s[j]
    BY <1>7, <1>8 DEF Sorts
  <2>2. \A i \in 1 .. n : i # 1 => i - 1 \in 1 .. n - 1 /\ s[i - 1] \in C
    BY <1>4, <2>1
  <2>3. t \in [1 .. n -> B]
    BY <1>6, <2>2
  <2>4. \A c \in C : m < c
    BY <1>3, <1>6
  <2>5. ASSUME NEW i \in 1 .. n, NEW j \in 1 .. n, i < j PROVE t[i] < t[j]
    <3>1. j # 1 /\ t[j] = s[j - 1]
      BY <1>4, <2>5
    <3>2. CASE i = 1
      BY <2>2, <2>4, <3>1, <3>2
    <3>3. CASE i # 1
      BY <1>4, <2>1, <2>2, <2>5, <3>1, <3>3
    <3>4. QED
      BY <3>2, <3>3
  <2>6. QED
    BY <1>3, <2>3, <2>5 DEF Sorts
<1>10. QED
  BY <1>3, <1>9

\* sorted(set(...)) leaves no name out.
LEMMA AscendingOnto ==
    ASSUME NEW S \in SUBSET Nat, IsFiniteSet(S)
    PROVE  /\ Ascending(S) \in [1 .. Cardinality(S) -> S]
           /\ \A x \in S : \E i \in 1 .. Cardinality(S) : Ascending(S)[i] = x
<1> DEFINE s == Ascending(S)
<1>1. Cardinality(S) \in Nat
  BY FS_CardinalityType
<1>2. s \in [1 .. Cardinality(S) -> S] /\ \A i, j \in DOMAIN s : i < j => s[i] < s[j]
  BY Sortable DEF Ascending, Sorts
<1>3. s \in Injection(1 .. Cardinality(S), S)
  <2>1. ASSUME NEW i \in 1 .. Cardinality(S), NEW j \in 1 .. Cardinality(S), s[i] = s[j]
        PROVE  i = j
    <3>1. s[i] \in Nat /\ s[j] \in Nat
      BY <1>2
    <3>2. ~(i < j) /\ ~(j < i)
      BY <1>2, <2>1, <3>1
    <3>3. QED
      BY <1>1, <3>2
  <2>2. QED
    BY <1>2, <2>1 DEF Injection, IsInjective
<1>4. Cardinality(1 .. Cardinality(S)) = Cardinality(S)
  BY <1>1, FS_Interval
<1>5. s \in Surjection(1 .. Cardinality(S), S)
  BY <1>3, <1>4, FS_Injection
<1>6. QED
  BY <1>2, <1>5 DEF Surjection

-----------------------------------------------------------------------------
(* The requests of an operation *)

Dialects == {BaseDialect, Dialect76}

LEMMA Native76 ==
    ASSUME NEW r, NEW d \in Dialects, d.space = Native(r).space
    PROVE  d.default = Native(r).default /\ d.mapping = Native(r).mapping
  BY DEF Dialects, BaseDialect, Dialect76, Native

LEMMA NamesFinite ==
    ASSUME NEW o \in Operations, WellFormed(o)
    PROVE  /\ NamesOf(o) \in SUBSET Names /\ NamesOf(o) \in SUBSET Nat
           /\ IsFiniteSet(NamesOf(o)) /\ Cardinality(NamesOf(o)) \in Nat \ {0}
<1> DEFINE D == 1 .. Len(o.items)
           f == [i \in D |-> o.items[i][1]]
<1>1. o.items \in Seq(Names \X Values) /\ o.items # <<>>
  BY DEF Operations, WellFormed
<1>2. Len(o.items) \in Nat /\ D = DOMAIN o.items /\ \A i \in D : o.items[i] \in Names \X Values
  BY <1>1
<1>3. Len(o.items) # 0
  BY <1>1
<1>4. NamesOf(o) \in SUBSET Names
  BY <1>2 DEF NamesOf
<1>5. NamesOf(o) \in SUBSET Nat
  BY <1>4, ConfigAssumption
<1>6. f \in Surjection(D, NamesOf(o))
  <2>1. f \in [D -> NamesOf(o)]
    BY <1>2 DEF NamesOf
  <2>2. \A n \in NamesOf(o) : \E i \in D : f[i] = n
    BY <1>2 DEF NamesOf
  <2>3. QED
    BY <2>1, <2>2 DEF Surjection
<1>7. IsFiniteSet(NamesOf(o))
  BY <1>2, <1>6, FS_Interval, FS_Surjection
<1>8. NamesOf(o) # {}
  <2>1. o.items[1][1] \in NamesOf(o)
    BY <1>2, <1>3 DEF NamesOf
  <2>2. QED
    BY <2>1
<1>9. QED
  BY <1>4, <1>5, <1>7, <1>8, FS_CardinalityType, FS_EmptySet

\* What a manager of objects writes is no variable and no override of one.
LEMMA OfferedTables ==
    ASSUME NEW o \in Operations, WellFormed(o), o.kind \in ObjectKinds
    PROVE  o.table \in {"object", "child", "template"}
<1>1. <<o.kind, o.table>> \in Offered
  BY DEF WellFormed
<1>2. <<o.kind, o.table>> \notin MetafieldManager
  BY DEF MetafieldManager, ObjectKinds
<1>3. QED
  BY <1>1, <1>2
     DEF Offered, FirewallObjectManagers, BlueprintManager, CLITemplateManagers,
         PolicyPackageManager, ProvisioningTemplateManager

\* How many requests an operation is.
Count(o) ==
    IF o.kind = "ensureVariables" THEN Cardinality(NamesOf(o))
    ELSE IF o.kind = "setPerDevice" THEN Len(o.items)
    ELSE 1

\* The requests, one by one, are those of every dialect but for namespace and field.
LEMMA RequestsShape ==
    ASSUME NEW o \in Operations, WellFormed(o), NEW d
    PROVE  /\ Count(o) \in Nat \ {0}
           /\ DOMAIN Requests(d, o) = 1 .. Count(o)
           /\ Len(Requests(d, o)) = Count(o)
           /\ o.items[1] \in Names \X Values
<1>1. /\ o.items \in Seq(Names \X Values) /\ o.items # <<>>
      /\ o.kind \in MetaKinds \cup ObjectKinds
  BY DEF Operations, WellFormed
<1>2. Len(o.items) \in Nat \ {0} /\ DOMAIN o.items = 1 .. Len(o.items)
  BY <1>1
<1>3. o.items[1] \in Names \X Values
  BY <1>1, <1>2
<1>4. CASE o.kind = "ensureVariables"
  <2>1. Requests(d, o) = EnsureVariables(d, o)
    BY <1>4 DEF Requests
  <2>2. DOMAIN Ascending(NamesOf(o)) = 1 .. Cardinality(NamesOf(o))
    BY NamesFinite, AscendingOnto
  <2>3. EnsureVariables(d, o) =
          [i \in 1 .. Cardinality(NamesOf(o)) |->
              SetVariable(d, <<Ascending(NamesOf(o))[i], Empty>>)]
    BY <2>2 DEF EnsureVariables
  <2>4. QED
    BY <1>3, <1>4, <2>1, <2>3, NamesFinite DEF Count
<1>5. CASE o.kind = "setPerDevice"
  <2>1. Requests(d, o) = SetMappings(d, o.items)
    BY <1>5 DEF Requests
  <2>2. SetMappings(d, o.items) =
          [i \in 1 .. Len(o.items) |-> Ask("set", "mapping", o.items[i], d.space, d.mapping)]
    BY <1>2 DEF SetMappings
  <2>3. QED
    BY <1>2, <1>3, <1>5, <2>1, <2>2 DEF Count
<1>6. CASE o.kind \notin {"ensureVariables", "setPerDevice"}
  <2>1. \E q : Requests(d, o) = <<q>>
    BY <1>1, <1>6 DEF Requests, MetaKinds, ObjectKinds
  <2>2. Count(o) = 1
    BY <1>6 DEF Count
  <2>3. QED
    BY <1>3, <2>1, <2>2
<1>7. QED
  BY <1>4, <1>5, <1>6

LEMMA RequestIs ==
    ASSUME NEW o \in Operations, WellFormed(o), NEW d, NEW i \in 1 .. Count(o)
    PROVE  LET q == Requests(d, o)[i] IN
           /\ o.kind = "ensureVariables" =>
                /\ Ascending(NamesOf(o))[i] \in NamesOf(o)
                /\ q = SetVariable(d, <<Ascending(NamesOf(o))[i], Empty>>)
           /\ o.kind = "setPerDevice" =>
                /\ i \in DOMAIN o.items /\ o.items[i] \in Names \X Values
                /\ q = Ask("set", "mapping", o.items[i], d.space, d.mapping)
           /\ o.kind = "createIfMissing" => q = SetVariable(d, o.items[1])
           /\ o.kind = "getVariable" => q = Ask("get", "variable", o.items[1], d.space, "")
           /\ o.kind = "get" => q = ObjectRequest("get", o)
           /\ o.kind = "upsert" => q = ObjectRequest("set", o)
           /\ o.kind = "delete" => q = ObjectRequest("delete", o)
           /\ o.kind = "addMember" => q = ObjectRequest("add", o)
<1>1. /\ o.items \in Seq(Names \X Values) /\ o.items # <<>>
      /\ o.kind \in MetaKinds \cup ObjectKinds
  BY DEF Operations, WellFormed
<1>2. CASE o.kind = "ensureVariables"
  <2>1. /\ Ascending(NamesOf(o)) \in [1 .. Cardinality(NamesOf(o)) -> NamesOf(o)]
        /\ i \in 1 .. Cardinality(NamesOf(o))
    BY <1>2, NamesFinite, AscendingOnto DEF Count
  <2>2. Requests(d, o)[i] = SetVariable(d, <<Ascending(NamesOf(o))[i], Empty>>)
    BY <1>2, <2>1 DEF Requests, EnsureVariables
  <2>3. Ascending(NamesOf(o))[i] \in NamesOf(o)
    BY <2>1
  <2>4. QED
    BY <1>2, <2>2, <2>3
<1>3. CASE o.kind = "setPerDevice"
  <2>1. i \in DOMAIN o.items /\ o.items[i] \in Names \X Values
    BY <1>1, <1>3 DEF Count
  <2>2. Requests(d, o)[i] = Ask("set", "mapping", o.items[i], d.space, d.mapping)
    BY <1>3, <2>1 DEF Requests, SetMappings
  <2>3. QED
    BY <1>3, <2>1, <2>2
<1>4. CASE o.kind \notin {"ensureVariables", "setPerDevice"}
  <2>1. i = 1
    BY <1>4 DEF Count
  <2>2. QED
    BY <1>4, <2>1 DEF Requests
<1>5. QED
  BY <1>2, <1>3, <1>4

\* Every row an operation is to write has a request that writes it.
LEMMA Covered ==
    ASSUME NEW o \in Operations, WellFormed(o), NEW d, NEW x \in Asked(o)
    PROVE  \E i \in 1 .. Count(o) :
              Requests(d, o)[i].row = x[1] /\ Requests(d, o)[i].verb # "get"
<1>1. Count(o) \in Nat \ {0} /\ 1 \in 1 .. Count(o) /\ o.items[1] \in Names \X Values
  BY RequestsShape
<1>2. /\ o.items \in Seq(Names \X Values) /\ o.items # <<>>
      /\ o.kind \in MetaKinds \cup ObjectKinds
  BY DEF Operations, WellFormed
<1>3. CASE o.kind = "ensureVariables"
  <2>1. PICK n \in NamesOf(o) : x = <<<<"variable", n>>, Values>>
    BY <1>3 DEF Asked
  <2>2. PICK i \in 1 .. Cardinality(NamesOf(o)) : Ascending(NamesOf(o))[i] = n
    BY NamesFinite, AscendingOnto
  <2>3. i \in 1 .. Count(o)
    BY <1>3 DEF Count
  <2>4. Requests(d, o)[i] = SetVariable(d, <<n, Empty>>)
    BY <1>3, <2>2, <2>3, RequestIs
  <2>5. QED
    BY <2>1, <2>3, <2>4 DEF SetVariable, Ask
<1>4. CASE o.kind = "setPerDevice"
  <2>1. PICK i \in DOMAIN o.items :
           x = <<<<"mapping", o.items[i][1]>>, {o.items[i][2]}>>
    BY <1>4 DEF Asked
  <2>2. i \in 1 .. Count(o)
    BY <1>2, <1>4 DEF Count
  <2>3. Requests(d, o)[i] = Ask("set", "mapping", o.items[i], d.space, d.mapping)
    BY <1>4, <2>2, RequestIs
  <2>4. QED
    BY <2>1, <2>2, <2>3 DEF Ask
<1>5. CASE o.kind = "createIfMissing"
  <2>1. PICK n \in NamesOf(o) : x = <<<<"variable", n>>, Values>>
    BY <1>5 DEF Asked
  <2>2. Requests(d, o)[1] = SetVariable(d, o.items[1])
    BY <1>1, <1>5, RequestIs
  <2>3. n = o.items[1][1]
    <3>1. DOMAIN o.items = {1}
      BY <1>2, <1>5 DEF WellFormed
    <3>2. QED
      BY <3>1 DEF NamesOf
  <2>4. QED
    BY <1>1, <2>1, <2>2, <2>3 DEF SetVariable, Ask
<1>6. CASE o.kind \in {"upsert", "addMember"}
  <2>1. x = <<<<o.table, o.items[1][1]>>, {o.items[1][2]}>>
    BY <1>6 DEF Asked
  <2>2. \E verb \in {"set", "add"} : Requests(d, o)[1] = ObjectRequest(verb, o)
    BY <1>6 DEF Requests
  <2>3. QED
    BY <1>1, <2>1, <2>2 DEF ObjectRequest, Ask
<1>7. CASE o.kind = "delete"
  <2>1. x = <<<<o.table, o.items[1][1]>>, {Absent}>>
    BY <1>7 DEF Asked
  <2>2. Requests(d, o)[1] = ObjectRequest("delete", o)
    BY <1>7 DEF Requests
  <2>3. QED
    BY <1>1, <2>1, <2>2 DEF ObjectRequest, Ask
<1>8. CASE o.kind \in {"get", "getVariable"}
  BY <1>8 DEF Asked
<1>9. QED
  BY <1>2, <1>3, <1>4, <1>5, <1>6, <1>7, <1>8 DEF MetaKinds, ObjectKinds

LEMMA RequestType ==
    ASSUME NEW o \in Operations, WellFormed(o), NEW d, NEW i \in 1 .. Count(o)
    PROVE  /\ Requests(d, o)[i].row \in Rows
           /\ Requests(d, o)[i].value \in Values
<1>1. /\ o.kind \in MetaKinds \cup ObjectKinds /\ o.table \in Tables
      /\ o.items[1] \in Names \X Values
  BY RequestsShape DEF Operations
<1>2. Empty \in Values
  BY ConfigAssumption
<1>3. CASE o.kind = "ensureVariables"
  <2> DEFINE n == Ascending(NamesOf(o))[i]
  <2>1. n \in NamesOf(o) /\ Requests(d, o)[i] = SetVariable(d, <<n, Empty>>)
    BY <1>3, RequestIs
  <2>2. n \in Names
    BY <2>1, NamesFinite
  <2> HIDE DEF n
  <2>3. QED
    BY <1>2, <2>1, <2>2 DEF SetVariable, Ask, Rows, Tables
<1>4. CASE o.kind = "setPerDevice"
  <2>1. /\ o.items[i] \in Names \X Values
        /\ Requests(d, o)[i] = Ask("set", "mapping", o.items[i], d.space, d.mapping)
    BY <1>4, RequestIs
  <2>2. QED
    BY <2>1 DEF Ask, Rows, Tables
<1>5. CASE o.kind \notin {"ensureVariables", "setPerDevice"}
  <2>1. i = 1
    BY <1>5 DEF Count
  <2>2. CASE o.kind \in {"createIfMissing", "getVariable"}
    <3>1. \E verb, field :
             Requests(d, o)[1] = Ask(verb, "variable", o.items[1], d.space, field)
      BY <2>2 DEF Requests, SetVariable
    <3>2. /\ Requests(d, o)[1].row = <<"variable", o.items[1][1]>>
          /\ Requests(d, o)[1].value = o.items[1][2]
      BY <3>1 DEF Ask
    <3>3. QED
      BY <1>1, <2>1, <3>2 DEF Rows, Tables
  <2>3. CASE o.kind \in ObjectKinds
    <3>1. \E verb : Requests(d, o)[1] = ObjectRequest(verb, o)
      BY <2>3 DEF Requests, ObjectKinds
    <3>2. QED
      BY <1>1, <2>1, <3>1 DEF ObjectRequest, Ask, Rows
  <2>4. QED
    BY <1>1, <1>5, <2>2, <2>3 DEF MetaKinds
<1>6. QED
  BY <1>3, <1>4, <1>5

StoreOK == store \in [Rows -> Values \cup {Absent}]
LastOK == last \in [Rows -> (Workers \X (Nat \ {0})) \cup {<<>>}]

\* What operation k of worker w, if it was the last to write a row, has left there.
Kept(w, k, o) == \A x \in Asked(o) : last[x[1]] = <<w, k>> => store[x[1]] \in x[2]

\* A write that is not refused says what the operation asks for: a dialect that has
\* the right namespace has the right fields.
LEMMA Faithful ==
    ASSUME NEW o \in Operations, WellFormed(o), NEW d \in Dialects,
           NEW i \in 1 .. Count(o), StoreOK, ~Misses(Requests(d, o)[i]),
           NEW x \in Asked(o), x[1] \in Written(Requests(d, o)[i])
    PROVE  IF Requests(d, o)[i].verb = "delete" THEN Absent \in x[2]
           ELSE Put(Requests(d, o)[i]) \in x[2]
<1>1. /\ o.kind \in MetaKinds \cup ObjectKinds /\ o.table \in Tables
      /\ o.items[1] \in Names \X Values
  BY RequestsShape DEF Operations
<1> DEFINE q == Requests(d, o)[i]
<1>2. q.row \in Rows /\ q.value \in Values /\ Empty \in Values
  BY RequestType, ConfigAssumption
<1>3. Put(q) \in Values
  <2>1. store[q.row] \in Values \cup {Absent}
    BY <1>2 DEF StoreOK
  <2> HIDE DEF q
  <2>2. QED
    BY <1>2, <2>1 DEF Put
<1>4. CASE o.kind \in {"ensureVariables", "createIfMissing"}
  <2>1. x[2] = Values
    BY <1>4 DEF Asked
  <2>2. \E n : q = SetVariable(d, n)
    <3>1. CASE o.kind = "ensureVariables"
      <4>1. q = SetVariable(d, <<Ascending(NamesOf(o))[i], Empty>>)
        BY <3>1, RequestIs
      <4>2. QED
        BY <4>1
    <3>2. CASE o.kind = "createIfMissing"
      BY <3>2, RequestIs
    <3>3. QED
      BY <1>4, <3>1, <3>2
  <2>3. q.verb = "set"
    BY <2>2 DEF SetVariable, Ask
  <2>4. QED
    BY <1>3, <2>1, <2>3
<1>5. CASE o.kind = "setPerDevice"
  <2>1. /\ i \in DOMAIN o.items
        /\ q = Ask("set", "mapping", o.items[i], d.space, d.mapping)
    BY <1>5, RequestIs
  <2>2. /\ q.verb = "set" /\ q.row = <<"mapping", o.items[i][1]>> /\ q.space = d.space
        /\ q.field = d.mapping /\ q.value = o.items[i][2]
    BY <2>1 DEF Ask
  <2>3. PICK j \in DOMAIN o.items : x = <<<<"mapping", o.items[j][1]>>, {o.items[j][2]}>>
    BY <1>5 DEF Asked
  <2>4. x[1] = q.row
    BY <2>2 DEF Written
  <2>5. o.items[i][1] = o.items[j][1]
    BY <2>2, <2>3, <2>4
  <2>6. i = j
    BY <1>5, <2>1, <2>5 DEF WellFormed
  <2>7. d.space = Native(release).space
    BY <2>2 DEF Misses
  <2>8. q.field = Field(q.row)
    BY <2>2, <2>7, Native76 DEF Field
  <2>9. QED
    BY <2>2, <2>3, <2>6, <2>8 DEF Put
<1>6. CASE o.kind \in {"upsert", "addMember"}
  <2>1. i = 1
    BY <1>6 DEF Count
  <2>2. \E verb \in {"set", "add"} : q = ObjectRequest(verb, o)
    BY <1>6, <2>1 DEF Requests
  <2>3. /\ q.verb \in {"set", "add"} /\ q.row = <<o.table, o.items[1][1]>>
        /\ q.space = "any" /\ q.value = o.items[1][2]
        /\ q.field = IF o.table = "template" THEN "typed" ELSE "plain"
    BY <2>2 DEF ObjectRequest, Ask, SharedSpace
  <2>4. o.table \notin {"variable", "mapping"}
    BY <2>3 DEF Misses, Native
  <2>5. q.field = Field(q.row)
    BY <1>1, <2>3, <2>4 DEF Field, Tables
  <2>6. x = <<<<o.table, o.items[1][1]>>, {o.items[1][2]}>>
    BY <1>6 DEF Asked
  <2>7. QED
    BY <2>3, <2>5, <2>6 DEF Put
<1>7. CASE o.kind = "delete"
  <2>1. i = 1
    BY <1>7 DEF Count
  <2>2. q = ObjectRequest("delete", o)
    BY <1>7, <2>1 DEF Requests
  <2>3. q.verb = "delete"
    BY <2>2 DEF ObjectRequest, Ask
  <2>4. x[2] = {Absent}
    BY <1>7 DEF Asked
  <2>5. QED
    BY <2>3, <2>4
<1>8. CASE o.kind \in {"get", "getVariable"}
  BY <1>8 DEF Asked
<1>9. QED
  BY <1>1, <1>4, <1>5, <1>6, <1>7, <1>8 DEF MetaKinds, ObjectKinds

\* What FMG's execution of a request does to the rows and to who wrote them.
LEMMA Executed ==
    ASSUME NEW o \in Operations, WellFormed(o), NEW d \in Dialects,
           NEW i \in 1 .. Count(o), NEW w \in Workers, NEW k \in Nat \ {0},
           NEW a \in ServerAnswers, StoreOK, LastOK, Execute(w, k, Requests(d, o)[i], a)
    PROVE  /\ StoreOK' /\ LastOK' /\ UNCHANGED <<release, device>>
           /\ \A r \in Rows : \/ last'[r] = last[r] /\ store'[r] = store[r]
                              \/ /\ last'[r] = <<w, k>> /\ a = "ok"
                                 /\ r \in Written(Requests(d, o)[i])
           /\ a = "ok" /\ Requests(d, o)[i].verb # "get" =>
                 last'[Requests(d, o)[i].row] = <<w, k>>
           /\ Kept(w, k, o) => Kept(w, k, o)'
<1> DEFINE q == Requests(d, o)[i]
<1>1. q.row \in Rows /\ q.value \in Values /\ Empty \in Values
  BY RequestType, ConfigAssumption
<1>2. CASE UNCHANGED fmgVars /\ a # "ok"
  BY <1>2 DEF fmgVars, StoreOK, LastOK, Kept
<1>3. CASE /\ a = "ok" /\ ~Misses(q) /\ UNCHANGED <<release, device>>
           /\ store' = [r \in Rows |->
                          IF r \notin Written(q) THEN store[r]
                          ELSE IF q.verb = "delete" THEN Absent ELSE Put(q)]
           /\ last' = [r \in Rows |-> IF r \in Written(q) THEN <<w, k>> ELSE last[r]]
  <2>1. Put(q) \in Values
    <3>1. store[q.row] \in Values \cup {Absent}
      BY <1>1 DEF StoreOK
    <3> HIDE DEF q
    <3>2. QED
      BY <1>1, <3>1 DEF Put
  <2>2. StoreOK' /\ LastOK'
    BY <1>3, <2>1 DEF StoreOK, LastOK
  <2>3. ASSUME NEW r \in Rows
        PROVE  \/ last'[r] = last[r] /\ store'[r] = store[r]
               \/ last'[r] = <<w, k>> /\ a = "ok" /\ r \in Written(q)
    <3> HIDE DEF q
    <3>1. CASE r \in Written(q)
      BY <1>3, <3>1
    <3>2. CASE r \notin Written(q)
      BY <1>3, <3>2
    <3>3. QED
      BY <3>1, <3>2
  <2>4. q.verb # "get" => q.row \in Written(q)
    BY <1>1 DEF Written
  <2>5. q.verb # "get" => last'[q.row] = <<w, k>>
    BY <1>1, <1>3, <2>4
  <2>6. ASSUME Kept(w, k, o), NEW x \in Asked(o), last'[x[1]] = <<w, k>>
        PROVE  store'[x[1]] \in x[2]
    <3>1. x[1] \in Rows
      <4>1. PICK j \in 1 .. Count(o) : Requests(d, o)[j].row = x[1]
        BY Covered
      <4>2. QED
        BY <4>1, RequestType
    <3>2. CASE x[1] \in Written(q)
      <4>1. IF q.verb = "delete" THEN Absent \in x[2] ELSE Put(q) \in x[2]
        BY <1>3, <3>2, Faithful
      <4>2. store'[x[1]] = IF q.verb = "delete" THEN Absent ELSE Put(q)
        BY <1>3, <3>1, <3>2
      <4>3. QED
        BY <4>1, <4>2
    <3>3. CASE x[1] \notin Written(q)
      BY <1>3, <2>6, <3>1, <3>3 DEF Kept
    <3>4. QED
      BY <3>2, <3>3
  <2>7. QED
    BY <1>3, <2>2, <2>3, <2>5, <2>6 DEF Kept
<1>4. QED
  BY <1>2, <1>3 DEF Execute

-----------------------------------------------------------------------------
(* The inductive invariant *)

\* Where the workers are, and that a request belongs to an operation that its worker
\* has begun, with the adapter it has for good.
Course ==
    /\ \A w \in Workers :
          /\ pc[w] = "idle" <=> program[w] = <<>>
          /\ program[w] # <<>> => program[w] \in Programs[w]
          /\ pc[w] \in {"idle", "detect"} =>
                adapter[w] = NoAdapter /\ at[w] = 1 /\ nth[w] = 1
          /\ pc[w] \in {"call", "returned"} => adapter[w] # NoAdapter
          /\ adapter[w] # NoAdapter =>
                at[w] \in DOMAIN program[w] /\ nth[w] \in 1 .. Count(Current(w))
          /\ adapter[w] = NoAdapter => at[w] = 1
    /\ \A l \in late :
          /\ adapter[l[1]] # NoAdapter
          /\ l[2] \in DOMAIN program[l[1]] /\ l[3] \in 1 .. Count(program[l[1]][l[2]])
          /\ l[2] <= at[l[1]] /\ (l[2] = at[l[1]] => l[3] <= nth[l[1]])
    /\ \A r \in Rows : last[r] # <<>> =>
          adapter[last[r][1]] # NoAdapter /\ last[r][2] <= at[last[r][1]]

\* What is behind a worker has been written, and what nobody has written since is what
\* was asked for.
Effects ==
    \A w \in Workers :
        /\ \A k \in DOMAIN program[w] :
              /\ Kept(w, k, program[w][k])
              /\ Through(w, k) => \A x \in Asked(program[w][k]) : last[x[1]] # <<>>
        /\ adapter[w] # NoAdapter =>
              \A i \in 1 .. nth[w] :
                  /\ i < nth[w] \/ (pc[w] = "call" /\ reply[w] = "ok")
                  /\ RequestsOf(w)[i].verb # "get"
                  => last[RequestsOf(w)[i].row] # <<>>

\* The current set_per_device has not written an override it has not come to.
Order ==
    \A w \in Workers :
        adapter[w] # NoAdapter /\ Current(w).kind = "setPerDevice" =>
            \A i \in DOMAIN Current(w).items :
                i > nth[w] => last[<<"mapping", Current(w).items[i][1]>>] # <<w, at[w]>>

\* What was true of FMG's release is true of it or of a release it was upgraded from; and
\* what answers the status call may get.
Fits ==
    \A w \in Workers :
        /\ told[w] # <<>> => HasRun(told[w])
        /\ pc[w] = "idle" => reply[w] = "none"
        /\ pc[w] = "detect" => reply[w] \in {"none", "ok", "refused"}
        /\ adapter[w] # NoAdapter => HasRun(adapter[w].label)

IInv == TypeOK /\ Course /\ Effects /\ Order /\ Fits

\* The operation a worker with an adapter has begun, and the adapter.
LEMMA Begun ==
    ASSUME TypeOK, Course, NEW w \in Workers, NEW k \in DOMAIN program[w]
    PROVE  /\ program[w][k] \in Operations /\ WellFormed(program[w][k])
           /\ k \in Nat \ {0} /\ program[w] \in Programs[w]
<1>1. program[w] \in Seq(Operations)
  BY DEF TypeOK
<1>2. k \in Nat \ {0} /\ program[w][k] \in Operations /\ program[w] # <<>>
  BY <1>1
<1>3. program[w] \in Programs[w]
  BY <1>2 DEF Course
<1>4. QED
  BY <1>2, <1>3, ConfigAssumption

LEMMA AdapterDialect ==
    ASSUME TypeOK, NEW w \in Workers PROVE adapter[w].dialect \in Dialects
<1>1. adapter[w] \in {NoAdapter} \cup {Adapter(k) : k \in Registered}
  BY DEF TypeOK
<1>2. NoAdapter.dialect \in Dialects
  BY DEF NoAdapter, Dialects
<1>3. ASSUME NEW k PROVE Adapter(k).dialect \in Dialects
  BY DEF Adapter, Dialects
<1>4. QED
  BY <1>1, <1>2, <1>3

LEMMA InitInv == Init => IInv
<1> SUFFICES ASSUME Init PROVE IInv
  OBVIOUS
<1>1. TypeOK
  BY ConfigAssumption
     DEF Init, TypeOK, Rows, Tables, Labels, ServerAnswers, Errors
<1>2. Course
  BY DEF Init, Course
<1>3. Effects
  BY DEF Init, Effects
<1>4. Order
  BY DEF Init, Order
<1>5. Fits
  BY DEF Init, Fits
<1>6. QED
  BY <1>1, <1>2, <1>3, <1>4, <1>5 DEF IInv

\* The types; that a worker is at a request of its operation follows from Course'.
Types ==
    /\ release \in Nat \X Nat
    /\ device \in BOOLEAN
    /\ StoreOK
    /\ LastOK
    /\ program \in [Workers -> Seq(Operations)]
    /\ pc \in [Workers -> Labels]
    /\ at \in [Workers -> Nat \ {0}]
    /\ nth \in [Workers -> Nat \ {0}]
    /\ told \in [Workers -> (Nat \X Nat) \cup {<<>>}]
    /\ adapter \in [Workers -> {NoAdapter} \cup {Adapter(k) : k \in Registered}]
    /\ reply \in [Workers -> ServerAnswers \cup {"none"}]
    /\ result \in [Workers -> {"none", "done"} \cup Errors]
    /\ late \subseteq Workers \X (Nat \ {0}) \X (Nat \ {0})

LEMMA TypesOfTypeOK == TypeOK => Types
  BY DEF TypeOK, Types, StoreOK, LastOK

LEMMA TypeOKOfTypes == Types /\ Course => TypeOK
<1> SUFFICES ASSUME Types, Course, NEW w \in Workers, pc[w] \in {"call", "returned"}
             PROVE  at[w] \in DOMAIN program[w] /\ nth[w] \in DOMAIN RequestsOf(w)
  BY DEF TypeOK, Types, StoreOK, LastOK
<1>1. at[w] \in DOMAIN program[w] /\ nth[w] \in 1 .. Count(Current(w))
  BY DEF Course
<1>2. program[w] \in Seq(Operations) /\ program[w] # <<>>
  BY <1>1 DEF Types
<1>3. program[w] \in Programs[w]
  BY <1>2 DEF Course
<1>4. Current(w) \in Operations /\ WellFormed(Current(w))
  BY <1>1, <1>2, <1>3, ConfigAssumption DEF Current
<1>5. DOMAIN RequestsOf(w) = 1 .. Count(Current(w))
  BY <1>4, RequestsShape DEF RequestsOf
<1>6. QED
  BY <1>1, <1>5

LEMMA TypeOKNext == Types' /\ Course' => TypeOK'
  BY TypeOKOfTypes, PTL

LEMMA AskedRows ==
    ASSUME NEW o \in Operations, WellFormed(o), NEW x \in Asked(o) PROVE x[1] \in Rows
<1>1. PICK j \in 1 .. Count(o) : Requests(BaseDialect, o)[j].row = x[1]
  BY Covered
<1>2. QED
  BY <1>1, RequestType

-----------------------------------------------------------------------------
(* A request is executed *)

LastCourse ==
    \A r \in Rows : last[r] # <<>> =>
        adapter[last[r][1]] # NoAdapter /\ last[r][2] <= at[last[r][1]]

LEMMA Execution ==
    ASSUME IInv, NEW w \in Workers, adapter[w] # NoAdapter, NEW k \in DOMAIN program[w],
           NEW i \in 1 .. Count(program[w][k]), k <= at[w], k = at[w] => i <= nth[w],
           NEW a \in ServerAnswers,
           Execute(w, k, Requests(adapter[w].dialect, program[w][k])[i], a),
           UNCHANGED <<program, at, nth, adapter>>
    PROVE  /\ StoreOK' /\ LastOK' /\ LastCourse' /\ Order'
           /\ UNCHANGED <<release, device>>
           /\ \A v \in Workers : \A m \in DOMAIN program[v] : Kept(v, m, program[v][m])'
           /\ \A r \in Rows : last[r] # <<>> => last'[r] # <<>>
           /\ a = "ok" /\ Requests(adapter[w].dialect, program[w][k])[i].verb # "get" =>
                 last'[Requests(adapter[w].dialect, program[w][k])[i].row] # <<>>
<1>0. PICK o, d : o = program[w][k] /\ d = adapter[w].dialect
  OBVIOUS
<1> DEFINE q == Requests(d, o)[i]
<1>1. StoreOK /\ LastOK /\ Types
  BY TypesOfTypeOK DEF Types, IInv
<1>2. o \in Operations /\ WellFormed(o) /\ k \in Nat \ {0}
  BY <1>0, Begun DEF IInv
<1>3. d \in Dialects
  BY <1>0, AdapterDialect DEF IInv
<1>4. /\ StoreOK' /\ LastOK' /\ UNCHANGED <<release, device>>
      /\ \A r \in Rows : \/ last'[r] = last[r] /\ store'[r] = store[r]
                         \/ last'[r] = <<w, k>> /\ a = "ok" /\ r \in Written(q)
      /\ a = "ok" /\ q.verb # "get" => last'[q.row] = <<w, k>>
      /\ Kept(w, k, o) => Kept(w, k, o)'
  <2>1. i \in 1 .. Count(o)
    BY <1>0
  <2>2. Execute(w, k, Requests(d, o)[i], a)
    BY <1>0
  <2>3. QED
    BY <1>1, <1>2, <1>3, <2>1, <2>2, Executed
<1> HIDE DEF q
<1> USE DEF IInv
<1>5. <<w, k>> # <<>>
  OBVIOUS
<1>6. LastCourse'
  <2> SUFFICES ASSUME NEW r \in Rows, last'[r] # <<>>
               PROVE  adapter[last'[r][1]] # NoAdapter /\ last'[r][2] <= at[last'[r][1]]
    BY DEF LastCourse
  <2>1. CASE last'[r] = last[r]
    BY <2>1 DEF Course
  <2>2. CASE last'[r] = <<w, k>>
    BY <2>2
  <2>3. QED
    BY <1>4, <2>1, <2>2
<1>7. ASSUME NEW v \in Workers, NEW m \in DOMAIN program[v]
      PROVE  Kept(v, m, program[v][m])'
  <2>1. Kept(v, m, program[v][m])
    BY DEF Effects
  <2>2. CASE v = w /\ m = k
    BY <1>0, <1>4, <2>1, <2>2
  <2>3. CASE ~(v = w /\ m = k)
    <3> SUFFICES ASSUME NEW x \in Asked(program[v][m]), last'[x[1]] = <<v, m>>
                 PROVE  store'[x[1]] \in x[2]
      BY DEF Kept
    <3>1. x[1] \in Rows
      BY Begun, AskedRows
    <3>2. last'[x[1]] = last[x[1]] /\ store'[x[1]] = store[x[1]]
      BY <1>4, <2>3, <3>1
    <3>3. QED
      BY <2>1, <3>2 DEF Kept
  <2>4. QED
    BY <2>2, <2>3
<1>8. \A r \in Rows : last[r] # <<>> => last'[r] # <<>>
  BY <1>4, <1>5
<1>9. Order'
  <2> SUFFICES ASSUME NEW v \in Workers, adapter[v] # NoAdapter,
                      Current(v).kind = "setPerDevice",
                      NEW j \in DOMAIN Current(v).items, j > nth[v]
               PROVE  last'[<<"mapping", Current(v).items[j][1]>>] # <<v, at[v]>>
    BY DEF Order, Current
  <2> DEFINE r == <<"mapping", Current(v).items[j][1]>>
  <2>1. at[v] \in DOMAIN program[v]
    BY DEF Course
  <2>2. Current(v) \in Operations /\ WellFormed(Current(v))
    BY <2>1, Begun DEF Current
  <2>3. Current(v).items \in Seq(Names \X Values)
    BY <2>2 DEF Operations
  <2>4. r \in Rows
    BY <2>3 DEF Rows, Tables
  <2>5. last[r] # <<v, at[v]>>
    BY DEF Order
  <2>6. CASE v = w /\ k = at[w]
    <3>1. o = Current(v)
      BY <1>0, <2>6 DEF Current
    <3>2. q = Ask("set", "mapping", o.items[i], d.space, d.mapping) /\ i \in DOMAIN o.items
      BY <1>0, <1>2, <3>1, RequestIs DEF q
    <3>3. Written(q) = {<<"mapping", o.items[i][1]>>}
      BY <3>2 DEF Written, Ask
    <3>4. i # j
      BY <2>3, <2>6, <3>1, <3>2, <1>1 DEF Types
    <3>5. o.items[i][1] # o.items[j][1]
      BY <2>2, <3>1, <3>2, <3>4 DEF WellFormed
    <3>6. r \notin Written(q)
      BY <3>1, <3>3, <3>5
    <3>7. QED
      BY <1>4, <2>4, <2>5, <3>6
  <2>7. CASE ~(v = w /\ k = at[w])
    <3>1. <<w, k>> # <<v, at[v]>>
      BY <2>7
    <3>2. QED
      BY <1>4, <2>4, <2>5, <3>1
  <2>8. QED
    BY <2>6, <2>7
<1>10. QED
  BY <1>0, <1>4, <1>5, <1>6, <1>7, <1>8, <1>9 DEF q

\* What is written stays written while the workers stay where they are.
LEMMA EffectsStay ==
    ASSUME IInv, UNCHANGED <<program, pc, at, nth, adapter>>,
           \A v \in Workers : \A m \in DOMAIN program[v] : Kept(v, m, program[v][m])',
           \A r \in Rows : last[r] # <<>> => last'[r] # <<>>,
           \A v \in Workers : pc[v] = "call" /\ reply'[v] = "ok" =>
               \/ reply[v] = "ok"
               \/ RequestsOf(v)[nth[v]].verb = "get"
               \/ last'[RequestsOf(v)[nth[v]].row] # <<>>
    PROVE  Effects'
<1> USE DEF IInv
<1> SUFFICES ASSUME NEW v \in Workers
             PROVE  /\ \A k \in DOMAIN program[v] :
                          Through(v, k) => \A x \in Asked(program[v][k]) : last'[x[1]] # <<>>
                    /\ adapter[v] # NoAdapter =>
                          \A i \in 1 .. nth[v] :
                              /\ i < nth[v] \/ (pc[v] = "call" /\ reply'[v] = "ok")
                              /\ RequestsOf(v)[i].verb # "get"
                              => last'[RequestsOf(v)[i].row] # <<>>
  BY DEF Effects, Through, RequestsOf, Current
<1>1. ASSUME NEW k \in DOMAIN program[v], Through(v, k), NEW x \in Asked(program[v][k])
      PROVE  last'[x[1]] # <<>>
  <2>1. x[1] \in Rows
    BY Begun, AskedRows
  <2>2. last[x[1]] # <<>>
    BY <1>1 DEF Effects
  <2>3. QED
    BY <2>1, <2>2
<1>2. ASSUME adapter[v] # NoAdapter, NEW i \in 1 .. nth[v],
             i < nth[v] \/ (pc[v] = "call" /\ reply'[v] = "ok"),
             RequestsOf(v)[i].verb # "get"
      PROVE  last'[RequestsOf(v)[i].row] # <<>>
  <2>1. /\ at[v] \in DOMAIN program[v] /\ nth[v] \in 1 .. Count(Current(v))
    BY <1>2 DEF Course
  <2>2. Current(v) \in Operations /\ WellFormed(Current(v))
    BY <2>1, Begun DEF Current
  <2>3. Count(Current(v)) \in Nat
    BY <2>2, RequestsShape
  <2>4. i \in 1 .. Count(Current(v))
    BY <2>1, <2>3
  <2>5. RequestsOf(v)[i].row \in Rows
    BY <2>2, <2>4, RequestType DEF RequestsOf
  <2>6. CASE i < nth[v] \/ reply[v] = "ok"
    <3>1. last[RequestsOf(v)[i].row] # <<>>
      BY <1>2, <2>6 DEF Effects
    <3>2. QED
      BY <2>5, <3>1
  <2>7. CASE ~(i < nth[v] \/ reply[v] = "ok")
    <3>1. i = nth[v]
      BY <2>1, <2>3, <2>7
    <3>2. QED
      BY <1>2, <2>7, <3>1
  <2>8. QED
    BY <2>6, <2>7
<1>3. QED
  BY <1>1, <1>2

LEMMA ServeRequestStep ==
    ASSUME IInv, NEW w \in Workers, ServeRequest(w) PROVE IInv'
<1> USE DEF IInv
<1>1. PICK a \in ServerAnswers :
         /\ reply' = [reply EXCEPT ![w] = a]
         /\ Execute(w, at[w], RequestsOf(w)[nth[w]], a)
  BY DEF ServeRequest
<1>2. /\ pc[w] = "call"
      /\ UNCHANGED <<program, pc, at, nth, told, adapter, result, late>>
  BY DEF ServeRequest
<1>3. /\ adapter[w] # NoAdapter /\ at[w] \in DOMAIN program[w]
      /\ nth[w] \in 1 .. Count(Current(w)) /\ at[w] \in Nat /\ nth[w] \in Nat
  BY <1>2, TypesOfTypeOK DEF Course, Types
<1>4. /\ StoreOK' /\ LastOK' /\ LastCourse' /\ Order'
      /\ UNCHANGED <<release, device>>
      /\ \A v \in Workers : \A m \in DOMAIN program[v] : Kept(v, m, program[v][m])'
      /\ \A r \in Rows : last[r] # <<>> => last'[r] # <<>>
      /\ a = "ok" /\ RequestsOf(w)[nth[w]].verb # "get" =>
            last'[RequestsOf(w)[nth[w]].row] # <<>>
  BY <1>1, <1>2, <1>3, Execution DEF RequestsOf, Current
<1>5. Types'
  BY <1>1, <1>2, <1>4, TypesOfTypeOK DEF Types
<1>6. Course'
  BY <1>2, <1>4 DEF Course, LastCourse, Current
<1>7. Effects'
  <2>1. \A v \in Workers : pc[v] = "call" /\ reply'[v] = "ok" =>
           \/ reply[v] = "ok"
           \/ RequestsOf(v)[nth[v]].verb = "get"
           \/ last'[RequestsOf(v)[nth[v]].row] # <<>>
    BY <1>1, <1>4, TypesOfTypeOK DEF Types
  <2>2. QED
    BY <1>2, <1>4, <2>1, EffectsStay
<1>8. Fits'
  BY <1>1, <1>2, <1>4, TypesOfTypeOK DEF Fits, HasRun, Types
<1>9. QED
  BY <1>4, <1>5, <1>6, <1>7, <1>8, TypeOKNext

LEMMA ServeLateStep ==
    ASSUME IInv, NEW l \in late, ServeLate(l) PROVE IInv'
<1> USE DEF IInv
<1>1. l \in Workers \X (Nat \ {0}) \X (Nat \ {0})
  BY TypesOfTypeOK DEF Types
<1>2. PICK w \in Workers, k \in Nat \ {0}, i \in Nat \ {0} : l = <<w, k, i>>
  BY <1>1
<1>3. PICK a \in ServerAnswers :
         Execute(w, k, Requests(adapter[w].dialect, program[w][k])[i], a)
  BY <1>2 DEF ServeLate
<1>4. /\ late' = late \ {l}
      /\ UNCHANGED <<program, pc, at, nth, told, adapter, reply, result>>
  BY DEF ServeLate
<1>5. /\ adapter[w] # NoAdapter /\ k \in DOMAIN program[w]
      /\ i \in 1 .. Count(program[w][k]) /\ k <= at[w] /\ (k = at[w] => i <= nth[w])
  BY <1>2 DEF Course
<1>6. /\ StoreOK' /\ LastOK' /\ LastCourse' /\ Order'
      /\ UNCHANGED <<release, device>>
      /\ \A v \in Workers : \A m \in DOMAIN program[v] : Kept(v, m, program[v][m])'
      /\ \A r \in Rows : last[r] # <<>> => last'[r] # <<>>
  BY <1>3, <1>4, <1>5, Execution
<1>7. Types'
  BY <1>4, <1>6, TypesOfTypeOK DEF Types
<1>8. Course'
  BY <1>4, <1>6 DEF Course, LastCourse, Current
<1>9. Effects'
  BY <1>4, <1>6, EffectsStay
<1>10. Fits'
  BY <1>4, <1>6 DEF Fits, HasRun
<1>11. QED
  BY <1>6, <1>7, <1>8, <1>9, <1>10, TypeOKNext

-----------------------------------------------------------------------------
(* Steps that leave the rows alone *)

LEMMA Stay ==
    ASSUME IInv, UNCHANGED <<store, last, program, at, nth, adapter>>,
           \A v \in Workers : pc'[v] = "returned" => pc[v] = "returned",
           \A v \in Workers : pc'[v] = "call" => pc[v] = "call",
           \A v \in Workers : pc'[v] = "call" /\ reply'[v] = "ok" => reply[v] = "ok"
    PROVE  Effects' /\ Order'
<1>1. Effects'
  BY DEF IInv, Effects, Kept, Through, RequestsOf, Current
<1>2. Order'
  BY DEF IInv, Order, Current
<1>3. QED
  BY <1>1, <1>2

\* What FMG ran before an upgrade it has been upgraded from after it.
LEMMA UpgradeFrom ==
    ASSUME Upgrade, NEW r, HasRun(r) PROVE <<r, release'>> \in Upgrades
<1>1. PICK up \in Upgrades : release = up[1] /\ release' = up[2]
  BY DEF Upgrade
<1>2. up \in (Nat \X Nat) \X (Nat \X Nat) /\ up = <<release, release'>>
  BY <1>1, ConfigAssumption
<1>3. CASE release = r
  BY <1>2, <1>3
<1>4. CASE <<r, release>> \in Upgrades
  <2>1. <<r, release>>[2] = up[1]
    BY <1>1
  <2>2. <<<<r, release>>[1], up[2]>> \in Upgrades
    BY <1>4, <2>1, ConfigAssumption
  <2>3. QED
    BY <1>1, <2>2
<1>5. QED
  BY <1>3, <1>4 DEF HasRun

LEMMA UpgradeStep ==
    ASSUME IInv, Upgrade PROVE IInv'
<1> USE DEF IInv
<1>1. PICK up \in Upgrades : release = up[1] /\ release' = up[2]
  BY DEF Upgrade
<1>2. UNCHANGED <<device, store, last, program, pc, at, nth, told, adapter, reply,
                  result, late>>
  BY DEF Upgrade
<1>3. up \in (Nat \X Nat) \X (Nat \X Nat) /\ up = <<release, release'>>
  BY <1>1, ConfigAssumption
<1>4. Types'
  BY <1>2, <1>3, TypesOfTypeOK DEF Types, StoreOK, LastOK
<1>5. Course'
  BY <1>2 DEF Course, Current
<1>6. Effects' /\ Order'
  BY <1>2, Stay
<1>7. \A r : HasRun(r) => <<r, release'>> \in Upgrades
  BY UpgradeFrom
<1>8. Fits'
  BY <1>2, <1>7 DEF Fits, HasRun
<1>9. QED
  BY <1>4, <1>5, <1>6, <1>8, TypeOKNext

LEMMA ServeStatusStep ==
    ASSUME IInv, NEW w \in Workers, ServeStatus(w) PROVE IInv'
<1> USE DEF IInv
<1>1. PICK answer \in {"ok", "refused"}, stated \in {release, <<>>} :
         /\ pc[w] = "detect"
         /\ reply' = [reply EXCEPT ![w] = answer]
         /\ told' = [told EXCEPT ![w] = stated]
         /\ UNCHANGED <<release, device, store, last, program, pc, at, nth, adapter, result,
                        late>>
  BY DEF ServeStatus, fmgVars
<1>2. Types'
  BY <1>1, TypesOfTypeOK DEF Types, StoreOK, LastOK, ServerAnswers
<1>3. Course'
  BY <1>1 DEF Course, Current
<1>4. Effects' /\ Order'
  BY <1>1, Stay, TypesOfTypeOK DEF Types
<1>5. release # <<>>
  <2>1. PICK a \in Nat, b \in Nat : release = <<a, b>>
    BY TypesOfTypeOK DEF Types
  <2>2. QED
    BY <2>1
<1>6. Fits'
  BY <1>1, <1>5, TypesOfTypeOK DEF Fits, HasRun, Types
<1>7. QED
  BY <1>2, <1>3, <1>4, <1>6, TypeOKNext

LEMMA AbandonStep ==
    ASSUME IInv, NEW w \in Workers, Abandon(w) PROVE IInv'
<1> USE DEF IInv
<1>1. /\ pc[w] = "call"
      /\ late' = late \cup {<<w, at[w], nth[w]>>}
      /\ UNCHANGED <<release, device, store, last, program, pc, at, nth, told, adapter,
                     reply, result>>
  BY DEF Abandon, fmgVars
<1>2. /\ adapter[w] # NoAdapter /\ at[w] \in DOMAIN program[w]
      /\ nth[w] \in 1 .. Count(program[w][at[w]])
      /\ at[w] \in Nat \ {0} /\ nth[w] \in Nat \ {0}
  BY <1>1, TypesOfTypeOK DEF Course, Types, Current
<1>3. Types'
  BY <1>1, <1>2, TypesOfTypeOK DEF Types, StoreOK, LastOK
<1>4. Course'
  BY <1>1, <1>2 DEF Course, Current
<1>5. Effects' /\ Order'
  BY <1>1, Stay
<1>6. Fits'
  BY <1>1 DEF Fits, HasRun
<1>7. QED
  BY <1>3, <1>4, <1>5, <1>6, TypeOKNext

LEMMA StartStep ==
    ASSUME IInv, NEW w \in Workers, Start(w) PROVE IInv'
<1> USE DEF IInv
<1>1. PICK p \in Programs[w] : program' = [program EXCEPT ![w] = p]
  BY DEF Start
<1>2. /\ pc[w] = "idle" /\ pc' = [pc EXCEPT ![w] = "detect"]
      /\ UNCHANGED <<release, device, store, last, at, nth, told, adapter, reply, result,
                     late>>
  BY DEF Start, fmgVars
<1>3. p \in Seq(Operations) /\ p # <<>>
  BY ConfigAssumption
<1>4. adapter[w] = NoAdapter /\ at[w] = 1 /\ nth[w] = 1
  BY <1>2 DEF Course
<1>5. Types'
  BY <1>1, <1>2, <1>3, TypesOfTypeOK DEF Types, StoreOK, LastOK, Labels
<1>6. Course'
  BY <1>1, <1>2, <1>3, <1>4, TypesOfTypeOK DEF Course, Current, Types
<1>7. Effects'
  <2> SUFFICES ASSUME NEW v \in Workers
               PROVE  /\ \A k \in DOMAIN program'[v] :
                            /\ Kept(v, k, program[v][k])'
                            /\ Through(v, k)' => \A x \in Asked(program'[v][k]) : last[x[1]] # <<>>
                      /\ adapter[v] # NoAdapter =>
                            \A i \in 1 .. nth[v] :
                                /\ i < nth[v] \/ (pc'[v] = "call" /\ reply[v] = "ok")
                                /\ RequestsOf(v)'[i].verb # "get"
                                => last[RequestsOf(v)'[i].row] # <<>>
    BY <1>2 DEF Effects
  <2>1. CASE v = w
    <3>1. program'[v] = p
      BY <1>1, <2>1, TypesOfTypeOK DEF Types
    <3>2. ASSUME NEW k \in DOMAIN p PROVE Kept(v, k, program[v][k])'
      <4> SUFFICES ASSUME NEW x \in Asked(p[k]) PROVE last'[x[1]] # <<v, k>>
        BY <3>1 DEF Kept
      <4>1. p[k] \in Operations /\ WellFormed(p[k])
        BY <1>3, ConfigAssumption
      <4>2. x[1] \in Rows
        BY <4>1, AskedRows
      <4>3. last[x[1]] # <<>> => last[x[1]][1] # w
        BY <1>4, <4>2 DEF Course
      <4>4. <<w, k>> # <<>> /\ <<w, k>>[1] = w
        OBVIOUS
      <4>5. last[x[1]] # <<w, k>>
        BY <4>3, <4>4
      <4>6. QED
        BY <1>2, <2>1, <4>5
    <3>3. ASSUME NEW k \in DOMAIN p PROVE ~Through(v, k)'
      <4>1. k \in Nat \ {0}
        BY <1>3
      <4>2. pc'[v] = "detect"
        BY <1>2, <2>1, TypesOfTypeOK DEF Types
      <4>3. QED
        BY <1>2, <1>4, <2>1, <4>1, <4>2 DEF Through
    <3>4. QED
      BY <1>4, <2>1, <3>1, <3>2, <3>3
  <2>2. CASE v # w
    <3>1. program'[v] = program[v] /\ pc'[v] = pc[v]
      BY <1>1, <1>2, <2>2
    <3>2. QED
      BY <1>2, <3>1 DEF Effects, Kept, Through, RequestsOf, Current
  <2>3. QED
    BY <2>1, <2>2
<1>8. Order'
  <2>1. \A v \in Workers : v # w => program'[v] = program[v]
    BY <1>1, TypesOfTypeOK DEF Types
  <2>2. QED
    BY <1>2, <1>4, <2>1 DEF Order, Current
<1>9. Fits'
  <2>1. \A v \in Workers : /\ pc'[v] = "detect" => reply[v] \in {"none", "ok", "refused"}
                           /\ pc'[v] = "idle" => reply[v] = "none"
    BY <1>2, TypesOfTypeOK DEF Fits, Types
  <2>2. QED
    BY <1>2, <2>1 DEF Fits, HasRun
<1>10. QED
  BY <1>5, <1>6, <1>7, <1>8, <1>9, TypeOKNext

LEMMA GiveUpStep ==
    ASSUME IInv, NEW w \in Workers, GiveUp(w) PROVE IInv'
<1> USE DEF IInv
<1>1. /\ pc[w] \in {"detect", "call"}
      /\ pc' = [pc EXCEPT ![w] = "raised"]
      /\ result' = [result EXCEPT ![w] = "Transport"]
      /\ reply' = [reply EXCEPT ![w] = "none"]
      /\ UNCHANGED <<release, device, store, last, program, at, nth, told, adapter, late>>
  BY DEF GiveUp, Active, Finish, fmgVars
<1>2. Types'
  BY <1>1, TypesOfTypeOK DEF Types, StoreOK, LastOK, Labels, Errors
<1>3. Course'
  BY <1>1, TypesOfTypeOK DEF Course, Current, Types
<1>4. Effects' /\ Order'
  BY <1>1, Stay, TypesOfTypeOK DEF Types
<1>5. Fits'
  BY <1>1, TypesOfTypeOK DEF Fits, HasRun, Types
<1>6. QED
  BY <1>2, <1>3, <1>4, <1>5, TypeOKNext

\* detect_version ends with the adapter of the release the answer stated, with the error
\* of the answer, or with VersionError: no version was stated, or it has no adapter.
LEMMA DetectCases ==
    ASSUME IInv, NEW w \in Workers, DetectReturns(w)
    PROVE  \/ /\ told[w] \in Nat \X Nat /\ told[w] \in Registered
              /\ adapter' = [adapter EXCEPT ![w] = Adapter(told[w])]
              /\ pc' = [pc EXCEPT ![w] = "call"]
              /\ UNCHANGED <<at, nth, result>>
           \/ /\ Finish(w, "raised", "FMGError")
              /\ UNCHANGED adapter
           \/ /\ told[w] = <<>> \/ told[w] \notin Registered
              /\ Finish(w, "raised", "VersionError")
              /\ UNCHANGED adapter
<1> USE DEF IInv
<1>1. pc[w] = "detect" /\ reply[w] \in {"ok", "refused"}
  BY DEF DetectReturns, Fits
<1>2. CASE reply[w] = "refused"
  BY <1>2 DEF DetectReturns, ErrorOf
<1>3. CASE reply[w] = "ok"
  <2>1. PICK text \in IF told[w] = <<>> THEN {NoText} ELSE Spellings(told[w]) :
           LET key == Normalize(MajorMinor(text)) IN
           \/ /\ key \in Registered
              /\ adapter' = [adapter EXCEPT ![w] = Adapter(key)]
              /\ pc' = [pc EXCEPT ![w] = "call"]
              /\ UNCHANGED <<at, nth, result>>
           \/ /\ key \notin Registered
              /\ Finish(w, "raised", "VersionError")
              /\ UNCHANGED adapter
    BY <1>3 DEF DetectReturns
  <2>2. CASE told[w] = <<>>
    <3>1. Normalize(MajorMinor(text)) \notin Registered
      BY <2>1, <2>2, NoVersion
    <3>2. QED
      BY <2>1, <2>2, <3>1
  <2>3. CASE told[w] # <<>>
    <3>1. told[w] \in Nat \X Nat
      BY <2>3, TypesOfTypeOK DEF Types
    <3>2. Normalize(MajorMinor(text)) = told[w]
      BY <2>1, <2>3, <3>1, SpellingsAgree
    <3>3. QED
      BY <2>1, <3>1, <3>2
  <2>4. QED
    BY <2>2, <2>3
<1>4. QED
  BY <1>1, <1>2, <1>3

LEMMA DetectReturnsStep ==
    ASSUME IInv, NEW w \in Workers, DetectReturns(w) PROVE IInv'
<1> USE DEF IInv
<1>1. /\ pc[w] = "detect" /\ reply[w] # "none"
      /\ reply' = [reply EXCEPT ![w] = "none"]
      /\ UNCHANGED <<release, device, store, last, program, told, late>>
  BY DEF DetectReturns, fmgVars
<1>2. PICK r : r = told[w]
  OBVIOUS
<1>3. r # <<>> => HasRun(r)
  BY <1>2 DEF Fits
<1>4. \/ /\ r \in Nat \X Nat /\ r \in Registered
         /\ adapter' = [adapter EXCEPT ![w] = Adapter(r)]
         /\ pc' = [pc EXCEPT ![w] = "call"]
         /\ UNCHANGED <<at, nth, result>>
      \/ /\ \E e \in {"FMGError", "VersionError"} : Finish(w, "raised", e)
         /\ UNCHANGED adapter
  BY <1>2, DetectCases
<1>5. adapter[w] = NoAdapter /\ at[w] = 1 /\ nth[w] = 1 /\ program[w] # <<>>
  BY <1>1 DEF Course
<1>6. CASE /\ \E e \in {"FMGError", "VersionError"} : Finish(w, "raised", e)
           /\ UNCHANGED adapter
  <2>1. PICK e \in Errors :
           /\ pc' = [pc EXCEPT ![w] = "raised"]
           /\ result' = [result EXCEPT ![w] = e]
           /\ UNCHANGED <<at, nth, adapter>>
    BY <1>6 DEF Finish, Errors
  <2>2. Types'
    BY <1>1, <2>1, TypesOfTypeOK DEF Types, StoreOK, LastOK, Labels
  <2>3. Course'
    BY <1>1, <2>1, TypesOfTypeOK DEF Course, Current, Types
  <2>4. Effects' /\ Order'
    BY <1>1, <2>1, Stay, TypesOfTypeOK DEF Types
  <2>5. Fits'
    BY <1>1, <2>1, TypesOfTypeOK DEF Fits, HasRun, Types
  <2>6. QED
    BY <2>2, <2>3, <2>4, <2>5, TypeOKNext
<1>7. CASE /\ r \in Nat \X Nat /\ r \in Registered
           /\ adapter' = [adapter EXCEPT ![w] = Adapter(r)]
           /\ pc' = [pc EXCEPT ![w] = "call"]
           /\ UNCHANGED <<at, nth, result>>
  <2>1. /\ adapter'[w] = Adapter(r) /\ pc'[w] = "call" /\ reply'[w] = "none"
        /\ \A v \in Workers : v # w =>
              adapter'[v] = adapter[v] /\ pc'[v] = pc[v] /\ reply'[v] = reply[v]
    BY <1>1, <1>7, TypesOfTypeOK DEF Types
  <2>2. Adapter(r).label = r /\ r # <<>>
    <3>1. PICK a \in Nat, b \in Nat : r = <<a, b>>
      BY <1>7
    <3>2. QED
      BY <3>1 DEF Adapter
  <2>3. Adapter(r) # NoAdapter
    BY <2>2 DEF NoAdapter
  <2>4. 1 \in DOMAIN program[w]
    BY <1>5, TypesOfTypeOK DEF Types
  <2>5. /\ Current(w) \in Operations /\ WellFormed(Current(w))
        /\ Current(w).items \in Seq(Names \X Values)
        /\ 1 \in 1 .. Count(Current(w))
    <3>1. Current(w) \in Operations /\ WellFormed(Current(w))
      BY <1>5, <2>4, Begun DEF Current
    <3>2. QED
      BY <3>1, RequestsShape DEF Operations
  <2>6. Types'
    BY <1>1, <1>7, TypesOfTypeOK DEF Types, StoreOK, LastOK, Labels
  <2>7. Course'
    <3>1. \A l \in late : l[1] # w
      BY <1>5 DEF Course
    <3>2. late \subseteq Workers \X (Nat \ {0}) \X (Nat \ {0})
      BY TypesOfTypeOK DEF Types
    <3>3. \A l \in late : l[1] \in Workers
      BY <3>2
    <3>4. ASSUME NEW v \in Workers
          PROVE  /\ pc'[v] = "idle" <=> program[v] = <<>>
                 /\ program[v] # <<>> => program[v] \in Programs[v]
                 /\ pc'[v] \in {"idle", "detect"} =>
                       adapter'[v] = NoAdapter /\ at[v] = 1 /\ nth[v] = 1
                 /\ pc'[v] \in {"call", "returned"} => adapter'[v] # NoAdapter
                 /\ adapter'[v] # NoAdapter =>
                       at[v] \in DOMAIN program[v] /\ nth[v] \in 1 .. Count(Current(v))
                 /\ adapter'[v] = NoAdapter => at[v] = 1
      <4>1. CASE v = w
        BY <1>5, <2>1, <2>3, <2>4, <2>5, <4>1 DEF Course
      <4>2. CASE v # w
        BY <2>1, <4>2 DEF Course
      <4>3. QED
        BY <4>1, <4>2
    <3>5. ASSUME NEW x \in Rows, last[x] # <<>>
          PROVE  adapter'[last[x][1]] # NoAdapter /\ last[x][2] <= at[last[x][1]]
      <4>1. last[x] \in Workers \X (Nat \ {0})
        BY <3>5, TypesOfTypeOK DEF Types, LastOK
      <4>2. last[x][1] \in Workers
        BY <4>1
      <4>3. adapter[last[x][1]] # NoAdapter /\ last[x][2] <= at[last[x][1]]
        BY <3>5 DEF Course
      <4>4. QED
        BY <1>5, <2>1, <4>2, <4>3
    <3>6. ASSUME NEW l \in late
          PROVE  /\ adapter'[l[1]] # NoAdapter
                 /\ l[2] \in DOMAIN program[l[1]] /\ l[3] \in 1 .. Count(program[l[1]][l[2]])
                 /\ l[2] <= at[l[1]] /\ (l[2] = at[l[1]] => l[3] <= nth[l[1]])
      BY <2>1, <3>1, <3>3 DEF Course
    <3>7. QED
      BY <1>1, <1>7, <3>4, <3>5, <3>6 DEF Course, Current
  <2>8. Effects'
    <3> SUFFICES ASSUME NEW v \in Workers
                 PROVE  /\ \A k \in DOMAIN program[v] :
                              /\ Kept(v, k, program[v][k])
                              /\ Through(v, k)' =>
                                    \A x \in Asked(program[v][k]) : last[x[1]] # <<>>
                        /\ adapter'[v] # NoAdapter =>
                              \A i \in 1 .. nth[v] :
                                  /\ i < nth[v] \/ (pc'[v] = "call" /\ reply'[v] = "ok")
                                  /\ RequestsOf(v)'[i].verb # "get"
                                  => last[RequestsOf(v)'[i].row] # <<>>
      BY <1>1, <1>7 DEF Effects, Kept
    <3>1. CASE v = w
      <4>1. \A k \in DOMAIN program[v] : k \in Nat \ {0}
        BY Begun
      <4>2. \A k \in DOMAIN program[v] : ~Through(v, k)'
        BY <1>5, <1>7, <2>1, <3>1, <4>1 DEF Through
      <4>3. QED
        BY <1>5, <2>1, <3>1, <4>2 DEF Effects
    <3>2. CASE v # w
      BY <1>1, <1>7, <2>1, <3>2 DEF Effects, Through, RequestsOf, Current
    <3>3. QED
      BY <3>1, <3>2
  <2>9. Order'
    <3> SUFFICES ASSUME NEW v \in Workers, adapter'[v] # NoAdapter,
                        Current(v).kind = "setPerDevice",
                        NEW i \in DOMAIN Current(v).items, i > nth[v]
                 PROVE  last[<<"mapping", Current(v).items[i][1]>>] # <<v, at[v]>>
      BY <1>1, <1>7 DEF Order, Current
    <3>1. CASE v = w
      <4> DEFINE x == <<"mapping", Current(v).items[i][1]>>
      <4>1. x \in Rows
        BY <2>5, <3>1 DEF Rows, Tables
      <4>2. last[x] # <<>> => last[x][1] # w
        BY <1>5, <4>1 DEF Course
      <4>3. <<w, at[w]>> # <<>> /\ <<w, at[w]>>[1] = w
        OBVIOUS
      <4>4. last[x] # <<w, at[w]>>
        <5> HIDE DEF x
        <5>1. QED
          BY <4>2, <4>3
      <4>5. QED
        BY <3>1, <4>4
    <3>2. CASE v # w
      BY <2>1, <3>2 DEF Order
    <3>3. QED
      BY <3>1, <3>2
  <2>10. Fits'
    <3> SUFFICES ASSUME NEW v \in Workers
                 PROVE  /\ told[v] # <<>> => HasRun(told[v])
                        /\ pc'[v] = "idle" => reply'[v] = "none"
                        /\ pc'[v] = "detect" => reply'[v] \in {"none", "ok", "refused"}
                        /\ adapter'[v] # NoAdapter => HasRun(adapter'[v].label)
      BY <1>1 DEF Fits, HasRun
    <3>1. CASE v = w
      BY <1>2, <1>3, <2>1, <2>2, <3>1
    <3>2. CASE v # w
      BY <2>1, <3>2 DEF Fits
    <3>3. QED
      BY <3>1, <3>2
  <2>11. QED
    BY <2>6, <2>7, <2>8, <2>9, <2>10, TypeOKNext
<1>8. QED
  BY <1>4, <1>6, <1>7

\* Before its last request returns, an operation has had its effect.
LEMMA Done ==
    ASSUME IInv, NEW w \in Workers, pc[w] = "call",
           nth[w] = Len(RequestsOf(w)), Passes(Current(w), reply[w])
    PROVE  \A x \in Asked(Current(w)) : last[x[1]] # <<>>
<1> USE DEF IInv
<1> SUFFICES ASSUME NEW x \in Asked(Current(w)) PROVE last[x[1]] # <<>>
  OBVIOUS
<1>1. adapter[w] # NoAdapter /\ at[w] \in DOMAIN program[w]
  BY DEF Course
<1>2. Current(w) \in Operations /\ WellFormed(Current(w))
  BY <1>1, Begun DEF Current
<1>3. nth[w] = Count(Current(w)) /\ Count(Current(w)) \in Nat
  BY <1>2, RequestsShape DEF RequestsOf
<1>4. reply[w] = "ok"
  <2>1. Current(w).kind # "get"
    BY DEF Asked
  <2>2. QED
    BY <2>1 DEF Passes
<1>5. PICK i \in 1 .. Count(Current(w)) :
         RequestsOf(w)[i].row = x[1] /\ RequestsOf(w)[i].verb # "get"
  BY <1>2, Covered DEF RequestsOf
<1>6. i \in 1 .. nth[w] /\ (i < nth[w] \/ (pc[w] = "call" /\ reply[w] = "ok"))
  BY <1>3, <1>4
<1>7. last[RequestsOf(w)[i].row] # <<>>
  BY <1>1, <1>5, <1>6 DEF Effects
<1>8. QED
  BY <1>5, <1>7

LEMMA NextRequestStep ==
    ASSUME IInv, NEW w \in Workers, pc[w] = "call", Passes(Current(w), reply[w]),
           nth[w] < Len(RequestsOf(w)), nth' = [nth EXCEPT ![w] = @ + 1],
           reply' = [reply EXCEPT ![w] = "none"],
           UNCHANGED <<release, device, store, last, program, pc, at, told, adapter, result,
                       late>>
    PROVE  IInv'
<1> USE DEF IInv
<1>1. adapter[w] # NoAdapter /\ at[w] \in DOMAIN program[w]
  BY DEF Course
<1>2. Current(w) \in Operations /\ WellFormed(Current(w))
  BY <1>1, Begun DEF Current
<1>3. Len(RequestsOf(w)) = Count(Current(w)) /\ Count(Current(w)) \in Nat \ {0}
  BY <1>2, RequestsShape DEF RequestsOf
<1>4. /\ nth[w] \in Nat \ {0} /\ nth'[w] = nth[w] + 1 /\ reply'[w] = "none"
      /\ \A v \in Workers : v # w => nth'[v] = nth[v] /\ reply'[v] = reply[v]
      /\ \A v \in Workers : nth[v] \in Nat
  BY TypesOfTypeOK DEF Types
<1>5. Current(w).kind = "get" => Count(Current(w)) = 1
  BY DEF Count
<1>6. reply[w] = "ok"
  BY <1>3, <1>4, <1>5 DEF Passes
<1>7. Types'
  <2>1. nth[w] + 1 \in Nat \ {0}
    BY <1>4
  <2>2. nth' = [nth EXCEPT ![w] = nth[w] + 1]
    OBVIOUS
  <2>3. nth' \in [Workers -> Nat \ {0}]
    BY <2>1, <2>2, TypesOfTypeOK DEF Types
  <2>4. reply' \in [Workers -> ServerAnswers \cup {"none"}]
    BY TypesOfTypeOK DEF Types
  <2>5. QED
    BY <2>3, <2>4, TypesOfTypeOK DEF Types, StoreOK, LastOK
<1>8. Course'
  <2>1. nth'[w] \in 1 .. Count(Current(w))
    BY <1>3, <1>4
  <2>2. ASSUME NEW v \in Workers
        PROVE  /\ pc[v] \in {"idle", "detect"} =>
                     adapter[v] = NoAdapter /\ at[v] = 1 /\ nth'[v] = 1
               /\ adapter[v] # NoAdapter =>
                     at[v] \in DOMAIN program[v] /\ nth'[v] \in 1 .. Count(Current(v))
    <3>1. CASE v = w
      BY <1>1, <2>1, <3>1
    <3>2. CASE v # w
      BY <1>4, <3>2 DEF Course
    <3>3. QED
      BY <3>1, <3>2
  <2>3. ASSUME NEW l \in late
        PROVE  l[2] = at[l[1]] => l[3] <= nth'[l[1]]
    <3>1. l \in Workers \X (Nat \ {0}) \X (Nat \ {0})
      BY TypesOfTypeOK DEF Types
    <3>2. l[1] \in Workers /\ l[3] \in Nat
      BY <3>1
    <3>3. nth[l[1]] <= nth'[l[1]] /\ nth[l[1]] \in Nat /\ nth'[l[1]] \in Nat
      BY <1>4, <3>2
    <3>4. l[2] = at[l[1]] => l[3] <= nth[l[1]]
      BY DEF Course
    <3>5. QED
      BY <3>2, <3>3, <3>4
  <2>4. QED
    BY <2>2, <2>3 DEF Course, Current
<1>9. Effects'
  <2> SUFFICES ASSUME NEW v \in Workers, adapter[v] # NoAdapter, NEW i \in 1 .. nth'[v],
                      i < nth'[v] \/ (pc[v] = "call" /\ reply'[v] = "ok"),
                      RequestsOf(v)[i].verb # "get"
               PROVE  last[RequestsOf(v)[i].row] # <<>>
    BY DEF Effects, Kept, Through, RequestsOf, Current
  <2>1. CASE v = w
    <3>1. i \in 1 .. nth[v] /\ (i < nth[v] \/ reply[v] = "ok")
      BY <1>4, <1>6, <2>1
    <3>2. QED
      BY <1>6, <2>1, <3>1 DEF Effects
  <2>2. CASE v # w
    BY <1>4, <2>2 DEF Effects
  <2>3. QED
    BY <2>1, <2>2
<1>10. Order'
  <2> SUFFICES ASSUME NEW v \in Workers, adapter[v] # NoAdapter,
                      Current(v).kind = "setPerDevice",
                      NEW i \in DOMAIN Current(v).items, i > nth'[v]
               PROVE  last[<<"mapping", Current(v).items[i][1]>>] # <<v, at[v]>>
    BY DEF Order, Current
  <2>1. Current(v).items \in Seq(Names \X Values)
    <3>1. at[v] \in DOMAIN program[v]
      BY DEF Course
    <3>2. QED
      BY <3>1, Begun DEF Current, Operations
  <2>2. i \in Nat
    BY <2>1
  <2>3. i > nth[v]
    BY <1>4, <2>2
  <2>4. QED
    BY <2>3 DEF Order
<1>11. Fits'
  BY <1>4 DEF Fits, HasRun
<1>12. QED
  BY <1>7, <1>8, <1>9, <1>10, <1>11, TypeOKNext

LEMMA NextOperationStep ==
    ASSUME IInv, NEW w \in Workers, pc[w] = "call", Passes(Current(w), reply[w]),
           nth[w] = Len(RequestsOf(w)), at[w] < Len(program[w]),
           at' = [at EXCEPT ![w] = @ + 1], nth' = [nth EXCEPT ![w] = 1],
           reply' = [reply EXCEPT ![w] = "none"],
           UNCHANGED <<release, device, store, last, program, pc, told, adapter, result,
                       late>>
    PROVE  IInv'
<1> USE DEF IInv
<1>1. adapter[w] # NoAdapter
  BY DEF Course
<1>2. /\ at[w] \in Nat \ {0} /\ at'[w] = at[w] + 1 /\ nth'[w] = 1 /\ reply'[w] = "none"
      /\ \A v \in Workers : v # w =>
            at'[v] = at[v] /\ nth'[v] = nth[v] /\ reply'[v] = reply[v]
      /\ \A v \in Workers : at[v] \in Nat /\ at'[v] \in Nat /\ at[v] <= at'[v]
  BY TypesOfTypeOK DEF Types
<1>3. at'[w] \in DOMAIN program[w]
  BY <1>2, TypesOfTypeOK DEF Types
<1>4. PICK o : o = program[w][at'[w]]
  OBVIOUS
<1>5. o \in Operations /\ WellFormed(o) /\ 1 \in 1 .. Count(o)
  <2>1. o \in Operations /\ WellFormed(o)
    BY <1>3, <1>4, Begun
  <2>2. QED
    BY <2>1, RequestsShape
<1>6. Types'
  <2>1. at[w] + 1 \in Nat \ {0}
    BY <1>2
  <2>2. at' = [at EXCEPT ![w] = at[w] + 1]
    OBVIOUS
  <2>3. at' \in [Workers -> Nat \ {0}] /\ nth' \in [Workers -> Nat \ {0}]
    BY <2>1, <2>2, TypesOfTypeOK DEF Types
  <2>4. reply' \in [Workers -> ServerAnswers \cup {"none"}]
    BY TypesOfTypeOK DEF Types
  <2>5. QED
    BY <2>3, <2>4, TypesOfTypeOK DEF Types, StoreOK, LastOK
<1>7. Course'
  <2>1. ASSUME NEW v \in Workers
        PROVE  /\ pc[v] \in {"idle", "detect"} =>
                     adapter[v] = NoAdapter /\ at'[v] = 1 /\ nth'[v] = 1
               /\ adapter[v] # NoAdapter =>
                     /\ at'[v] \in DOMAIN program[v]
                     /\ nth'[v] \in 1 .. Count(program[v][at'[v]])
               /\ adapter[v] = NoAdapter => at'[v] = 1
    <3>1. CASE v = w
      BY <1>1, <1>2, <1>3, <1>4, <1>5, <3>1
    <3>2. CASE v # w
      BY <1>2, <3>2 DEF Course, Current
    <3>3. QED
      BY <3>1, <3>2
  <2>2. ASSUME NEW l \in late
        PROVE  l[2] <= at'[l[1]] /\ (l[2] = at'[l[1]] => l[3] <= nth'[l[1]])
    <3>1. l \in Workers \X (Nat \ {0}) \X (Nat \ {0})
      BY TypesOfTypeOK DEF Types
    <3>2. l[1] \in Workers /\ l[2] \in Nat
      BY <3>1
    <3>3. l[2] <= at[l[1]] /\ (l[2] = at[l[1]] => l[3] <= nth[l[1]])
      BY DEF Course
    <3>4. CASE l[1] = w
      BY <1>2, <3>2, <3>3, <3>4
    <3>5. CASE l[1] # w
      BY <1>2, <3>2, <3>3, <3>5
    <3>6. QED
      BY <3>4, <3>5
  <2>3. ASSUME NEW r \in Rows, last[r] # <<>>
        PROVE  last[r][2] <= at'[last[r][1]]
    <3>1. last[r] \in Workers \X (Nat \ {0})
      BY <2>3, TypesOfTypeOK DEF Types, LastOK
    <3>2. last[r][1] \in Workers /\ last[r][2] \in Nat
      BY <3>1
    <3>3. last[r][2] <= at[last[r][1]]
      BY <2>3 DEF Course
    <3>4. QED
      BY <1>2, <3>2, <3>3
  <2>4. QED
    BY <2>1, <2>2, <2>3 DEF Course, Current
<1>8. Effects'
  <2> SUFFICES ASSUME NEW v \in Workers
               PROVE  /\ \A k \in DOMAIN program[v] :
                            Through(v, k)' => \A x \in Asked(program[v][k]) : last[x[1]] # <<>>
                      /\ adapter[v] # NoAdapter =>
                            \A i \in 1 .. nth'[v] :
                                /\ i < nth'[v] \/ (pc[v] = "call" /\ reply'[v] = "ok")
                                /\ RequestsOf(v)'[i].verb # "get"
                                => last[RequestsOf(v)'[i].row] # <<>>
    BY DEF Effects, Kept
  <2>1. CASE v = w
    <3>1. ASSUME NEW k \in DOMAIN program[v], Through(v, k)',
                 NEW x \in Asked(program[v][k])
          PROVE  last[x[1]] # <<>>
      <4>1. k \in Nat /\ k < at[w] + 1
        BY <1>2, <2>1, <3>1, Begun DEF Through
      <4>2. CASE k < at[w]
        BY <2>1, <3>1, <4>2 DEF Effects, Through
      <4>3. CASE k = at[w]
        BY <2>1, <3>1, <4>3, Done DEF Current
      <4>4. QED
        BY <1>2, <4>1, <4>2, <4>3
    <3>2. \A i \in 1 .. nth'[v] : ~(i < nth'[v] \/ (pc[v] = "call" /\ reply'[v] = "ok"))
      BY <1>2, <2>1
    <3>3. QED
      BY <3>1, <3>2
  <2>2. CASE v # w
    BY <1>2, <2>2 DEF Effects, Through, RequestsOf, Current
  <2>3. QED
    BY <2>1, <2>2
<1>9. Order'
  <2> SUFFICES ASSUME NEW v \in Workers, adapter[v] # NoAdapter,
                      program[v][at'[v]].kind = "setPerDevice",
                      NEW i \in DOMAIN program[v][at'[v]].items, i > nth'[v]
               PROVE  last[<<"mapping", program[v][at'[v]].items[i][1]>>] # <<v, at'[v]>>
    BY DEF Order, Current
  <2>1. CASE v = w
    <3>1. PICK x : x = <<"mapping", o.items[i][1]>>
      OBVIOUS
    <3>2. x \in Rows
      BY <1>4, <1>5, <2>1, <3>1 DEF Rows, Tables, Operations
    <3>3. last[x] # <<>> => last[x][2] <= at[last[x][1]]
      BY <3>2 DEF Course
    <3>4. <<w, at'[w]>> # <<>> /\ <<w, at'[w]>>[1] = w /\ <<w, at'[w]>>[2] = at'[w]
      OBVIOUS
    <3>5. ~(at'[w] <= at[w])
      BY <1>2
    <3>6. last[x] # <<w, at'[w]>>
      BY <3>3, <3>4, <3>5
    <3>7. QED
      BY <1>4, <2>1, <3>1, <3>6
  <2>2. CASE v # w
    <3>1. at'[v] = at[v] /\ nth'[v] = nth[v]
      BY <1>2, <2>2
    <3>2. Current(v) = program[v][at'[v]]
      BY <3>1 DEF Current
    <3>3. QED
      BY <3>1, <3>2 DEF Order
  <2>3. QED
    BY <2>1, <2>2
<1>10. Fits'
  BY <1>2 DEF Fits, HasRun
<1>11. QED
  BY <1>6, <1>7, <1>8, <1>9, <1>10, TypeOKNext

LEMMA ReturnsStep ==
    ASSUME IInv, NEW w \in Workers, pc[w] = "call", Passes(Current(w), reply[w]),
           nth[w] = Len(RequestsOf(w)), at[w] = Len(program[w]),
           pc' = [pc EXCEPT ![w] = "returned"], result' = [result EXCEPT ![w] = "done"],
           reply' = [reply EXCEPT ![w] = "none"],
           UNCHANGED <<release, device, store, last, program, at, nth, told, adapter, late>>
    PROVE  IInv'
<1> USE DEF IInv
<1>1. Types'
  BY TypesOfTypeOK DEF Types, StoreOK, LastOK, Labels
<1>2. Course'
  BY TypesOfTypeOK DEF Course, Current, Types
<1>3. Effects'
  <2> SUFFICES ASSUME NEW v \in Workers
               PROVE  /\ \A k \in DOMAIN program[v] :
                            Through(v, k)' => \A x \in Asked(program[v][k]) : last[x[1]] # <<>>
                      /\ adapter[v] # NoAdapter =>
                            \A i \in 1 .. nth[v] :
                                /\ i < nth[v] \/ (pc'[v] = "call" /\ reply'[v] = "ok")
                                /\ RequestsOf(v)[i].verb # "get"
                                => last[RequestsOf(v)[i].row] # <<>>
    BY DEF Effects, Kept, RequestsOf, Current
  <2>1. CASE v = w
    <3>1. ASSUME NEW k \in DOMAIN program[v], Through(v, k)',
                 NEW x \in Asked(program[v][k])
          PROVE  last[x[1]] # <<>>
      <4>1. k < at[w] \/ k = at[w]
        BY <2>1, <3>1 DEF Through
      <4>2. CASE k < at[w]
        BY <2>1, <3>1, <4>2 DEF Effects, Through
      <4>3. CASE k = at[w]
        BY <2>1, <3>1, <4>3, Done DEF Current
      <4>4. QED
        BY <4>1, <4>2, <4>3
    <3>2. pc'[v] = "returned"
      BY <2>1, TypesOfTypeOK DEF Types
    <3>3. QED
      BY <3>1, <3>2 DEF Effects
  <2>2. CASE v # w
    BY <2>2 DEF Effects, Through, RequestsOf, Current
  <2>3. QED
    BY <2>1, <2>2
<1>4. Order'
  BY DEF Order, Current
<1>5. Fits'
  BY TypesOfTypeOK DEF Fits, HasRun, Types
<1>6. QED
  BY <1>1, <1>2, <1>3, <1>4, <1>5, TypeOKNext

LEMMA CallReturnsStep ==
    ASSUME IInv, NEW w \in Workers, CallReturns(w) PROVE IInv'
<1> USE DEF IInv
<1>1. /\ pc[w] = "call" /\ reply[w] # "none"
      /\ reply' = [reply EXCEPT ![w] = "none"]
      /\ UNCHANGED <<release, device, store, last, program, told, adapter, late>>
  BY DEF CallReturns, fmgVars
<1>2. CASE Passes(Current(w), reply[w]) /\ GoOn(w)
  BY <1>1, <1>2, NextRequestStep, NextOperationStep, ReturnsStep DEF GoOn, Finish
<1>3. CASE Finish(w, "raised", ErrorOf(reply[w]))
  <2>1. /\ pc' = [pc EXCEPT ![w] = "raised"]
        /\ result' = [result EXCEPT ![w] = ErrorOf(reply[w])]
        /\ UNCHANGED <<at, nth>>
    BY <1>3 DEF Finish
  <2>2. ErrorOf(reply[w]) \in Errors
    BY DEF ErrorOf, Errors
  <2>3. Types'
    BY <1>1, <2>1, <2>2, TypesOfTypeOK DEF Types, StoreOK, LastOK, Labels
  <2>4. Course'
    BY <1>1, <2>1, TypesOfTypeOK DEF Course, Current, Types
  <2>5. Effects' /\ Order'
    BY <1>1, <2>1, Stay, TypesOfTypeOK DEF Types
  <2>6. Fits'
    BY <1>1, <2>1, TypesOfTypeOK DEF Fits, HasRun, Types
  <2>7. QED
    BY <2>3, <2>4, <2>5, <2>6, TypeOKNext
<1>4. QED
  BY <1>2, <1>3 DEF CallReturns

-----------------------------------------------------------------------------
(* The theorems *)

LEMMA StepInv == IInv /\ [Next]_vars => IInv'
<1> SUFFICES ASSUME IInv, [Next]_vars PROVE IInv'
  OBVIOUS
<1>1. CASE Upgrade
  BY <1>1, UpgradeStep
<1>2. ASSUME NEW w \in Workers,
             Start(w) \/ Serve(w) \/ Returns(w) \/ Abandon(w) \/ GiveUp(w)
      PROVE  IInv'
  BY <1>2, StartStep, ServeStatusStep, ServeRequestStep, DetectReturnsStep,
     CallReturnsStep, AbandonStep, GiveUpStep
     DEF Serve, Returns
<1>3. ASSUME NEW l \in late, ServeLate(l) PROVE IInv'
  BY <1>3, ServeLateStep
<1>4. CASE UNCHANGED vars
  <2>1. UNCHANGED <<release, device, store, last, program, pc, at, nth, told, adapter,
                    reply, result, late>>
    BY <1>4 DEF vars
  <2>2. Types'
    BY <2>1, TypesOfTypeOK DEF IInv, Types, StoreOK, LastOK
  <2>3. Course'
    BY <2>1 DEF IInv, Course, Current
  <2>4. Effects' /\ Order'
    BY <2>1, Stay
  <2>5. Fits'
    BY <2>1 DEF IInv, Fits, HasRun
  <2>6. QED
    BY <2>2, <2>3, <2>4, <2>5, TypeOKNext DEF IInv
<1>5. QED
  BY <1>1, <1>2, <1>3, <1>4 DEF Next

\* Where the workers are, what they have written, in which order, and whose adapter they
\* use: the strengthening every theorem below follows from.
THEOREM Inductive == Spec => []IInv
  BY InitInv, StepInv, PTL DEF Spec

\* The state stays in its types, and a worker is always at a request its operation has.
THEOREM TypeCorrect == Spec => []TypeOK
<1>1. IInv => TypeOK
  BY DEF IInv
<1>2. QED
  BY Inductive, <1>1, PTL

\* For any programs, names and upgrades, an operation that has come to its end without an
\* error has written every row it was asked to write, with what was asked for: an adapter
\* that an upgrade left behind makes a manager raise, never lose a write (metafields.py,
\* versions/).
THEOREM NoSilentLoss == Spec => []WritesTakeEffect
<1>1. IInv => WritesTakeEffect
  BY DEF IInv, Effects, Kept, WritesTakeEffect
<1>2. QED
  BY Inductive, <1>1, PTL

\* detect_version's adapter is that of the release FMG runs or ran before an upgrade,
\* however FMG spells its version.
THEOREM AdapterStaysFit == Spec => []AdapterFits
<1>1. IInv => AdapterFits
  BY DEF IInv, Fits, HasRun, AdapterFits
<1>2. QED
  BY Inductive, <1>1, PTL

\* set_per_device that raised has written a prefix of the caller's overrides, also when
\* requests it gave up arrive late.
THEOREM PrefixOnRaise == Spec => []RaisedIsPrefix
<1>1. ASSUME IInv PROVE RaisedIsPrefix
  <2> SUFFICES ASSUME NEW w \in Workers, adapter[w] # NoAdapter,
                      Current(w).kind = "setPerDevice", NEW i \in DOMAIN Current(w).items
               PROVE  LET row == <<"mapping", Current(w).items[i][1]>> IN
                      /\ i < nth[w] => last[row] # <<>>
                      /\ i > nth[w] => last[row] # <<w, at[w]>>
    BY DEF RaisedIsPrefix
  <2> USE <1>1 DEF IInv
  <2>1. at[w] \in DOMAIN program[w] /\ nth[w] \in Nat
    BY TypesOfTypeOK DEF Course, Types
  <2>2. PICK o : o = Current(w)
    OBVIOUS
  <2>3. o \in Operations /\ WellFormed(o)
    BY <2>1, <2>2, Begun DEF Current
  <2>4. i \in Nat \ {0} /\ i \in 1 .. Count(o)
    BY <2>2, <2>3 DEF Operations, Count
  <2>5. ASSUME i < nth[w] PROVE last[<<"mapping", o.items[i][1]>>] # <<>>
    <3>1. RequestsOf(w)[i] =
            Ask("set", "mapping", o.items[i], adapter[w].dialect.space,
                adapter[w].dialect.mapping)
      BY <2>2, <2>3, <2>4, RequestIs DEF RequestsOf
    <3>2. /\ RequestsOf(w)[i].verb # "get"
          /\ RequestsOf(w)[i].row = <<"mapping", o.items[i][1]>>
      BY <3>1 DEF Ask
    <3>3. i \in 1 .. nth[w]
      BY <2>1, <2>4, <2>5
    <3>4. last[RequestsOf(w)[i].row] # <<>>
      BY <2>5, <3>2, <3>3 DEF Effects
    <3>5. QED
      BY <3>2, <3>4
  <2>6. QED
    BY <2>2, <2>5 DEF Order
<1>2. QED
  BY Inductive, <1>1, PTL

-----------------------------------------------------------------------------
(* Why an operation raises *)

LEMMA RequestForm ==
    ASSUME NEW o \in Operations, WellFormed(o), NEW d, NEW i \in 1 .. Count(o)
    PROVE  LET q == Requests(d, o)[i] IN
           /\ q.verb = "add" => o.kind = "addMember"
           /\ q.verb = "delete" => o.kind = "delete"
           /\ q.verb = "get" => o.kind \in {"get", "getVariable"}
           /\ o.kind \in ObjectKinds => q.row[1] = o.table
           /\ o.kind \in MetaKinds =>
                 /\ q.space = d.space /\ q.row[2] \in NamesOf(o)
                 /\ q.row[1] = IF o.kind = "setPerDevice" THEN "mapping" ELSE "variable"
<1> DEFINE q == Requests(d, o)[i]
<1>1. o.kind \in MetaKinds \cup ObjectKinds /\ 1 \in DOMAIN o.items
  BY DEF Operations, WellFormed
<1>2. CASE o.kind = "ensureVariables"
  <2>1. PICK n : n = Ascending(NamesOf(o))[i]
    OBVIOUS
  <2>2. n \in NamesOf(o) /\ q = SetVariable(d, <<n, Empty>>)
    BY <1>2, <2>1, RequestIs
  <2>3. QED
    BY <1>2, <2>2 DEF SetVariable, Ask, ObjectKinds
<1>3. CASE o.kind = "setPerDevice"
  <2>1. i \in DOMAIN o.items /\ q = Ask("set", "mapping", o.items[i], d.space, d.mapping)
    BY <1>3, RequestIs
  <2>2. QED
    BY <1>3, <2>1 DEF Ask, NamesOf, ObjectKinds
<1>4. CASE o.kind \in {"createIfMissing", "getVariable"}
  <2>1. CASE o.kind = "createIfMissing"
    <3>1. q = Ask("set", "variable", o.items[1], d.space, d.default)
      BY <2>1, RequestIs DEF SetVariable
    <3>2. QED
      BY <1>1, <2>1, <3>1 DEF Ask, NamesOf, ObjectKinds
  <2>2. CASE o.kind = "getVariable"
    <3>1. PICK field : q = Ask("get", "variable", o.items[1], d.space, field)
      BY <2>2, RequestIs
    <3>2. QED
      BY <1>1, <2>2, <3>1 DEF Ask, NamesOf, ObjectKinds
  <2>3. QED
    BY <1>4, <2>1, <2>2
<1>5. CASE o.kind \in ObjectKinds
  <2>1. PICK verb \in {"get", "set", "delete", "add"} :
           /\ q = ObjectRequest(verb, o)
           /\ verb = "add" => o.kind = "addMember"
           /\ verb = "delete" => o.kind = "delete"
           /\ verb = "get" => o.kind = "get"
    BY <1>5, RequestIs DEF ObjectKinds
  <2>2. q.verb = verb /\ q.row[1] = o.table
    BY <2>1 DEF ObjectRequest, Ask
  <2>3. QED
    BY <1>5, <2>1, <2>2 DEF ObjectKinds, MetaKinds
<1>6. QED
  BY <1>1, <1>2, <1>3, <1>4, <1>5 DEF MetaKinds

\* Nothing takes a variable away that somebody has written.
Present ==
    \A n \in Names : last[<<"variable", n>>] # <<>> => store[<<"variable", n>>] # Absent

LEMMA PresentExecuted ==
    ASSUME NEW o \in Operations, WellFormed(o), NEW d, NEW i \in 1 .. Count(o),
           NEW w, NEW k, NEW a, StoreOK, LastOK, Present,
           Execute(w, k, Requests(d, o)[i], a)
    PROVE  Present'
<1> DEFINE q == Requests(d, o)[i]
<1>1. CASE UNCHANGED fmgVars
  BY <1>1 DEF fmgVars, Present
<1>2. CASE /\ store' = [r \in Rows |->
                          IF r \notin Written(q) THEN store[r]
                          ELSE IF q.verb = "delete" THEN Absent ELSE Put(q)]
           /\ last' = [r \in Rows |-> IF r \in Written(q) THEN <<w, k>> ELSE last[r]]
  <2> SUFFICES ASSUME NEW n \in Names, last'[<<"variable", n>>] # <<>>
               PROVE  store'[<<"variable", n>>] # Absent
    BY DEF Present
  <2> DEFINE r == <<"variable", n>>
  <2>1. r \in Rows /\ Parent(r) = r /\ r[1] = "variable"
    BY DEF Rows, Tables, Parent
  <2>2. CASE r \notin Written(q)
    BY <1>2, <2>1, <2>2 DEF Present
  <2>3. CASE r \in Written(q)
    <3>1. q.verb # "delete"
      <4>1. SUFFICES ASSUME q.verb = "delete" PROVE FALSE
        OBVIOUS
      <4>2. q.row = r
        BY <2>1, <2>3, <4>1 DEF Written
      <4>3. o.kind = "delete"
        BY <4>1, RequestForm
      <4>4. q.row[1] = o.table /\ o.table # "variable"
        BY <4>3, RequestForm, OfferedTables DEF ObjectKinds
      <4>5. QED
        BY <2>1, <4>2, <4>4
    <3>2. q.row \in Rows /\ q.value \in Values /\ Empty \in Values /\ Absent \notin Values
      BY RequestType, ConfigAssumption
    <3>3. store[q.row] \in Values \cup {Absent}
      BY <3>2 DEF StoreOK
    <3> HIDE DEF q
    <3>4. Put(q) \in Values
      BY <3>2, <3>3 DEF Put
    <3>5. store'[r] = Put(q)
      BY <1>2, <2>1, <2>3, <3>1
    <3>6. QED
      BY <3>2, <3>4, <3>5
  <2>4. QED
    BY <2>2, <2>3
<1>3. QED
  BY <1>1, <1>2 DEF Execute

\* FMG misses something only for a reason.
LEMMA Missed ==
    ASSUME IInv, Present, NEW w \in Workers, pc[w] = "call", Current(w).kind # "get",
           Execute(w, at[w], RequestsOf(w)[nth[w]], "notFound")
    PROVE  MayMiss(w)
<1> USE DEF IInv
<1>1. PICK o, d : o = Current(w) /\ d = adapter[w].dialect
  OBVIOUS
<1>2. /\ adapter[w] # NoAdapter /\ at[w] \in DOMAIN program[w]
      /\ nth[w] \in 1 .. Count(o)
  BY <1>1 DEF Course
<1>3. o \in Operations /\ WellFormed(o) /\ at[w] \in Nat
  BY <1>1, <1>2, Begun DEF Current
<1>4. PICK q : q = Requests(d, o)[nth[w]]
  OBVIOUS
<1>5. /\ q.verb = "delete" => o.kind = "delete"
      /\ q.verb = "get" => o.kind \in {"get", "getVariable"}
      /\ o.kind \in ObjectKinds => q.row[1] = o.table
      /\ o.kind \in MetaKinds =>
            /\ q.space = d.space /\ q.row[2] \in NamesOf(o)
            /\ q.row[1] = IF o.kind = "setPerDevice" THEN "mapping" ELSE "variable"
  BY <1>2, <1>3, <1>4, RequestForm
<1>6. Misses(q) \/ q.verb \in {"get", "delete"}
  BY <1>1, <1>4 DEF Execute, RequestsOf
<1>7. SUFFICES ASSUME adapter[w].label = release, o.kind \notin {"delete", "getVariable"},
                      o.table # "child",
                      o.kind = "setPerDevice" =>
                          device /\ NamesOf(o) \subseteq Ensured(w)
               PROVE  FALSE
  BY <1>1 DEF MayMiss, Stale
<1>8. Misses(q)
  BY <1>1, <1>5, <1>6, <1>7
<1>9. d.space = Native(release).space
  <2>1. PICK key \in Registered : adapter[w] = Adapter(key)
    BY <1>2, TypesOfTypeOK DEF Types
  <2>2. release = key
    BY <1>7, <2>1 DEF Adapter
  <2>3. key \in {<<7, 2>>, <<7, 4>>, <<7, 6>>}
    BY DEF Registered
  <2>4. QED
    BY <1>1, <2>1, <2>2, <2>3 DEF Adapter, Native, BaseDialect, Dialect76
<1>10. q.row \in Rows
  BY <1>2, <1>3, <1>4, RequestType
<1>11. PICK table \in Tables, n \in Names : q.row = <<table, n>>
  BY <1>10 DEF Rows
<1>12. CASE o.kind \in ObjectKinds
  <2>1. table = o.table /\ table \in {"object", "template"}
    BY <1>3, <1>5, <1>7, <1>11, <1>12, OfferedTables
  <2>2. Parent(q.row) = q.row
    BY <1>11, <2>1 DEF Parent
  <2>3. QED
    BY <1>8, <1>11, <2>1, <2>2 DEF Misses
<1>13. CASE o.kind \in {"ensureVariables", "createIfMissing"}
  <2>1. table = "variable" /\ q.space = d.space
    BY <1>5, <1>11, <1>13 DEF MetaKinds
  <2>2. Parent(q.row) = q.row
    BY <1>11, <2>1 DEF Parent
  <2>3. QED
    BY <1>8, <1>9, <1>11, <2>1, <2>2 DEF Misses
<1>14. CASE o.kind = "setPerDevice"
  <2>1. table = "mapping" /\ q.space = d.space /\ n \in NamesOf(o)
    BY <1>5, <1>11, <1>14 DEF MetaKinds
  <2>2. Parent(q.row) = <<"variable", n>>
    BY <1>11, <2>1 DEF Parent
  <2>3. store[<<"variable", n>>] = Absent
    BY <1>7, <1>8, <1>9, <1>11, <1>14, <2>1, <2>2 DEF Misses
  <2>4. n \in Ensured(w)
    BY <1>7, <1>14, <2>1
  <2>5. PICK k \in 1 .. at[w] - 1 :
           /\ program[w][k].kind \in {"ensureVariables", "createIfMissing"}
           /\ n \in NamesOf(program[w][k])
    BY <2>4 DEF Ensured
  <2>6. k \in DOMAIN program[w] /\ k < at[w]
    BY <1>2, <1>3, TypesOfTypeOK DEF Types
  <2>7. <<<<"variable", n>>, Values>> \in Asked(program[w][k])
    BY <2>5 DEF Asked
  <2>8. last[<<<<"variable", n>>, Values>>[1]] # <<>>
    BY <2>6, <2>7 DEF Effects, Through
  <2>9. QED
    BY <2>3, <2>8 DEF Present
<1>15. QED
  BY <1>3, <1>7, <1>12, <1>13, <1>14 DEF Operations, MetaKinds

\* What a pending answer is about to raise.
Owed(w) ==
    /\ result[w] # "none" => pc[w] \in Ended
    /\ pc[w] = "call" =>
          /\ reply[w] = "duplicate" => Current(w).kind = "addMember"
          /\ reply[w] = "notFound" /\ Current(w).kind # "get" => MayMiss(w)

\* What worker w has raised (the body of ErrorsExplained; that FMG has run the release it
\* told is in Fits).
Explained(w) ==
    /\ result[w] = "VersionError" /\ told[w] # <<>> => told[w] \notin Registered
    /\ result[w] = "DuplicateError" => Current(w).kind = "addMember"
    /\ result[w] = "NotFoundError" => MayMiss(w)

EInv == IInv /\ Present /\ \A w \in Workers : Owed(w) /\ Explained(w)

\* The steps of other workers, and those that keep this one where it is.
LEMMA ExplainedStays ==
    ASSUME NEW v, Owed(v), Explained(v), UNCHANGED <<release, device>>,
           program'[v] = program[v], at'[v] = at[v], adapter'[v] = adapter[v],
           pc'[v] = pc[v], reply'[v] \in {reply[v], "ok", "none", "refused"},
           result'[v] = result[v], told'[v] = told[v] \/ pc[v] = "detect"
    PROVE  Owed(v)' /\ Explained(v)'
<1>1. Current(v)' = Current(v)
  BY DEF Current
<1>2. Ensured(v)' = Ensured(v)
  BY DEF Ensured, NamesOf
<1>3. NamesOf(Current(v))' = NamesOf(Current(v))
  BY <1>1 DEF NamesOf
<1>4. MayMiss(v)' = MayMiss(v)
  BY <1>1, <1>2, <1>3 DEF MayMiss, Stale
<1>5. Owed(v)'
  BY <1>1, <1>4 DEF Owed
<1>6. Explained(v)'
  BY <1>1, <1>4 DEF Explained, Owed, Ended
<1>7. QED
  BY <1>5, <1>6

\* The steps that begin something, or end without an error of FMG.
LEMMA ExplainedEnds ==
    ASSUME NEW v, UNCHANGED <<release, device>>,
           \/ pc'[v] \in {"detect", "call"} /\ reply'[v] = "none" /\ result'[v] = "none"
           \/ pc'[v] \in Ended /\ result'[v] \in {"done", "Transport", "FMGError"}
    PROVE  Owed(v)' /\ Explained(v)'
  BY DEF Owed, Explained, Ended

LEMMA ExplainedUpgrade ==
    ASSUME EInv, Upgrade PROVE Present' /\ \A v \in Workers : Owed(v)' /\ Explained(v)'
<1>1. /\ release \in Nat \X Nat
      /\ UNCHANGED <<device, store, last, program, pc, at, nth, told, adapter, reply,
                     result, late>>
  BY TypesOfTypeOK DEF EInv, IInv, Types, Upgrade
<1>2. Present'
  BY <1>1 DEF EInv, Present
<1>3. \A r : HasRun(r) => <<r, release'>> \in Upgrades /\ r # release'
  <2> SUFFICES ASSUME NEW r, HasRun(r) PROVE <<r, release'>> \in Upgrades /\ r # release'
    OBVIOUS
  <2>1. <<r, release'>> \in Upgrades
    BY UpgradeFrom
  <2>2. <<r, release'>>[1] # <<r, release'>>[2]
    BY <2>1, ConfigAssumption
  <2>3. QED
    BY <2>1, <2>2
<1>4. ASSUME NEW v \in Workers PROVE Owed(v)' /\ Explained(v)'
  <2>1. Owed(v) /\ Explained(v)
    BY DEF EInv
  <2>2. Stale(v) => Stale(v)'
    <3>1. release' \in Nat \X Nat
      <4>1. EInv /\ IInv
        BY DEF EInv
      <4>2. PICK up \in Upgrades : release' = up[2]
        BY DEF Upgrade
      <4>3. QED
        BY <4>2, ConfigAssumption
    <3>2. <<>> \notin Nat \X Nat
      BY DEF TypeOK
    <3>3. CASE adapter[v] = NoAdapter
      BY <1>1, <3>1, <3>2, <3>3 DEF Stale, NoAdapter
    <3>4. CASE adapter[v] # NoAdapter
      <4>1. HasRun(adapter[v].label)
        BY <3>4 DEF EInv, IInv, Fits
      <4>2. adapter[v].label # release'
        BY <1>3, <4>1
      <4>3. QED
        BY <1>1, <4>2 DEF Stale
    <3>5. QED
      BY <3>3, <3>4
  <2>3. Current(v)' = Current(v)
    BY <1>1 DEF Current
  <2>4. Ensured(v)' = Ensured(v) /\ NamesOf(Current(v))' = NamesOf(Current(v))
    BY <1>1, <2>3 DEF Ensured, NamesOf
  <2>5. MayMiss(v) => MayMiss(v)'
    BY <1>1, <2>2, <2>3, <2>4 DEF MayMiss
  <2>6. Owed(v)'
    BY <1>1, <2>1, <2>3, <2>5 DEF Owed
  <2>7. Explained(v)'
    BY <1>1, <2>1, <2>3, <2>5 DEF Explained
  <2>8. QED
    BY <2>6, <2>7
<1>5. QED
  BY <1>2, <1>4

LEMMA ExplainedServe ==
    ASSUME EInv, NEW w \in Workers, ServeRequest(w)
    PROVE  Present' /\ \A v \in Workers : Owed(v)' /\ Explained(v)'
<1> USE DEF EInv
<1>1. PICK a \in ServerAnswers :
         /\ reply' = [reply EXCEPT ![w] = a]
         /\ Execute(w, at[w], RequestsOf(w)[nth[w]], a)
  BY DEF ServeRequest
<1>2. /\ pc[w] = "call"
      /\ UNCHANGED <<program, pc, at, nth, told, adapter, result, late>>
  BY DEF ServeRequest
<1>3. /\ at[w] \in DOMAIN program[w] /\ nth[w] \in 1 .. Count(Current(w))
      /\ StoreOK /\ LastOK /\ reply \in [Workers -> ServerAnswers \cup {"none"}]
  BY <1>2, TypesOfTypeOK DEF IInv, Course, Types
<1>4. Current(w) \in Operations /\ WellFormed(Current(w))
  BY <1>3, Begun DEF IInv, Current
<1>5. Present'
  BY <1>1, <1>3, <1>4, PresentExecuted DEF RequestsOf
<1>6. UNCHANGED <<release, device>>
  BY <1>1 DEF Execute, fmgVars
<1>7. reply'[w] = a /\ \A v \in Workers : v # w => reply'[v] = reply[v]
  BY <1>1, <1>3
<1>8. ASSUME NEW v \in Workers, v # w PROVE Owed(v)' /\ Explained(v)'
  BY <1>2, <1>6, <1>7, <1>8, ExplainedStays
<1>9. CASE a \in {"ok", "refused"}
  <2>1. Owed(w)' /\ Explained(w)'
    BY <1>2, <1>6, <1>7, <1>9, ExplainedStays
  <2>2. QED
    BY <1>5, <1>8, <2>1
<1>10. CASE a \in {"duplicate", "notFound"}
  <2>1. result[w] = "none"
    BY <1>2 DEF Owed, Ended
  <2>2. a = "duplicate" => Current(w).kind = "addMember"
    BY <1>1, <1>3, <1>4, RequestForm DEF Execute, RequestsOf
  <2>3. a = "notFound" /\ Current(w).kind # "get" => MayMiss(w)
    BY <1>1, <1>2, Missed
  <2>4. UNCHANGED <<Current(w), MayMiss(w)>>
    BY <1>2, <1>6 DEF Current, MayMiss, Stale, Ensured, NamesOf
  <2>5. Owed(w)' /\ Explained(w)'
    BY <1>2, <1>7, <1>10, <2>1, <2>2, <2>3, <2>4 DEF Owed, Explained
  <2>6. QED
    BY <1>5, <1>8, <2>5
<1>11. QED
  BY <1>5, <1>8, <1>9, <1>10 DEF ServerAnswers

LEMMA ExplainedLate ==
    ASSUME EInv, NEW l \in late, ServeLate(l)
    PROVE  Present' /\ \A v \in Workers : Owed(v)' /\ Explained(v)'
<1> USE DEF EInv
<1>1. l \in Workers \X (Nat \ {0}) \X (Nat \ {0})
  BY TypesOfTypeOK DEF IInv, Types
<1>2. PICK w \in Workers, k \in Nat \ {0}, i \in Nat \ {0} : l = <<w, k, i>>
  BY <1>1
<1>3. PICK a \in ServerAnswers :
         Execute(w, k, Requests(adapter[w].dialect, program[w][k])[i], a)
  BY <1>2 DEF ServeLate
<1>4. UNCHANGED <<program, pc, at, nth, told, adapter, reply, result>>
  BY DEF ServeLate
<1>5. k \in DOMAIN program[w] /\ i \in 1 .. Count(program[w][k]) /\ StoreOK /\ LastOK
  BY <1>2, TypesOfTypeOK DEF IInv, Course, Types
<1>6. program[w][k] \in Operations /\ WellFormed(program[w][k])
  BY <1>5, Begun DEF IInv
<1>7. Present'
  BY <1>3, <1>5, <1>6, PresentExecuted
<1>8. UNCHANGED <<release, device>>
  BY <1>3 DEF Execute, fmgVars
<1>9. QED
  BY <1>4, <1>7, <1>8, ExplainedStays

LEMMA ExplainedDetect ==
    ASSUME EInv, NEW w \in Workers, DetectReturns(w) PROVE Owed(w)' /\ Explained(w)'
<1> USE DEF EInv
<1>1. /\ pc[w] = "detect" /\ reply[w] # "none" /\ result[w] = "none"
      /\ reply' = [reply EXCEPT ![w] = "none"]
      /\ UNCHANGED <<release, device, store, last, program, told, late>>
  BY DEF DetectReturns, fmgVars, Owed, Ended
<1>2. Types
  BY TypesOfTypeOK DEF IInv
<1>3. \/ pc' = [pc EXCEPT ![w] = "call"] /\ UNCHANGED <<at, nth, result>>
      \/ Finish(w, "raised", "FMGError")
      \/ (told[w] = <<>> \/ told[w] \notin Registered) /\ Finish(w, "raised", "VersionError")
  BY DetectCases
<1>4. CASE pc' = [pc EXCEPT ![w] = "call"] /\ UNCHANGED <<at, nth, result>>
  <2>1. pc'[w] = "call" /\ reply'[w] = "none" /\ result'[w] = "none"
    BY <1>1, <1>2, <1>4 DEF Types
  <2>2. QED
    BY <1>1, <2>1, ExplainedEnds
<1>5. CASE Finish(w, "raised", "FMGError")
  <2>1. pc'[w] = "raised" /\ result'[w] = "FMGError"
    BY <1>2, <1>5 DEF Finish, Types
  <2>2. QED
    BY <1>1, <2>1, ExplainedEnds DEF Ended
<1>6. CASE (told[w] = <<>> \/ told[w] \notin Registered) /\ Finish(w, "raised", "VersionError")
  <2>1. pc'[w] = "raised" /\ result'[w] = "VersionError"
    BY <1>2, <1>6 DEF Finish, Types
  <2>2. QED
    BY <1>1, <1>6, <2>1 DEF Owed, Explained, Ended
<1>7. QED
  BY <1>3, <1>4, <1>5, <1>6

LEMMA ExplainedReturn ==
    ASSUME EInv, NEW w \in Workers, CallReturns(w) PROVE Owed(w)' /\ Explained(w)'
<1> USE DEF EInv
<1>1. /\ pc[w] = "call" /\ reply[w] # "none" /\ result[w] = "none"
      /\ reply' = [reply EXCEPT ![w] = "none"]
      /\ UNCHANGED <<release, device, store, last, program, told, adapter, late>>
  BY DEF CallReturns, fmgVars, Owed, Ended
<1>2. Types
  BY TypesOfTypeOK DEF IInv
<1>3. reply'[w] = "none"
  BY <1>1, <1>2 DEF Types
<1>4. CASE GoOn(w)
  <2>1. \/ pc'[w] = "call" /\ result'[w] = "none"
        \/ pc'[w] = "returned" /\ result'[w] = "done"
    BY <1>1, <1>2, <1>4 DEF GoOn, Finish, Types
  <2>2. QED
    BY <1>1, <1>3, <2>1, ExplainedEnds DEF Ended
<1>5. CASE ~Passes(Current(w), reply[w]) /\ Finish(w, "raised", ErrorOf(reply[w]))
  <2>1. pc'[w] = "raised" /\ result'[w] = ErrorOf(reply[w]) /\ UNCHANGED <<at, nth>>
    BY <1>2, <1>5 DEF Finish, Types
  <2>2. ErrorOf(reply[w]) = "DuplicateError" => Current(w).kind = "addMember"
    BY <1>1 DEF ErrorOf, Owed
  <2>3. ErrorOf(reply[w]) = "NotFoundError" => MayMiss(w)
    BY <1>1, <1>5 DEF ErrorOf, Owed, Passes
  <2>4. ErrorOf(reply[w]) # "VersionError"
    BY DEF ErrorOf
  <2>5. UNCHANGED <<Current(w), MayMiss(w)>>
    BY <1>1, <2>1 DEF Current, MayMiss, Stale, Ensured, NamesOf
  <2>6. QED
    BY <2>1, <2>2, <2>3, <2>4, <2>5 DEF Owed, Explained, Ended
<1>6. QED
  BY <1>4, <1>5 DEF CallReturns

LEMMA ExplainedNext ==
    ASSUME EInv, [Next]_vars PROVE Present' /\ \A v \in Workers : Owed(v)' /\ Explained(v)'
<1> USE DEF EInv
<1>1. Types
  BY TypesOfTypeOK DEF IInv
<1>2. CASE Upgrade
  BY <1>2, ExplainedUpgrade
<1>3. ASSUME NEW w \in Workers, Start(w) \/ ServeStatus(w) \/ Returns(w) \/ Abandon(w) \/ GiveUp(w)
      PROVE  Present' /\ \A v \in Workers : Owed(v)' /\ Explained(v)'
  <2>1. UNCHANGED <<release, device, store, last>>
    BY <1>3 DEF Start, ServeStatus, Returns, DetectReturns, CallReturns, Abandon, GiveUp,
                fmgVars
  <2>2. Present'
    BY <2>1 DEF Present
  <2>3. ASSUME NEW v \in Workers, v # w PROVE Owed(v)' /\ Explained(v)'
    <3>1. /\ program'[v] = program[v] /\ at'[v] = at[v] /\ adapter'[v] = adapter[v]
          /\ pc'[v] = pc[v] /\ reply'[v] = reply[v] /\ result'[v] = result[v]
          /\ told'[v] = told[v]
      BY <1>1, <1>3, <2>3
         DEF Types, Start, ServeStatus, Returns, DetectReturns, CallReturns, GoOn, Finish,
             Abandon, GiveUp
    <3>2. QED
      BY <2>1, <3>1, ExplainedStays
  <2>4. CASE Start(w)
    <3>1. pc'[w] = "detect" /\ reply'[w] = "none" /\ result'[w] = "none"
      BY <1>1, <2>4 DEF Start, Types, IInv, Fits, Owed, Ended
    <3>2. QED
      BY <2>1, <2>2, <2>3, <3>1, ExplainedEnds
  <2>5. CASE ServeStatus(w)
    <3>1. /\ program'[w] = program[w] /\ at'[w] = at[w] /\ adapter'[w] = adapter[w]
          /\ pc'[w] = pc[w] /\ reply'[w] \in {"ok", "refused"} /\ result'[w] = result[w]
          /\ pc[w] = "detect"
      BY <1>1, <2>5 DEF ServeStatus, Types
    <3>2. QED
      BY <2>1, <2>2, <2>3, <3>1, ExplainedStays
  <2>6. CASE Returns(w)
    BY <2>2, <2>3, <2>6, ExplainedDetect, ExplainedReturn DEF Returns
  <2>7. CASE Abandon(w)
    <3>1. /\ program'[w] = program[w] /\ at'[w] = at[w] /\ adapter'[w] = adapter[w]
          /\ pc'[w] = pc[w] /\ reply'[w] = reply[w] /\ result'[w] = result[w]
          /\ told'[w] = told[w]
      BY <2>7 DEF Abandon
    <3>2. QED
      BY <2>1, <2>2, <2>3, <3>1, ExplainedStays
  <2>8. CASE GiveUp(w)
    <3>1. pc'[w] = "raised" /\ result'[w] = "Transport"
      BY <1>1, <2>8 DEF GiveUp, Finish, Types
    <3>2. QED
      BY <2>1, <2>2, <2>3, <3>1, ExplainedEnds DEF Ended
  <2>9. QED
    BY <1>3, <2>4, <2>5, <2>6, <2>7, <2>8
<1>4. ASSUME NEW w \in Workers, ServeRequest(w)
      PROVE  Present' /\ \A v \in Workers : Owed(v)' /\ Explained(v)'
  BY <1>4, ExplainedServe
<1>5. ASSUME NEW l \in late, ServeLate(l)
      PROVE  Present' /\ \A v \in Workers : Owed(v)' /\ Explained(v)'
  BY <1>5, ExplainedLate
<1>6. CASE UNCHANGED vars
  <2>1. UNCHANGED <<release, device, store, last, program, pc, at, nth, told, adapter,
                    reply, result, late>>
    BY <1>6 DEF vars
  <2>2. QED
    BY <2>1, ExplainedStays DEF Present
<1>7. QED
  BY <1>2, <1>3, <1>4, <1>5, <1>6 DEF Next, Serve

\* Whatever is lost, retried or late: detect_version raises VersionError only when the
\* status call's last answer stated no version, or that of a release without an adapter
\* that FMG runs or ran; only adding a member can find it there already; and
\* NotFoundError has one of the reasons MayMiss names: a variable that ensure_variables
\* has taken care of is never missing unless an upgrade left the adapter behind
\* (detect.py, metafields.py, versions/).
THEOREM ErrorsHaveReasons == Spec => []ErrorsExplained
<1>1. Init => EInv
  <2> SUFFICES ASSUME Init PROVE Present /\ \A w \in Workers : Owed(w) /\ Explained(w)
    BY InitInv DEF EInv
  <2>1. Present
    <3>1. \A n \in Names : <<"variable", n>> \in Rows
      BY DEF Rows, Tables
    <3>2. QED
      BY <3>1 DEF Init, Present
  <2>2. \A w \in Workers : Owed(w) /\ Explained(w)
    BY DEF Init, Owed, Explained
  <2>3. QED
    BY <2>1, <2>2
<1>2. EInv /\ [Next]_vars => EInv'
  <2> SUFFICES ASSUME EInv, [Next]_vars PROVE EInv'
    OBVIOUS
  <2>1. IInv'
    BY StepInv DEF EInv
  <2>2. Present' /\ \A v \in Workers : Owed(v)' /\ Explained(v)'
    BY ExplainedNext
  <2>3. QED
    BY <2>1, <2>2 DEF EInv
<1>3. EInv => ErrorsExplained
  BY DEF EInv, IInv, Fits, Explained, ErrorsExplained
<1>4. QED
  BY <1>1, <1>2, <1>3, PTL DEF Spec
=============================================================================
