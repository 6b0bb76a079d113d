---------------------------- MODULE SymbolsProofs ----------------------------
(***************************************************************************)
(* Proofs about Symbols, for files with any tables and for any number of   *)
(* calls.                                                                  *)
(*                                                                         *)
(* A loop that takes the first match finds what the documentation denotes  *)
(* (Denoted). So a call of peloader_import writes the one slot it denotes, *)
(* and what the calls leave in a slot is by induction what the last of     *)
(* them put there.                                                         *)
(***************************************************************************)
EXTENDS Symbols, SequenceTheorems, WellFoundedInduction, TLAPS

-----------------------------------------------------------------------------
(* First matches *)

\* A set of numbers that is not empty has a least one, and a greatest if it is
\* bounded.
LEMMA Least ==
    ASSUME NEW S \in SUBSET Nat, S # {}
    PROVE  Min(S) \in S /\ \A y \in S : Min(S) <= y
<1> DEFINE R == OpToRel(<, Nat)
<1>1. PICK x \in S : \A y \in S : ~(<<y, x>> \in R)
  <2> HIDE DEF R
  <2>1. IsWellFoundedOn(R, Nat)
    BY NatLessThanWellFounded DEF R
  <2> QED BY <2>1, WFMin
<1>2. \A y \in S : x <= y
  <2> SUFFICES ASSUME NEW y \in S PROVE x <= y
    OBVIOUS
  <2>1. x \in Nat /\ y \in Nat
    OBVIOUS
  <2>2. ~(y < x)
    BY <1>1, <2>1 DEF OpToRel
  <2> QED BY <2>1, <2>2
<1>3. \E z \in S : \A y \in S : z <= y
  BY <1>2
<1> QED BY <1>3, Zenon DEF Min

LEMMA Greatest ==
    ASSUME NEW n \in Nat, NEW S \in SUBSET (1..n), S # {}
    PROVE  Max(S) \in S /\ \A y \in S : y <= Max(S)
<1> DEFINE T == {n - x : x \in S}
<1>1. T \in SUBSET Nat /\ T # {}
  <2>1. \A x \in S : n - x \in Nat
    OBVIOUS
  <2> QED BY <2>1
<1>2. Min(T) \in T /\ \A y \in T : Min(T) <= y
  BY <1>1, Least
<1>3. PICK x \in S : n - x = Min(T)
  BY <1>2
<1>4. \A y \in S : x >= y
  <2> SUFFICES ASSUME NEW y \in S PROVE x >= y
    OBVIOUS
  <2>1. n - x <= n - y
    BY <1>2, <1>3
  <2> QED BY <2>1
<1>5. \E z \in S : \A y \in S : z >= y
  BY <1>4
<1>6. Max(S) \in S /\ \A y \in S : Max(S) >= y
  BY <1>5, Zenon DEF Max
<1>7. \A y \in S : y \in Nat
  OBVIOUS
<1>8. Max(S) \in Nat
  BY <1>6, <1>7, Zenon
<1> QED BY <1>6, <1>7, <1>8

\* A loop that takes the first element of a kind.
LEMMA FirstOf ==
    ASSUME NEW n \in Nat, NEW I \in SUBSET (1..n), NEW f,
           f = IF I # {} THEN Min(I) ELSE 0
    PROVE  /\ f \in 0..n
           /\ f # 0 => f \in I /\ \A j \in 1..f-1 : j \notin I
           /\ f = 0 => I = {}
<1>1. CASE I = {}
  BY <1>1
<1>2. CASE I # {}
  <2>1. I \in SUBSET Nat
    OBVIOUS
  <2>2. Min(I) \in I /\ \A y \in I : Min(I) <= y
    BY <1>2, <2>1, Least
  <2>3. f \in I /\ \A y \in I : f <= y
    BY <1>2, <2>2
  <2> QED BY <2>3
<1> QED BY <1>1, <1>2

\* The first module of a name.
LEMMA ModuleFound ==
    ASSUME Len(imports) \in Nat, NEW name
    PROVE  LET i == FindImportModule(name) IN
           /\ i \in 0..Len(imports)
           /\ i # 0 => /\ imports[i].name = name
                       /\ \A j \in 1..i-1 : imports[j].name # name
           /\ i = 0 => \A j \in 1..Len(imports) : imports[j].name # name
<1> DEFINE I == {i \in 1..Len(imports) : imports[i].name = name}
           f == FindImportModule(name)
<1>1. f = IF I # {} THEN Min(I) ELSE 0
  BY DEF FindImportModule, SelectInSeq
<1>2. I \in SUBSET (1..Len(imports))
  OBVIOUS
<1> HIDE DEF f
<1>3. /\ f \in 0..Len(imports)
      /\ f # 0 => f \in I /\ \A j \in 1..f-1 : j \notin I
      /\ f = 0 => I = {}
  <2> HIDE DEF I
  <2> QED BY <1>1, <1>2, FirstOf
<1>4. \A j \in 1..f-1 : j \in 1..Len(imports)
  BY <1>3
<1>5. /\ f # 0 => /\ imports[f].name = name
                  /\ \A j \in 1..f-1 : imports[j].name # name
      /\ f = 0 => \A j \in 1..Len(imports) : imports[j].name # name
  BY <1>3, <1>4
<1> QED BY <1>3, <1>5 DEF f

\* What Denotes asks of the functions of a module.
HasOrdinal(f, symbol) ==
    symbol.ordinal # NoOrdinal /\ f.ordinal = symbol.ordinal
HasName(f, symbol) == symbol.name # NULL /\ f.name = symbol.name

LEMMA OrdinalFound ==
    ASSUME NEW symbols, NEW symbol, Len(symbols) \in Nat
    PROVE  LET k == ByOrdinal(symbols, symbol) IN
           /\ k \in 0..Len(symbols)
           /\ k # 0 => /\ HasOrdinal(symbols[k], symbol)
                       /\ \A j \in 1..k-1 : ~HasOrdinal(symbols[j], symbol)
           /\ k = 0 => \A j \in 1..Len(symbols) : ~HasOrdinal(symbols[j], symbol)
<1> DEFINE I == {i \in 1..Len(symbols) : HasOrdinal(symbols[i], symbol)}
           f == ByOrdinal(symbols, symbol)
<1>1. f = IF I # {} THEN Min(I) ELSE 0
  <2>1. CASE symbol.ordinal = NoOrdinal
    BY <2>1 DEF ByOrdinal, HasOrdinal
  <2>2. CASE symbol.ordinal # NoOrdinal
    <3>1. I = {i \in 1..Len(symbols) : symbols[i].ordinal = symbol.ordinal}
      BY <2>2 DEF HasOrdinal
    <3> QED BY <2>2, <3>1 DEF ByOrdinal, SelectInSeq
  <2> QED BY <2>1, <2>2
<1>2. I \in SUBSET (1..Len(symbols))
  OBVIOUS
<1> HIDE DEF f
<1>3. /\ f \in 0..Len(symbols)
      /\ f # 0 => f \in I /\ \A j \in 1..f-1 : j \notin I
      /\ f = 0 => I = {}
  <2> HIDE DEF I
  <2> QED BY <1>1, <1>2, FirstOf
<1>4. \A j \in 1..f-1 : j \in 1..Len(symbols)
  BY <1>3
<1>5. /\ f # 0 => /\ HasOrdinal(symbols[f], symbol)
                  /\ \A j \in 1..f-1 : ~HasOrdinal(symbols[j], symbol)
      /\ f = 0 => \A j \in 1..Len(symbols) : ~HasOrdinal(symbols[j], symbol)
  BY <1>3, <1>4
<1> QED BY <1>3, <1>5 DEF f

LEMMA NameFound ==
    ASSUME NEW symbols, NEW symbol, Len(symbols) \in Nat
    PROVE  LET k == ByName(symbols, symbol) IN
           /\ k \in 0..Len(symbols)
           /\ k # 0 => /\ HasName(symbols[k], symbol)
                       /\ \A j \in 1..k-1 : ~HasName(symbols[j], symbol)
           /\ k = 0 => \A j \in 1..Len(symbols) : ~HasName(symbols[j], symbol)
<1> DEFINE I == {i \in 1..Len(symbols) : HasName(symbols[i], symbol)}
           f == ByName(symbols, symbol)
<1>1. f = IF I # {} THEN Min(I) ELSE 0
  <2>1. CASE symbol.name = NULL
    BY <2>1 DEF ByName, HasName
  <2>2. CASE symbol.name # NULL
    <3>1. I = {i \in 1..Len(symbols) : symbols[i].name = symbol.name}
      BY <2>2 DEF HasName
    <3> QED BY <2>2, <3>1 DEF ByName, SelectInSeq
  <2> QED BY <2>1, <2>2
<1>2. I \in SUBSET (1..Len(symbols))
  OBVIOUS
<1> HIDE DEF f
<1>3. /\ f \in 0..Len(symbols)
      /\ f # 0 => f \in I /\ \A j \in 1..f-1 : j \notin I
      /\ f = 0 => I = {}
  <2> HIDE DEF I
  <2> QED BY <1>1, <1>2, FirstOf
<1>4. \A j \in 1..f-1 : j \in 1..Len(symbols)
  BY <1>3
<1>5. /\ f # 0 => /\ HasName(symbols[f], symbol)
                  /\ \A j \in 1..f-1 : ~HasName(symbols[j], symbol)
      /\ f = 0 => \A j \in 1..Len(symbols) : ~HasName(symbols[j], symbol)
  BY <1>3, <1>4
<1> QED BY <1>3, <1>5 DEF f

-----------------------------------------------------------------------------
(* The invariant *)

Call == [module : ModuleNames \cup {NULL}, symbol : SymbolsAsked,
         address : Addresses]

\* What parseImports leaves in `imports`, with a slot for each function.
ImportsRead ==
    /\ imports = [i \in DOMAIN importDir |-> ImportModule(importDir[i])]
    /\ \A i \in DOMAIN importDir :
          /\ slots[i] = [k \in DOMAIN importDir[i].table |-> slots[i][k]]
          /\ \A k \in DOMAIN importDir[i].table :
                slots[i][k] \in Addresses \cup {"unboundImport"}

Unbound ==
    \A i \in DOMAIN importDir : \A k \in DOMAIN importDir[i].table :
       slots[i][k] = "unboundImport"

\* What parseExports leaves in `exports`: the ordinal is the table's as far as
\* the table goes.
ExportsRead ==
    /\ Len(exports) = Len(exportDir.addresses)
    /\ DOMAIN exports = 1..Len(exports)
    /\ \A i \in DOMAIN exports :
          /\ exports[i].name = IF i <= Len(exportDir.names)
                               THEN exportDir.names[i] ELSE NULL
          /\ exports[i].address = exportDir.addresses[i]
          /\ i <= Len(exportDir.ordinals) =>
                exports[i].ordinal = exportDir.base + exportDir.ordinals[i]

SymInv ==
    /\ [imports |-> importDir, exports |-> exportDir] \in Files
    /\ stage \in {"imports", "exports", "ready", "failed"}
    /\ process \in {"running", "faulted", "undefined"}
    /\ slots = [i \in DOMAIN importDir |-> slots[i]]
    /\ calls \in Seq(Call)
    /\ stage # "ready" => calls = <<>> /\ answer.to = "none"
    /\ stage = "imports" => \A i \in DOMAIN importDir : slots[i] = importDir[i].table
    /\ stage # "imports" => ImportsRead
    /\ stage = "exports" => Unbound
    /\ stage = "ready" => ExportsRead
    /\ LastBindWins
    /\ ImportAnswers

\* The tables of the file are sequences.
LEMMA TablesAreSequences ==
    ASSUME [imports |-> importDir, exports |-> exportDir] \in Files
    PROVE  /\ Len(importDir) \in Nat /\ DOMAIN importDir = 1..Len(importDir)
           /\ Len(exportDir.addresses) \in Nat
           /\ \A i \in DOMAIN importDir :
                 LET table == importDir[i].table IN
                 /\ Len(table) \in Nat /\ DOMAIN table = 1..Len(table)
<1> DEFINE f == [imports |-> importDir, exports |-> exportDir]
<1>1. /\ f \in Files
      /\ f.imports = importDir /\ f.exports = exportDir
  OBVIOUS
<1> HIDE DEF f
<1>2. /\ IsTable(importDir) /\ IsTable(exportDir.addresses)
      /\ \A i \in DOMAIN importDir : IsTable(importDir[i].table)
  BY <1>1, SymbolAssumption
<1>3. ASSUME NEW t, IsTable(t)
      PROVE  Len(t) \in Nat /\ DOMAIN t = 1..Len(t)
  BY <1>3, LenProperties DEF IsTable
<1> QED BY <1>2, <1>3

\* A function over the numbers from 1 is a sequence.
LEMMA FunctionIsSequence ==
    ASSUME NEW s, NEW n \in Nat, s = [i \in 1..n |-> s[i]]
    PROVE  Len(s) = n
<1> DEFINE S == {s[i] : i \in 1..n}
<1>1. s \in [1..n -> S]
  OBVIOUS
<1>2. s \in Seq(S)
  BY <1>1, SeqDef
<1>3. DOMAIN s = 1..n
  OBVIOUS
<1>4. Len(s) \in Nat /\ DOMAIN s = 1..Len(s)
  BY <1>2, LenProperties
<1> HIDE DEF S
<1> QED BY <1>3, <1>4

\* The modules of `imports` are those of the directory, with as many functions.
LEMMA ParsedShape ==
    ASSUME SymInv, stage # "imports"
    PROVE  /\ Len(imports) \in Nat /\ Len(imports) = Len(importDir)
           /\ DOMAIN imports = 1..Len(imports)
           /\ DOMAIN importDir = 1..Len(imports)
           /\ \A i \in DOMAIN importDir :
                 LET functions == imports[i].functions IN
                 /\ imports[i].name = importDir[i].name
                 /\ Len(functions) \in Nat
                 /\ Len(functions) = Len(importDir[i].table)
                 /\ DOMAIN functions = 1..Len(functions)
                 /\ DOMAIN slots[i] = 1..Len(functions)
                 /\ DOMAIN importDir[i].table = 1..Len(functions)
                 /\ \A k \in DOMAIN functions :
                       functions[k] = ImportedFunction(importDir[i].table[k])
<1>1. ImportsRead /\ [imports |-> importDir, exports |-> exportDir] \in Files
  BY DEF SymInv
<1>2. /\ Len(importDir) \in Nat /\ DOMAIN importDir = 1..Len(importDir)
      /\ \A i \in DOMAIN importDir :
            LET table == importDir[i].table IN
            /\ Len(table) \in Nat /\ DOMAIN table = 1..Len(table)
  BY <1>1, TablesAreSequences
<1>3. Len(imports) = Len(importDir) /\ DOMAIN imports = DOMAIN importDir
  <2>1. imports = [i \in 1..Len(importDir) |-> imports[i]]
    BY <1>1, <1>2 DEF ImportsRead
  <2> QED BY <2>1, <1>2, FunctionIsSequence
<1>4. ASSUME NEW i \in DOMAIN importDir
      PROVE  LET functions == imports[i].functions IN
             /\ imports[i].name = importDir[i].name
             /\ Len(functions) = Len(importDir[i].table)
             /\ DOMAIN functions = DOMAIN importDir[i].table
             /\ \A k \in DOMAIN functions :
                   functions[k] = ImportedFunction(importDir[i].table[k])
  <2> DEFINE functions == imports[i].functions
             table == importDir[i].table
  <2>1. imports[i] = ImportModule(importDir[i])
    BY <1>1, <1>4 DEF ImportsRead
  <2>2. /\ imports[i].name = importDir[i].name
        /\ functions = [k \in DOMAIN table |-> ImportedFunction(table[k])]
    BY <2>1 DEF ImportModule
  <2>3. functions = [k \in 1..Len(table) |-> functions[k]]
    BY <2>2, <1>2, <1>4
  <2>4. Len(functions) = Len(table)
    <3> HIDE DEF functions
    <3> QED BY <2>3, <1>2, <1>4, FunctionIsSequence
  <2> QED BY <2>2, <2>4
<1>5. \A i \in DOMAIN importDir : DOMAIN slots[i] = DOMAIN importDir[i].table
  BY <1>1 DEF ImportsRead
<1> QED BY <1>2, <1>3, <1>4, <1>5

\* The first match of the loops is the slot the documentation denotes.
LEMMA Denoted ==
    ASSUME SymInv, stage # "imports", NEW c, NEW i \in DOMAIN importDir,
           NEW k \in DOMAIN importDir[i].table
    PROVE  Denotes(c, i, k) <=>
              /\ c.module # NULL
              /\ i = FindImportModule(c.module)
              /\ k = Find(imports[i].functions, c.symbol)
<1> DEFINE functions == imports[i].functions
           symbol == c.symbol
<1>1. /\ Len(imports) \in Nat /\ i \in 1..Len(imports)
      /\ Len(functions) \in Nat /\ k \in 1..Len(functions)
      /\ DOMAIN functions = 1..Len(functions)
  BY ParsedShape
<1> DEFINE m == FindImportModule(c.module)
           o == ByOrdinal(functions, symbol)
           n == ByName(functions, symbol)
           FirstOrdinal == /\ HasOrdinal(functions[k], symbol)
                           /\ \A l \in 1..k-1 : ~HasOrdinal(functions[l], symbol)
           NoneHasOrdinal == \A l \in 1..Len(functions) :
                                ~HasOrdinal(functions[l], symbol)
           FirstName == /\ HasName(functions[k], symbol)
                        /\ \A l \in 1..k-1 : ~HasName(functions[l], symbol)
           FirstModule == /\ imports[i].name = c.module
                          /\ \A j \in 1..i-1 : imports[j].name # c.module
<1>2. Denotes(c, i, k) <=> /\ c.module # NULL /\ FirstModule
                           /\ \/ FirstOrdinal
                              \/ NoneHasOrdinal /\ FirstName
  BY <1>1 DEF Denotes, HasOrdinal, HasName
<1>3. FirstModule <=> i = m
  <2>1. /\ m \in 0..Len(imports)
        /\ m # 0 => /\ imports[m].name = c.module
                    /\ \A j \in 1..m-1 : imports[j].name # c.module
        /\ m = 0 => \A j \in 1..Len(imports) : imports[j].name # c.module
    BY <1>1, ModuleFound
  <2> HIDE DEF m
  <2> QED BY <1>1, <2>1
<1>4. /\ o \in 0..Len(functions)
      /\ o # 0 => /\ HasOrdinal(functions[o], symbol)
                  /\ \A j \in 1..o-1 : ~HasOrdinal(functions[j], symbol)
      /\ o = 0 => NoneHasOrdinal
  <2> HIDE DEF functions, symbol
  <2> QED BY <1>1, OrdinalFound
<1>5. /\ n \in 0..Len(functions)
      /\ n # 0 => /\ HasName(functions[n], symbol)
                  /\ \A j \in 1..n-1 : ~HasName(functions[j], symbol)
      /\ n = 0 => \A j \in 1..Len(functions) : ~HasName(functions[j], symbol)
  <2> HIDE DEF functions, symbol
  <2> QED BY <1>1, NameFound
<1> HIDE DEF functions, symbol, o, n
<1>6. FirstOrdinal <=> k = o
  BY <1>1, <1>4
<1>7. NoneHasOrdinal <=> o = 0
  BY <1>4
<1>8. FirstName <=> k = n
  BY <1>1, <1>5
<1>9. Find(functions, symbol) = IF o # 0 THEN o ELSE n
  BY DEF Find, o, n
<1>10. (FirstOrdinal \/ (NoneHasOrdinal /\ FirstName))
       <=> k = Find(functions, symbol)
  <2> HIDE DEF FirstOrdinal, NoneHasOrdinal, FirstName
  <2> QED BY <1>1, <1>4, <1>6, <1>7, <1>8, <1>9
<1> QED BY <1>2, <1>3, <1>10 DEF functions, symbol

-----------------------------------------------------------------------------
(* The history of a slot *)

\* A call that denotes a slot is the last to do so, any other changes nothing.
LEMMA LastBoundAppend ==
    ASSUME calls \in Seq(Call), NEW c \in Call, calls' = Append(calls, c),
           imports' = imports, NEW i, NEW k
    PROVE  LastBound(i, k)' =
              IF Denotes(c, i, k) THEN c.address ELSE LastBound(i, k)
<1> DEFINE n == Len(calls)
           B == {m \in DOMAIN calls : Denotes(calls[m], i, k)}
           C == {m \in DOMAIN calls' : Denotes(calls'[m], i, k)}
<1>1. /\ n \in Nat /\ Len(calls') = n + 1
      /\ DOMAIN calls = 1..n /\ DOMAIN calls' = 1..(n + 1)
      /\ calls'[n + 1] = c
      /\ \A m \in 1..n : calls'[m] = calls[m]
  BY LenProperties, AppendProperties
<1>2. LastBound(i, k)' =
         IF C = {} THEN "unboundImport" ELSE calls'[Max(C)].address
  BY DEF LastBound, Denotes
<1>3. LastBound(i, k) =
         IF B = {} THEN "unboundImport" ELSE calls[Max(B)].address
  BY DEF LastBound
<1>4. C = IF Denotes(c, i, k) THEN B \cup {n + 1} ELSE B
  BY <1>1
<1>5. B \in SUBSET (1..n) /\ C \in SUBSET (1..(n + 1))
  BY <1>1
<1> HIDE DEF B, C, n
<1>6. CASE Denotes(c, i, k)
  <2>1. C # {} /\ n + 1 \in C
    BY <1>4, <1>6
  <2> DEFINE last == n + 1
  <2>2. Max(C) \in C /\ \A y \in C : y <= Max(C)
    <3>1. last \in Nat /\ C \in SUBSET (1..last)
      BY <1>1, <1>5
    <3> HIDE DEF last
    <3> QED BY <2>1, <3>1, Greatest
  <2>3. Max(C) = n + 1
    <3>1. Max(C) \in 1..(n + 1) /\ n + 1 <= Max(C)
      BY <1>5, <2>1, <2>2, Zenon
    <3> QED BY <1>1, <3>1
  <2> QED BY <1>1, <1>2, <1>6, <2>1, <2>3
<1>7. CASE ~Denotes(c, i, k)
  <2>1. C = B
    BY <1>4, <1>7
  <2>2. CASE B = {}
    BY <1>2, <1>3, <1>7, <2>1, <2>2
  <2>3. CASE B # {}
    <3>1. Max(B) \in 1..n
      BY <1>1, <1>5, <2>3, Greatest
    <3> QED BY <1>1, <1>2, <1>3, <1>7, <2>1, <2>3, <3>1
  <2> QED BY <2>2, <2>3
<1> QED BY <1>6, <1>7

LEMMA LastBoundKept ==
    ASSUME UNCHANGED <<calls, imports>>, NEW i, NEW k
    PROVE  LastBound(i, k)' = LastBound(i, k)
BY DEF LastBound, Denotes

-----------------------------------------------------------------------------
(* Each action keeps the invariant *)

LEMMA InitEstablishes == Init => SymInv
<1> SUFFICES ASSUME Init PROVE SymInv
  OBVIOUS
<1>1. PICK f \in Files : importDir = f.imports /\ exportDir = f.exports
  BY DEF Init
<1>2. [imports |-> importDir, exports |-> exportDir] \in Files
  BY <1>1, SymbolAssumption
<1>3. calls \in Seq(Call)
  BY DEF Init
<1> QED BY <1>2, <1>3 DEF Init, SymInv, LastBindWins, ImportAnswers, Ready

LEMMA ParseImportsKeeps == SymInv /\ ParseImports => SymInv'
<1> SUFFICES ASSUME SymInv, ParseImports PROVE SymInv'
  OBVIOUS
<1>1. /\ slots = [i \in DOMAIN importDir |-> slots[i]]
      /\ \A i \in DOMAIN importDir : slots[i] = importDir[i].table
      /\ importDir' = importDir
  BY DEF SymInv, ParseImports, tables
<1>2. slots' = [i \in DOMAIN importDir |->
                  [k \in DOMAIN importDir[i].table |-> "unboundImport"]]
  BY <1>1 DEF ParseImports
<1>3. Unbound' /\ slots' = [i \in DOMAIN importDir' |-> slots'[i]]
  BY <1>1, <1>2 DEF Unbound
<1>4. ImportsRead'
  <2>1. \A i \in DOMAIN importDir :
           slots'[i] = [k \in DOMAIN importDir[i].table |-> slots'[i][k]]
    BY <1>2
  <2>2. imports' = [i \in DOMAIN importDir' |-> ImportModule(importDir'[i])]
    BY <1>1 DEF ParseImports
  <2> QED BY <1>1, <1>3, <2>1, <2>2 DEF ImportsRead, Unbound
<1>5. stage' = "exports" /\ UNCHANGED <<importDir, exportDir, calls, answer, process>>
  BY DEF ParseImports, tables
<1> QED BY <1>3, <1>4, <1>5 DEF SymInv, ParseImports, LastBindWins, ImportAnswers, Ready

LEMMA ExportedFields ==
    ASSUME NEW i, NEW ordinal
    PROVE  LET e == ExportedFunction(i, ordinal) IN
           /\ e.name = IF i <= Len(exportDir.names) THEN exportDir.names[i]
                       ELSE NULL
           /\ e.ordinal = exportDir.base + ordinal
           /\ e.address = exportDir.addresses[i]
BY DEF ExportedFunction

LEMMA ParseExportsKeeps == SymInv /\ ParseExports => SymInv'
<1> SUFFICES ASSUME SymInv, ParseExports PROVE SymInv'
  OBVIOUS
<1> DEFINE count == Len(exportDir.addresses)
<1>1. /\ stage = "exports" /\ ImportsRead /\ Unbound
      /\ UNCHANGED <<importDir, exportDir, slots, imports, calls, answer>>
      /\ calls = <<>> /\ answer.to = "none"
      /\ [imports |-> importDir, exports |-> exportDir] \in Files
  BY DEF SymInv, ParseExports, tables
<1>2. ImportsRead' /\ Unbound'
  BY <1>1 DEF ImportsRead, Unbound
<1>3. \/ stage' = "failed" /\ process' = process
      \/ stage' = "exports" /\ process' = "undefined"
      \/ /\ stage' = "ready" /\ process' = process
         /\ ExportsRead'
  <2>1. CASE stage' = "ready"
    <3>1. PICK read \in [1..count -> UNION {OrdinalsRead(i) : i \in 1..count}] :
             /\ \A i \in 1..count : read[i] \in OrdinalsRead(i)
             /\ exports' = [i \in 1..count |-> ExportedFunction(i, read[i])]
      BY <1>1, <2>1 DEF ParseExports
    <3>2. count \in Nat
      BY <1>1, TablesAreSequences
    <3>3. /\ exports' = [i \in 1..count |-> exports'[i]]
          /\ \A i \in 1..count : exports'[i] = ExportedFunction(i, read[i])
      BY <3>1
    <3>4. Len(exports') = count /\ DOMAIN exports' = 1..count
      BY <3>2, <3>3, FunctionIsSequence
    <3>5. \A i \in 1..count : i <= Len(exportDir.ordinals) =>
                                 read[i] = exportDir.ordinals[i]
      BY <3>1 DEF OrdinalsRead
    <3>6. \A i \in 1..count :
             /\ exports'[i].name = IF i <= Len(exportDir.names)
                                   THEN exportDir.names[i] ELSE NULL
             /\ exports'[i].address = exportDir.addresses[i]
             /\ exports'[i].ordinal = exportDir.base + read[i]
      <4> SUFFICES ASSUME NEW i \in 1..count
                   PROVE  /\ exports'[i].name = IF i <= Len(exportDir.names)
                                                THEN exportDir.names[i] ELSE NULL
                          /\ exports'[i].address = exportDir.addresses[i]
                          /\ exports'[i].ordinal = exportDir.base + read[i]
        OBVIOUS
      <4>1. exports'[i] = ExportedFunction(i, read[i])
        BY <3>3
      <4> QED BY <4>1, ExportedFields
    <3>7. ExportsRead'
      BY <1>1, <3>4, <3>5, <3>6 DEF ExportsRead
    <3> QED BY <1>1, <2>1, <3>7 DEF ParseExports
  <2> QED BY <1>1, <2>1 DEF ParseExports
<1>4. LastBindWins'
  <2> SUFFICES ASSUME Ready', NEW i \in DOMAIN slots', NEW k \in DOMAIN slots'[i]
               PROVE  slots'[i][k] = LastBound(i, k)'
    BY DEF LastBindWins
  <2>1. slots'[i][k] = "unboundImport"
    <3>1. i \in DOMAIN importDir
      BY <1>1 DEF SymInv
    <3>2. k \in DOMAIN importDir[i].table
      BY <1>1, <3>1 DEF ImportsRead
    <3> QED BY <1>1, <3>1, <3>2 DEF Unbound
  <2>2. LastBound(i, k)' = "unboundImport"
    BY <1>1 DEF LastBound
  <2> QED BY <2>1, <2>2
<1>5. ImportAnswers'
  BY <1>1 DEF ImportAnswers
<1> QED BY <1>1, <1>2, <1>3, <1>4, <1>5 DEF SymInv

\* A call of peloader_import is refused, leads nowhere, or binds the one slot
\* that it denotes.
LEMMA ImportCases ==
    ASSUME SymInv, NEW module \in ModuleNames \cup {NULL},
           NEW symbol \in SymbolsAsked, NEW address \in Addresses,
           PeloaderImport(module, symbol, address)
    PROVE  LET c == [module |-> module, symbol |-> symbol, address |-> address]
               i == FindImportModule(module)
               k == Find(imports[i].functions, symbol)
           IN
           \/ /\ Refuse("import")
              /\ \A x \in DOMAIN importDir : \A y \in DOMAIN importDir[x].table :
                    ~Denotes(c, x, y)
           \/ process' # "running" /\ UNCHANGED <<slots, answer>>
           \/ /\ i \in DOMAIN importDir /\ k \in DOMAIN importDir[i].table
              /\ Denotes(c, i, k)
              /\ Bind(i, k, address)
              /\ answer' = [to |-> "import", code |-> "zero"]
              /\ UNCHANGED process
<1> DEFINE c == [module |-> module, symbol |-> symbol, address |-> address]
           i == FindImportModule(module)
           k == Find(imports[i].functions, symbol)
<1>1. /\ stage = "ready"
      /\ c.module = module /\ c.symbol = symbol /\ c.address = address
  BY DEF PeloaderImport
<1>2. \A x \in DOMAIN importDir : \A y \in DOMAIN importDir[x].table :
         Denotes(c, x, y) <=> /\ module # NULL /\ x = i
                              /\ y = Find(imports[x].functions, symbol)
  <2> HIDE DEF i
  <2> SUFFICES ASSUME NEW x \in DOMAIN importDir,
                      NEW y \in DOMAIN importDir[x].table
               PROVE  Denotes(c, x, y) <=>
                         /\ module # NULL /\ x = i
                         /\ y = Find(imports[x].functions, symbol)
    OBVIOUS
  <2> HIDE DEF c
  <2> QED BY <1>1, Denoted DEF i
<1>3. /\ Len(imports) \in Nat /\ DOMAIN importDir = 1..Len(imports)
      /\ \A x \in DOMAIN importDir :
            /\ Len(imports[x].functions) \in Nat
            /\ DOMAIN importDir[x].table = 1..Len(imports[x].functions)
  BY <1>1, ParsedShape
<1>4. i \in 0..Len(imports)
  BY <1>3, ModuleFound
<1>5. i # 0 => k \in 0..Len(imports[i].functions)
  <2> SUFFICES ASSUME i # 0 PROVE k \in 0..Len(imports[i].functions)
    OBVIOUS
  <2>1. i \in DOMAIN importDir
    BY <1>3, <1>4
  <2> DEFINE functions == imports[i].functions
  <2>2. Len(functions) \in Nat
    BY <1>3, <2>1
  <2> HIDE DEF functions
  <2>3. /\ ByOrdinal(functions, symbol) \in 0..Len(functions)
        /\ ByName(functions, symbol) \in 0..Len(functions)
    BY <2>2, OrdinalFound, NameFound
  <2> QED BY <2>3 DEF Find, functions
<1> HIDE DEF i, c
<1>6. CASE module = NULL \/ i = 0
  <2>1. Refuse("import")
    BY <1>6 DEF PeloaderImport, i
  <2>2. \A x \in DOMAIN importDir : \A y \in DOMAIN importDir[x].table :
           ~Denotes(c, x, y)
    BY <1>2, <1>3, <1>6
  <2> QED BY <2>1, <2>2 DEF c
<1>7. CASE module # NULL /\ i # 0 /\ k = 0
  <2>1. \A x \in DOMAIN importDir : \A y \in DOMAIN importDir[x].table :
           ~Denotes(c, x, y)
    BY <1>2, <1>3, <1>7
  <2>2. \/ Refuse("import")
        \/ process' # "running" /\ UNCHANGED <<slots, answer>>
    BY <1>7 DEF PeloaderImport, i
  <2> QED BY <2>1, <2>2 DEF c
<1>8. CASE module # NULL /\ i # 0 /\ k # 0
  <2>1. i \in DOMAIN importDir
    BY <1>3, <1>4, <1>8
  <2>2. k \in DOMAIN importDir[i].table
    <3> HIDE DEF k
    <3> QED BY <1>3, <1>5, <1>8, <2>1
  <2>3. Denotes(c, i, k)
    BY <1>2, <1>8, <2>1, <2>2
  <2>4. \/ process' # "running" /\ UNCHANGED <<slots, answer>>
        \/ /\ Bind(i, k, address)
           /\ answer' = [to |-> "import", code |-> "zero"]
           /\ UNCHANGED process
    BY <1>8 DEF PeloaderImport, i
  <2> QED BY <2>1, <2>2, <2>3, <2>4 DEF c, i
<1> QED BY <1>6, <1>7, <1>8

LEMMA ImportKeeps ==
    ASSUME SymInv, NEW module \in ModuleNames \cup {NULL},
           NEW symbol \in SymbolsAsked, NEW address \in Addresses,
           PeloaderImport(module, symbol, address)
    PROVE  SymInv'
<1> DEFINE c == [module |-> module, symbol |-> symbol, address |-> address]
           m == FindImportModule(module)
           f == Find(imports[m].functions, symbol)
<1>1. /\ stage = "ready" /\ process = "running" /\ stage' = stage
      /\ UNCHANGED <<importDir, exportDir, imports, exports>>
      /\ calls \in Seq(Call) /\ c \in Call /\ calls' = Append(calls, c)
      /\ c.address = address
      /\ ImportsRead /\ slots = [i \in DOMAIN importDir |-> slots[i]]
  BY DEF PeloaderImport, tables, SymInv, Call
<1>2. /\ calls' \in Seq(Call) /\ calls'[Len(calls')] = c
      /\ ExportsRead'
  <2>1. ExportsRead'
    BY <1>1 DEF SymInv, ExportsRead
  <2> HIDE DEF c
  <2> QED BY <1>1, <2>1, AppendProperties, LenProperties
<1>3. \A i, k : LastBound(i, k)' = IF Denotes(c, i, k) THEN address
                                   ELSE LastBound(i, k)
  <2> HIDE DEF c
  <2> QED BY <1>1, LastBoundAppend
<1>4. \A i \in DOMAIN importDir : \A k \in DOMAIN importDir[i].table :
         slots[i][k] = LastBound(i, k)
  BY <1>1 DEF SymInv, LastBindWins, Ready, ImportsRead
<1>5. \A i, k : Denotes(calls[Len(calls)], i, k)' <=> Denotes(c, i, k)
  <2> SUFFICES ASSUME NEW i, NEW k
               PROVE  Denotes(calls[Len(calls)], i, k)' <=> Denotes(c, i, k)
    OBVIOUS
  <2> HIDE DEF c
  <2> QED BY <1>1, <1>2 DEF Denotes
<1>6. \/ /\ Refuse("import")
         /\ \A i \in DOMAIN importDir : \A k \in DOMAIN importDir[i].table :
               ~Denotes(c, i, k)
      \/ process' # "running" /\ UNCHANGED <<slots, answer>>
      \/ /\ m \in DOMAIN importDir /\ f \in DOMAIN importDir[m].table
         /\ Denotes(c, m, f)
         /\ Bind(m, f, address)
         /\ answer' = [to |-> "import", code |-> "zero"]
         /\ UNCHANGED process
  BY ImportCases
<1>7. \A i \in DOMAIN importDir : \A k \in DOMAIN importDir[i].table :
         Denotes(c, i, k) => i = m /\ k = f
  <2> SUFFICES ASSUME NEW i \in DOMAIN importDir,
                      NEW k \in DOMAIN importDir[i].table, Denotes(c, i, k)
               PROVE  i = m /\ k = f
    OBVIOUS
  <2>1. i = FindImportModule(c.module) /\ k = Find(imports[i].functions, c.symbol)
    <3> HIDE DEF c
    <3> QED BY <1>1, Denoted
  <2> QED BY <2>1
<1> HIDE DEF c, m, f
<1>8. CASE /\ Refuse("import")
           /\ \A i \in DOMAIN importDir : \A k \in DOMAIN importDir[i].table :
                 ~Denotes(c, i, k)
  <2>1. /\ UNCHANGED <<slots, process>>
        /\ answer'.to = "import" /\ answer'.code = "EINVAL"
    BY <1>8 DEF Refuse
  <2>2. ImportsRead' /\ slots' = [i \in DOMAIN importDir' |-> slots'[i]]
    BY <1>1, <2>1 DEF ImportsRead
  <2>3. /\ DOMAIN slots' = DOMAIN importDir
        /\ \A i \in DOMAIN importDir : DOMAIN slots'[i] = DOMAIN importDir[i].table
    BY <1>1, <2>2 DEF ImportsRead
  <2>4. LastBindWins'
    BY <1>3, <1>4, <1>8, <2>1, <2>3 DEF LastBindWins
  <2>5. ImportAnswers'
    BY <1>5, <1>8, <2>1, <2>3 DEF ImportAnswers
  <2> QED BY <1>1, <1>2, <2>1, <2>2, <2>4, <2>5 DEF SymInv
<1>9. CASE process' # "running" /\ UNCHANGED <<slots, answer>>
  <2>1. ImportsRead' /\ slots' = [i \in DOMAIN importDir' |-> slots'[i]]
    BY <1>1, <1>9 DEF ImportsRead
  <2>2. process' \in {"running", "faulted", "undefined"}
    BY <1>1 DEF PeloaderImport, Refuse
  <2> QED BY <1>1, <1>2, <1>9, <2>1, <2>2
          DEF SymInv, LastBindWins, ImportAnswers, Ready
<1>10. CASE /\ m \in DOMAIN importDir /\ f \in DOMAIN importDir[m].table
            /\ Denotes(c, m, f)
            /\ Bind(m, f, address)
            /\ answer' = [to |-> "import", code |-> "zero"]
            /\ UNCHANGED process
  <2>1. slots' = [slots EXCEPT ![m][f] = address]
    BY <1>10 DEF Bind
  <2>2. /\ slots' = [i \in DOMAIN importDir' |-> slots'[i]]
        /\ DOMAIN slots' = DOMAIN importDir
    BY <1>1, <2>1
  <2>3. \A i \in DOMAIN importDir :
           /\ slots'[i] = [k \in DOMAIN importDir[i].table |-> slots'[i][k]]
           /\ DOMAIN slots'[i] = DOMAIN importDir[i].table
           /\ \A k \in DOMAIN importDir[i].table :
                 slots'[i][k] = IF i = m /\ k = f THEN address ELSE slots[i][k]
    <3> SUFFICES ASSUME NEW i \in DOMAIN importDir
                 PROVE  LET table == importDir[i].table IN
                        /\ slots'[i] = [k \in DOMAIN table |-> slots'[i][k]]
                        /\ DOMAIN slots'[i] = DOMAIN table
                        /\ \A k \in DOMAIN table :
                              slots'[i][k] = IF i = m /\ k = f THEN address
                                             ELSE slots[i][k]
      OBVIOUS
    <3>1. /\ slots[i] = [k \in DOMAIN importDir[i].table |-> slots[i][k]]
          /\ i \in DOMAIN slots /\ m \in DOMAIN slots
      BY <1>1, <1>10 DEF ImportsRead
    <3>2. slots'[i] = IF i = m THEN [slots[m] EXCEPT ![f] = address] ELSE slots[i]
      BY <2>1, <3>1
    <3> QED BY <3>1, <3>2
  <2>4. ImportsRead'
    <3>1. imports' = [i \in DOMAIN importDir' |-> ImportModule(importDir'[i])]
      BY <1>1 DEF ImportsRead
    <3>2. ASSUME NEW i \in DOMAIN importDir, NEW k \in DOMAIN importDir[i].table
          PROVE  slots'[i][k] \in Addresses \cup {"unboundImport"}
      <4>1. slots[i][k] \in Addresses \cup {"unboundImport"}
        BY <1>1 DEF ImportsRead
      <4>2. slots'[i][k] = address \/ slots'[i][k] = slots[i][k]
        BY <2>3
      <4> QED BY <4>1, <4>2
    <3> QED BY <1>1, <2>3, <3>1, <3>2 DEF ImportsRead
  <2>5. LastBindWins'
    BY <1>3, <1>4, <1>7, <1>10, <2>2, <2>3 DEF LastBindWins
  <2>6. ImportAnswers'
    BY <1>5, <1>10, <2>2, <2>3 DEF ImportAnswers
  <2> QED BY <1>1, <1>2, <1>10, <2>2, <2>4, <2>5, <2>6 DEF SymInv
<1> QED BY <1>6, <1>8, <1>9, <1>10 DEF c, m, f

LEMMA ExportKeeps ==
    ASSUME SymInv, NEW symbol, PeloaderExport(symbol)
    PROVE  SymInv'
<1>1. /\ stage = "ready" /\ process = "running"
      /\ UNCHANGED <<importDir, exportDir, slots, imports, exports, stage, calls,
                     process>>
      /\ answer'.to = "export"
  BY DEF PeloaderExport, tables, Refuse
<1>2. ImportsRead'
  BY <1>1 DEF SymInv, ImportsRead
<1>3. LastBindWins'
  BY <1>1, LastBoundKept DEF SymInv, LastBindWins, Ready
<1>4. ImportAnswers'
  BY <1>1 DEF ImportAnswers
<1>5. ExportsRead'
  BY <1>1 DEF SymInv, ExportsRead
<1> QED BY <1>1, <1>2, <1>3, <1>4, <1>5 DEF SymInv

LEMMA StutterKeeps == SymInv /\ UNCHANGED vars => SymInv'
<1> SUFFICES ASSUME SymInv, UNCHANGED vars PROVE SymInv'
  OBVIOUS
<1>1. (ImportsRead' <=> ImportsRead) /\ (ExportsRead' <=> ExportsRead)
  BY DEF ImportsRead, ExportsRead, vars
<1>2. LastBindWins'
  BY LastBoundKept DEF SymInv, LastBindWins, Ready, vars
<1>3. ImportAnswers'
  BY DEF SymInv, ImportAnswers, Denotes, Ready, vars
<1> QED BY <1>1, <1>2, <1>3 DEF SymInv, Unbound, vars

LEMMA InvariantHolds == Spec => []SymInv
<1>1. SymInv /\ [Next]_vars => SymInv'
  <2> SUFFICES ASSUME SymInv, [Next]_vars PROVE SymInv'
    OBVIOUS
  <2>1. CASE ParseImports
    BY <2>1, ParseImportsKeeps
  <2>2. CASE ParseExports
    BY <2>2, ParseExportsKeeps
  <2>3. CASE \E module \in ModuleNames \cup {NULL}, symbol \in SymbolsAsked,
                address \in Addresses : PeloaderImport(module, symbol, address)
    BY <2>3, ImportKeeps
  <2>4. CASE \E symbol \in SymbolsAsked : PeloaderExport(symbol)
    BY <2>4, ExportKeeps
  <2>5. CASE Terminating \/ UNCHANGED vars
    BY <2>5, StutterKeeps DEF Terminating
  <2> QED BY <2>1, <2>2, <2>3, <2>4, <2>5 DEF Next
<1> QED BY InitEstablishes, <1>1, PTL DEF Spec

-----------------------------------------------------------------------------
(* The theorems *)

\* The arrays that parseImports and parseExports fill have an element for each
\* entry of the tables, and each slot of the import tables holds an address the
\* host bound or the function that reports the missing import.
THEOREM SymbolTypes == Spec => []TypeOK
<1>1. SymInv => TypeOK
  <2> SUFFICES ASSUME SymInv PROVE TypeOK
    OBVIOUS
  <2>1. stage = "ready" =>
          /\ Len(imports) = Len(importDir)
          /\ \A i \in DOMAIN imports :
                /\ DOMAIN slots[i] = DOMAIN importDir[i].table
                /\ Len(imports[i].functions) = Len(importDir[i].table)
    BY ParsedShape
  <2>2. stage = "ready" =>
          \A i \in DOMAIN imports : \A k \in DOMAIN slots[i] :
             slots[i][k] \in Addresses \cup {"unboundImport"}
    BY DEF SymInv, ImportsRead
  <2>3. DOMAIN slots = DOMAIN importDir
    BY DEF SymInv
  <2> QED BY <2>1, <2>2, <2>3 DEF SymInv, ExportsRead, TypeOK
<1> QED BY <1>1, InvariantHolds, PTL

\* However many calls of peloader_import follow each other, and whatever modules,
\* names and ordinals they ask for, each slot of the image holds what the last
\* call that denotes it bound.
THEOREM LastBindStays == Spec => []LastBindWins
<1>1. SymInv => LastBindWins
  BY DEF SymInv
<1> QED BY <1>1, InvariantHolds, PTL

\* peloader_import answers 0 exactly when there is a slot to bind.
THEOREM AnswersAreTrue == Spec => []ImportAnswers
<1>1. SymInv => ImportAnswers
  BY DEF SymInv
<1> QED BY <1>1, InvariantHolds, PTL

\* An entry of an import table has a name or an ordinal and never both.
LEMMA NameOrOrdinal ==
    ASSUME SymInv, stage # "imports", NEW i \in DOMAIN importDir,
           NEW k \in DOMAIN imports[i].functions
    PROVE  LET f == imports[i].functions[k] IN
           /\ f.name # NULL <=> f.ordinal = NoOrdinal
<1> DEFINE entry == importDir[i].table[k]
           f == imports[i].functions[k]
<1>1. f = ImportedFunction(entry) /\ k \in DOMAIN importDir[i].table
  BY ParsedShape
<1>2. entry.value \in IF entry.top THEN Nat ELSE FunctionNames
  <2> DEFINE file == [imports |-> importDir, exports |-> exportDir]
  <2>1. file \in Files /\ file.imports = importDir
    BY DEF SymInv
  <2> HIDE DEF file
  <2> QED BY <1>1, <2>1, SymbolAssumption
<1>3. CASE entry.top
  <2>1. entry.value % 2^16 # NoOrdinal
    BY <1>2, <1>3 DEF NoOrdinal
  <2> QED BY <1>1, <1>3, <2>1 DEF ImportedFunction
<1>4. CASE ~entry.top
  <2>1. entry.value # NULL
    BY <1>2, <1>4, SymbolAssumption
  <2> QED BY <1>1, <1>4, <2>1 DEF ImportedFunction
<1> QED BY <1>3, <1>4

\* Of a module whose functions are in such a table: handing back a function that
\* is listed finds it.
LEMMA ListedIsFound ==
    ASSUME NEW n \in Nat, NEW listed, Len(listed) = n, DOMAIN listed = 1..n,
           \A k \in 1..n : /\ listed[k].name # NULL <=> listed[k].ordinal = NoOrdinal
                           /\ listed[k] = [name |-> listed[k].name,
                                           ordinal |-> listed[k].ordinal],
           NamesLead(listed), NEW k \in 1..n
    PROVE  /\ ~ComparesNull(listed, listed[k])
           /\ Find(listed, listed[k]) \in 1..k
           /\ listed[Find(listed, listed[k])] = listed[k]
<1> DEFINE symbol == listed[k]
           o == ByOrdinal(listed, symbol)
           m == ByName(listed, symbol)
<1>1. /\ o \in 0..n
      /\ o # 0 => /\ HasOrdinal(listed[o], symbol)
                  /\ \A j \in 1..o-1 : ~HasOrdinal(listed[j], symbol)
      /\ o = 0 => \A j \in 1..n : ~HasOrdinal(listed[j], symbol)
  <2> HIDE DEF symbol
  <2> QED BY OrdinalFound
<1>2. /\ m \in 0..n
      /\ m # 0 => /\ HasName(listed[m], symbol)
                  /\ \A j \in 1..m-1 : ~HasName(listed[j], symbol)
      /\ m = 0 => \A j \in 1..n : ~HasName(listed[j], symbol)
  <2> HIDE DEF symbol
  <2> QED BY NameFound
<1> HIDE DEF o, m
<1>3. Find(listed, symbol) = IF o # 0 THEN o ELSE m
  BY DEF Find, o, m
<1>4. CASE symbol.name = NULL
  <2>1. HasOrdinal(listed[k], symbol)
    BY <1>4 DEF HasOrdinal
  <2>2. o \in 1..k /\ listed[o].ordinal = symbol.ordinal
    BY <1>1, <2>1 DEF HasOrdinal
  <2>3. listed[o].name = NULL
    BY <1>4, <2>2
  <2>4. listed[o] = symbol
    BY <1>4, <2>2, <2>3
  <2> QED BY <1>3, <1>4, <2>2, <2>4 DEF ComparesNull
<1>5. CASE symbol.name # NULL
  <2>1. symbol.ordinal = NoOrdinal /\ o = 0
    BY <1>5 DEF o, ByOrdinal
  <2>2. HasName(listed[k], symbol)
    BY <1>5 DEF HasName
  <2>3. m \in 1..k /\ listed[m].name = symbol.name
    BY <1>2, <2>2 DEF HasName
  <2>4. listed[m].ordinal = NoOrdinal
    BY <1>5, <2>3
  <2>5. listed[m] = symbol
    BY <2>1, <2>3, <2>4
  <2>6. ~ComparesNull(listed, symbol)
    <3> SUFFICES ASSUME NEW j \in 1..n, listed[j].name = NULL,
                        \A l \in 1..j-1 : listed[l].name # symbol.name
                 PROVE  FALSE
      BY DEF ComparesNull
    <3>1. CASE j < k
      BY <1>5, <3>1 DEF NamesLead
    <3>2. CASE j >= k
      BY <1>5, <3>2
    <3> QED BY <3>1, <3>2
  <2> QED BY <1>3, <2>1, <2>3, <2>5, <2>6
<1> QED BY <1>4, <1>5

\* Whatever modules and functions a file imports: what peloader_modules and
\* peloader_imports list, peloader_import finds.
THEOREM ListedCanBeBound == Spec => []ListedIsBindable
<1>1. SymInv => ListedIsBindable
  <2> SUFFICES ASSUME SymInv, Ready, NEW m \in DOMAIN PeloaderModules,
                      PeloaderModules[m] # NULL,
                      NamesLead(PeloaderImports(PeloaderModules[m]))
               PROVE  LET name == PeloaderModules[m]
                          listed == PeloaderImports(name)
                      IN  /\ FindImportModule(name) \in 1..m
                          /\ \A k \in DOMAIN listed :
                                /\ ~ComparesNull(listed, listed[k])
                                /\ Find(listed, listed[k]) \in 1..k
                                /\ listed[Find(listed, listed[k])] = listed[k]
    BY DEF ListedIsBindable
  <2> DEFINE name == PeloaderModules[m]
             listed == PeloaderImports(name)
             i == FindImportModule(name)
             functions == imports[i].functions
             n == Len(functions)
  <2>1. /\ stage # "imports"
        /\ Len(imports) \in Nat /\ DOMAIN imports = 1..Len(imports)
        /\ DOMAIN importDir = 1..Len(imports)
    BY ParsedShape DEF Ready
  <2>2. m \in 1..Len(imports) /\ imports[m].name = name
    BY <2>1 DEF PeloaderModules
  <2>3. i \in 1..m /\ i \in DOMAIN importDir
    <3>1. /\ i \in 0..Len(imports)
          /\ i # 0 => \A j \in 1..i-1 : imports[j].name # name
          /\ i = 0 => \A j \in 1..Len(imports) : imports[j].name # name
      BY <2>1, ModuleFound
    <3> HIDE DEF i, name
    <3> QED BY <2>1, <2>2, <3>1
  <2>4. n \in Nat /\ DOMAIN functions = 1..n
    <3> HIDE DEF i
    <3> QED BY <2>1, <2>3, ParsedShape
  <2>5. \A k \in 1..n : functions[k].name # NULL <=> functions[k].ordinal = NoOrdinal
    <3> HIDE DEF i
    <3> QED BY <2>1, <2>3, <2>4, NameOrOrdinal
  <2>6. listed = [k \in 1..n |-> [name    |-> functions[k].name,
                                  ordinal |-> functions[k].ordinal]]
    BY <2>4 DEF PeloaderImports
  <2>7. /\ DOMAIN listed = 1..n
        /\ \A k \in 1..n : /\ listed[k].name = functions[k].name
                           /\ listed[k].ordinal = functions[k].ordinal
                           /\ listed[k] = [name    |-> listed[k].name,
                                           ordinal |-> listed[k].ordinal]
    <3> HIDE DEF functions, listed, n
    <3> QED BY <2>6
  <2>8. Len(listed) = n
    <3>1. listed = [k \in 1..n |-> listed[k]]
      <4> HIDE DEF functions, listed, n
      <4> QED BY <2>6
    <3> HIDE DEF listed, n
    <3> QED BY <2>4, <3>1, FunctionIsSequence
  <2>9. \A k \in 1..n : /\ ~ComparesNull(listed, listed[k])
                        /\ Find(listed, listed[k]) \in 1..k
                        /\ listed[Find(listed, listed[k])] = listed[k]
    <3>1. \A k \in 1..n : listed[k].name # NULL <=> listed[k].ordinal = NoOrdinal
      <4> HIDE DEF functions, listed, n
      <4> QED BY <2>5, <2>7
    <3>2. NamesLead(listed) /\ n \in Nat
      BY <2>4
    <3> HIDE DEF functions, listed, n
    <3> QED BY <2>7, <2>8, <3>1, <3>2, ListedIsFound
  <2> QED BY <2>3, <2>7, <2>9
<1> QED BY <1>1, InvariantHolds, PTL

\* Whatever is read behind the end of the ordinal table: peloader_export finds
\* every named function of a directory in order, at the address of its name.
THEOREM NamesResolve == Spec => []NamedExportsResolve
<1>1. SymInv => NamedExportsResolve
  <2> SUFFICES ASSUME SymInv, Ready, InOrder(exportDir),
                      NEW j \in DOMAIN exportDir.names, NEW symbol \in SymbolsAsked,
                      symbol.name \in {NULL, exportDir.names[j]},
                      symbol.ordinal \in
                         {NoOrdinal, exportDir.base + exportDir.ordinals[j]},
                      symbol # [name |-> NULL, ordinal |-> NoOrdinal]
               PROVE  /\ Find(exports, symbol) # 0
                      /\ PeloaderExports[Find(exports, symbol)].address =
                            AddressOfName(j)
    BY DEF NamedExportsResolve
  <2> DEFINE named == Len(exportDir.names)
             count == Len(exports)
             base == exportDir.base
             o == ByOrdinal(exports, symbol)
             n == ByName(exports, symbol)
  <2>1. /\ named \in Nat /\ Len(exportDir.ordinals) = named
        /\ DOMAIN exportDir.names = 1..named /\ DOMAIN exportDir.ordinals = 1..named
        /\ base \in Int
    <3> DEFINE file == [imports |-> importDir, exports |-> exportDir]
    <3>1. file \in Files /\ file.exports = exportDir
      BY DEF SymInv
    <3> HIDE DEF file
    <3>2. /\ IsTable(exportDir.names) /\ IsTable(exportDir.ordinals)
          /\ Len(exportDir.names) = Len(exportDir.ordinals) /\ base \in Int
      BY <3>1, SymbolAssumption
    <3> QED BY <3>2, LenProperties DEF IsTable
  <2>2. /\ ExportsRead /\ count \in Nat /\ named <= count
        /\ DOMAIN exports = 1..count
    BY TablesAreSequences DEF SymInv, Ready, ExportsRead, InOrder
  <2>3. \A i \in 1..named : exportDir.ordinals[i] = i - 1
    BY <2>1 DEF InOrder
  <2>4. \A i \in 1..named : /\ i \in 1..count
                            /\ exports[i].name = exportDir.names[i]
                            /\ exports[i].ordinal = base + (i - 1)
                            /\ exports[i].address = exportDir.addresses[i]
    BY <2>1, <2>2, <2>3 DEF ExportsRead
  <2>5. j \in 1..named /\ AddressOfName(j) = exportDir.addresses[j]
    BY <2>1, <2>3 DEF AddressOfName
  <2>6. /\ o \in 0..count
        /\ o # 0 => /\ HasOrdinal(exports[o], symbol)
                    /\ \A i \in 1..o-1 : ~HasOrdinal(exports[i], symbol)
        /\ o = 0 => \A i \in 1..count : ~HasOrdinal(exports[i], symbol)
    BY <2>2, OrdinalFound
  <2>7. /\ n \in 0..count
        /\ n # 0 => /\ HasName(exports[n], symbol)
                    /\ \A i \in 1..n-1 : ~HasName(exports[i], symbol)
        /\ n = 0 => \A i \in 1..count : ~HasName(exports[i], symbol)
    BY <2>2, NameFound
  <2>8. Find(exports, symbol) = IF o # 0 THEN o ELSE n
    BY DEF Find
  <2> HIDE DEF o, n, named, count, base
  <2>9. Find(exports, symbol) = j
    <3>1. CASE symbol.ordinal # NoOrdinal
      <4>1. symbol.ordinal = base + (j - 1)
        BY <2>3, <2>5, <3>1 DEF base
      <4>2. HasOrdinal(exports[j], symbol)
        BY <2>4, <2>5, <3>1, <4>1 DEF HasOrdinal
      <4>3. o \in 1..j
        BY <2>1, <2>2, <2>4, <2>5, <2>6, <4>2
      <4>4. exports[o].ordinal = base + (o - 1) /\ exports[o].ordinal = symbol.ordinal
        BY <2>1, <2>4, <2>5, <2>6, <4>3 DEF HasOrdinal
      <4>5. o = j
        BY <2>1, <2>5, <4>1, <4>3, <4>4
      <4> QED BY <2>5, <2>8, <4>5
    <3>2. CASE symbol.ordinal = NoOrdinal
      <4>1. symbol.name # NULL /\ symbol.name = exportDir.names[j] /\ o = 0
        BY <3>2 DEF SymbolsAsked, o, ByOrdinal
      <4>2. HasName(exports[j], symbol)
        BY <2>4, <2>5, <4>1 DEF HasName
      <4>3. n \in 1..j
        BY <2>1, <2>2, <2>4, <2>5, <2>7, <4>2
      <4>4. n \in 1..named /\ exports[n].name = exportDir.names[j]
        BY <2>1, <2>5, <2>7, <4>1, <4>3 DEF HasName
      <4>5. exportDir.names[n] = exportDir.names[j]
        BY <2>4, <4>4
      <4>6. n = j
        BY <2>1, <2>5, <4>4, <4>5 DEF InOrder
      <4> QED BY <2>8, <4>1, <4>6
    <3> QED BY <3>1, <3>2
  <2>10. PeloaderExports[j].address = exports[j].address
    BY <2>2, <2>4, <2>5 DEF PeloaderExports
  <2> QED BY <2>1, <2>4, <2>5, <2>9, <2>10
<1> QED BY <1>1, InvariantHolds, PTL

-----------------------------------------------------------------------------
(* The stages of PeLoader *)

\* What a stage is to set is not set before it.
NothingEarly ==
    /\ stage = "imports" => imports = <<>>
    /\ stage \in {"imports", "exports"} => exports = <<>>

\* What PeLoader does not see: the slots, the calls and their answers.
LEMMA SameView ==
    ASSUME UNCHANGED <<imports, exports, stage>>
    PROVE  UNCHANGED Loader!vars
BY DEF Loader!vars, InPeLoader, Parsed, ImportBlocks, ExportBlocks

\* Going on from one stage to the next.
LEMMA ContinuesInPeLoader ==
    ASSUME NEW label, stage # "failed", stage' # "failed", InPeLoader' = label
    PROVE  Loader!Continue("t", label)
BY DEF Loader!Continue, Loader!Goto

\* The members that the two stages set.
Recorded(importCount, importArray, exportCount, exportArray) ==
    [fileType          |-> "TYPE_FILE",
     fileHandle        |-> "3",
     callback          |-> "nullptr",
     dataDirs          |-> "read",
     sectionCount      |-> "some",
     sections          |-> "own",
     sectionAllocation |-> "nullptr",
     importCount       |-> importCount,
     imports           |-> importArray,
     exportCount       |-> exportCount,
     exports           |-> exportArray]

\* parseImports: an array with its count and its blocks, or nothing.
LEMMA StageImports ==
    ASSUME NothingEarly, ParseImports
    PROVE  Loader!ParseImports("t")
<1>1. /\ stage = "imports" /\ stage' = "exports" /\ exports' = exports
      /\ imports = <<>> /\ exports = <<>>
      /\ InPeLoader = "imports" /\ InPeLoader' = "exports"
  BY DEF NothingEarly, ParseImports, InPeLoader
<1>2. Loader!Continue("t", "exports")
  BY <1>1, ContinuesInPeLoader
<1>3. ExportBlocks' = ExportBlocks
  BY <1>1 DEF ExportBlocks
<1>4. CASE imports' = <<>>
  <2>1. Parsed' = Parsed /\ ImportBlocks' = ImportBlocks
    BY <1>1, <1>4 DEF Parsed, ImportBlocks
  <2> QED BY <1>1, <1>2, <1>3, <2>1 DEF Loader!ParseImports, Loader!At,
             Loader!hostVars, Loader!callVars
<1>5. CASE imports' # <<>>
  <2>1. /\ Parsed = Recorded("none", "nullptr", "none", "nullptr")
        /\ Parsed' = Recorded("some", "own", "none", "nullptr")
    BY <1>1, <1>5 DEF Parsed, Recorded
  <2>2. [f \in {"f"} |-> Parsed'] =
           [[f \in {"f"} |-> Parsed] EXCEPT !["f"].importCount = "some",
                                           !["f"].imports = "own"]
    <3>1. Parsed' = [Parsed EXCEPT !.importCount = "some", !.imports = "own"]
      <4>1. [Recorded("none", "nullptr", "none", "nullptr")
                EXCEPT !.importCount = "some"]
            = Recorded("some", "nullptr", "none", "nullptr")
        BY DEF Recorded
      <4>2. [Recorded("some", "nullptr", "none", "nullptr")
                EXCEPT !.imports = "own"]
            = Recorded("some", "own", "none", "nullptr")
        BY DEF Recorded
      <4> QED BY <2>1, <4>1, <4>2
    <3> DEFINE g == [f \in {"f"} |-> Parsed]
    <3> QED BY <3>1 DEF Parsed
  <2>3. /\ ImportBlocks = {}
        /\ ImportBlocks' \in {{"imports"}, {"imports", "functions"}}
    BY <1>1, <1>5 DEF ImportBlocks
  <2>4. {"f"} \X ({"PeFile", "sections"} \cup ImportBlocks' \cup ExportBlocks') =
           ({"f"} \X ({"PeFile", "sections"} \cup ImportBlocks \cup ExportBlocks))
           \cup ({"f"} \X ImportBlocks')
    BY <1>3, <2>3
  <2>5. Loader!MayResolve("f")
    BY DEF Loader!MayResolve, Parsed
  <2> QED BY <1>1, <1>2, <2>2, <2>3, <2>4, <2>5
          DEF Loader!ParseImports, Loader!At, Loader!hostVars, Loader!callVars
<1> QED BY <1>4, <1>5

\* parseExports: the same, or a refusal, or a null pointer that PeLoader does
\* not see.
LEMMA StageExports ==
    ASSUME NothingEarly, ParseExports
    PROVE  Loader!ParseExports("t") \/ UNCHANGED Loader!vars
<1>1. /\ stage = "exports" /\ imports' = imports /\ exports = <<>>
      /\ InPeLoader = "exports"
  BY DEF NothingEarly, ParseExports, InPeLoader
<1>2. ImportBlocks' = ImportBlocks
  BY <1>1 DEF ImportBlocks
<1>3. Loader!MayResolve("f")
  BY DEF Loader!MayResolve, Parsed
<1>4. CASE stage' = "failed"
  <2>1. exports' = exports /\ InPeLoader' = "closeFile"
    BY <1>1, <1>4 DEF ParseExports, InPeLoader
  <2>2. Parsed' = Parsed /\ ExportBlocks' = ExportBlocks
    BY <1>1, <2>1 DEF Parsed, ExportBlocks
  <2>3. Loader!FailWith("t", "negative")
    BY <1>1, <1>4, <2>1 DEF Loader!FailWith, Loader!Goto
  <2> QED BY <1>1, <1>2, <1>3, <2>1, <2>2, <2>3
          DEF Loader!ParseExports, Loader!At, Loader!hostVars, Loader!callVars
<1>5. CASE stage' = "exports"
  <2>1. UNCHANGED <<imports, exports, stage>>
    BY <1>1, <1>5 DEF ParseExports
  <2> QED BY <2>1, SameView
<1>6. CASE stage' \notin {"failed", "exports"}
  <2>1. stage' = "ready" /\ InPeLoader' = "relocate"
    BY <1>1, <1>6 DEF ParseExports, InPeLoader
  <2>2. Loader!Continue("t", "relocate")
    BY <1>1, <2>1, ContinuesInPeLoader
  <2>3. CASE exports' = <<>>
    <3>1. Parsed' = Parsed /\ ExportBlocks' = ExportBlocks
      BY <1>1, <2>3 DEF Parsed, ExportBlocks
    <3> QED BY <1>1, <1>2, <2>1, <2>2, <3>1
            DEF Loader!ParseExports, Loader!At, Loader!hostVars, Loader!callVars
  <2>4. CASE exports' # <<>>
    <3>1. PICK c, m : /\ Parsed = Recorded(c, m, "none", "nullptr")
                      /\ Parsed' = Recorded(c, m, "some", "own")
      BY <1>1, <2>4 DEF Parsed, Recorded
    <3>2. [f \in {"f"} |-> Parsed'] =
             [[f \in {"f"} |-> Parsed] EXCEPT !["f"].exportCount = "some",
                                             !["f"].exports = "own"]
      <4>1. Parsed' = [Parsed EXCEPT !.exportCount = "some", !.exports = "own"]
        <5>1. [Recorded(c, m, "none", "nullptr") EXCEPT !.exportCount = "some"]
              = Recorded(c, m, "some", "nullptr")
          BY DEF Recorded
        <5>2. [Recorded(c, m, "some", "nullptr") EXCEPT !.exports = "own"]
              = Recorded(c, m, "some", "own")
          BY DEF Recorded
        <5> QED BY <3>1, <5>1, <5>2
      <4> DEFINE g == [f \in {"f"} |-> Parsed]
      <4> QED BY <4>1 DEF Parsed
    <3>3. ExportBlocks = {} /\ ExportBlocks' = {"exports"}
      BY <1>1, <2>4 DEF ExportBlocks
    <3>4. {"f"} \X ({"PeFile", "sections"} \cup ImportBlocks' \cup ExportBlocks')
             = ({"f"} \X ({"PeFile", "sections"} \cup ImportBlocks
                          \cup ExportBlocks)) \cup {<<"f", "exports">>}
      BY <1>2, <3>3
    <3>5. "some" \in Loader!Counts
      BY DEF Loader!Counts
    <3> QED BY <1>1, <1>3, <2>1, <2>2, <3>2, <3>4, <3>5
            DEF Loader!ParseExports, Loader!At, Loader!hostVars, Loader!callVars
  <2> QED BY <2>3, <2>4
<1> QED BY <1>4, <1>5, <1>6

\* A call of the host changes neither array, and comes after both stages.
LEMMA StageCall ==
    ASSUME [Next]_vars, ~ParseImports, ~ParseExports
    PROVE  UNCHANGED <<imports, exports, stage>>
<1>1. CASE \E module \in ModuleNames \cup {NULL}, symbol \in SymbolsAsked,
              address \in Addresses : PeloaderImport(module, symbol, address)
  BY <1>1 DEF PeloaderImport
<1>2. CASE \E symbol \in SymbolsAsked : PeloaderExport(symbol)
  BY <1>2 DEF PeloaderExport
<1>3. CASE Terminating \/ UNCHANGED vars
  BY <1>3 DEF Terminating, vars
<1> QED BY <1>1, <1>2, <1>3 DEF Next

\* Parsing the import and the export directory of any file is one stage of
\* PeLoader each, and whatever the host calls then is none.
THEOREM SymbolsAreStages == Spec => StagesOfPeLoader
<1> DEFINE Stages == Loader!ParseImports("t") \/ Loader!ParseExports("t")
<1>1. Init => NothingEarly
  BY DEF Init, NothingEarly
<1>2. NothingEarly /\ [Next]_vars => NothingEarly'
  <2> SUFFICES ASSUME NothingEarly, [Next]_vars PROVE NothingEarly'
    OBVIOUS
  <2>1. CASE ParseImports
    BY <2>1 DEF ParseImports, NothingEarly
  <2>2. CASE ParseExports
    BY <2>2 DEF ParseExports, NothingEarly
  <2>3. CASE ~ParseImports /\ ~ParseExports
    BY <2>3, StageCall DEF NothingEarly
  <2> QED BY <2>1, <2>2, <2>3
<1>3. NothingEarly /\ [Next]_vars => [Stages]_(Loader!vars)
  <2> SUFFICES ASSUME NothingEarly, [Next]_vars
               PROVE  Stages \/ UNCHANGED Loader!vars
    OBVIOUS
  <2>1. CASE ~ParseImports /\ ~ParseExports
    BY <2>1, StageCall, SameView
  <2> QED BY <2>1, StageImports, StageExports
<1> QED BY <1>1, <1>2, <1>3, PTL DEF Spec, StagesOfPeLoader
=============================================================================
