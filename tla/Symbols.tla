------------------------------- MODULE Symbols -------------------------------
(***************************************************************************)
(* The symbols of one PeFile: parseImports and parseExports, which turn    *)
(* the tables of the image into the arrays of include/internal.h, and the  *)
(* functions of public/peloader.h that list, bind and look up symbols.     *)
(*                                                                         *)
(* The import table is part of the image: `slots` is the memory the code   *)
(* of the image calls through, one slot per entry of an import table.  A   *)
(* name is a member of a small set, NULL where the code has a nullptr.     *)
(***************************************************************************)
EXTENDS Integers, Sequences, SequencesExt

CONSTANTS
    ModuleNames,    \* names of import modules
    FunctionNames,  \* names of imported and exported functions
    Addresses,      \* addresses the host binds
    Files,          \* the files: an import and an export directory each
    Ordinals,       \* ordinals the host asks for
    Behind,         \* what may lie behind the end of an ordinal table
    NULL,
    MaxCalls        \* bounds the calls of peloader_import

NoOrdinal == -1

\* The tables of a file are sequences.
IsTable(t) == t \in Seq({t[i] : i \in DOMAIN t})

ASSUME SymbolAssumption ==
    /\ NULL \notin ModuleNames \cup FunctionNames \cup Addresses
    /\ \A f \in Files :
          /\ f = [imports |-> f.imports, exports |-> f.exports]
          /\ IsTable(f.imports) /\ IsTable(f.exports.addresses)
          /\ IsTable(f.exports.names) /\ IsTable(f.exports.ordinals)
          /\ f.exports.base \in Int
          /\ \A i \in DOMAIN f.imports :
                LET descriptor == f.imports[i] IN
                /\ IsTable(descriptor.table)
                /\ descriptor.name \in ModuleNames \cup {NULL}
                /\ descriptor.writable \in BOOLEAN
                /\ \A k \in DOMAIN descriptor.table :
                      LET entry == descriptor.table[k] IN
                      entry.value \in IF entry.top THEN Nat ELSE FunctionNames
          /\ Len(f.exports.names) = Len(f.exports.ordinals)
    /\ Ordinals \subseteq Nat
    /\ MaxCalls \in Nat

VARIABLES
    importDir,  \* the import directory of the file
    exportDir,  \* the export directory of the file
    slots,      \* the import tables in memory
    imports,    \* PeFile::imports
    exports,    \* PeFile::exports
    stage,      \* "imports", "exports", "ready" or "failed"
    calls,      \* the calls of peloader_import, for the properties
    answer,     \* what the last call answered
    process     \* "running", "faulted" by a write to a read-only page, or
                \* "undefined" once a null pointer was followed

tables == <<importDir, exportDir>>
vars == <<importDir, exportDir, slots, imports, exports, stage, calls, answer,
          process>>

-----------------------------------------------------------------------------
(* Parsing *)

Init ==
    /\ \E f \in Files : importDir = f.imports /\ exportDir = f.exports
    /\ slots = [i \in DOMAIN importDir |-> importDir[i].table]
    /\ imports = <<>>
    /\ exports = <<>>
    /\ stage = "imports"
    /\ calls = <<>>
    /\ answer = [to |-> "none"]
    /\ process = "running"

\* MUTANT: an import by name has no ordinal of its own, and is left at zero.
ImportedFunctionZero(entry) ==
    IF entry.top THEN [name |-> NULL, ordinal |-> entry.value % 2^16]
                 ELSE [name |-> entry.value, ordinal |-> 0]

\* The top bit says that the entry is an ordinal, of 16 bits.
ImportedFunction(entry) ==
    IF entry.top THEN [name |-> NULL, ordinal |-> entry.value % 2^16]
                 ELSE [name |-> entry.value, ordinal |-> NoOrdinal]

\* MUTANT: the last entry of a table is taken for its end.
ImportModuleShort(descriptor) ==
    [name |-> descriptor.name,
     functions |-> [k \in 1..Len(descriptor.table) - 1 |->
                       ImportedFunction(descriptor.table[k])]]

\* The functions of one descriptor: none when it has no import table.
ImportModule(descriptor) ==
    [name |-> descriptor.name,
     functions |-> [k \in DOMAIN descriptor.table |->
                       ImportedFunction(descriptor.table[k])]]

\* MUTANT: parsePeFile returns when parseImports answers 0.
ParseImportsOnly ==
    /\ stage = "imports"
    /\ imports' = [i \in DOMAIN importDir |-> ImportModule(importDir[i])]
    /\ slots' = [i \in DOMAIN slots |->
                    [k \in DOMAIN slots[i] |-> "unboundImport"]]
    /\ stage' = "ready"
    /\ UNCHANGED <<tables, exports, calls, answer, process>>

\* parseImports: every slot gets a function that reports the missing import.
ParseImports ==
    /\ stage = "imports"
    /\ imports' = [i \in DOMAIN importDir |-> ImportModule(importDir[i])]
    /\ slots' = [i \in DOMAIN slots |->
                    [k \in DOMAIN slots[i] |-> "unboundImport"]]
    /\ stage' = "exports"
    /\ UNCHANGED <<tables, exports, calls, answer, process>>

\* MUTANT: the ordinal base is not added.
ExportedFunctionBaseless(i, ordinal) ==
    [name    |-> IF i <= Len(exportDir.names) THEN exportDir.names[i] ELSE NULL,
     ordinal |-> ordinal,
     address |-> exportDir.addresses[i]]

\* Entry i of each table makes export i. The name table may be shorter than the
\* address table.
ExportedFunction(i, ordinal) ==
    [name    |-> IF i <= Len(exportDir.names) THEN exportDir.names[i] ELSE NULL,
     ordinal |-> exportDir.base + ordinal,
     address |-> exportDir.addresses[i]]

\* What may be read for entry i of the ordinal table, which is as long as the
\* name table but read up to the number of addresses.
OrdinalsRead(i) ==
    IF i <= Len(exportDir.ordinals) THEN {exportDir.ordinals[i]} ELSE Behind

\* parseExports: a negative number of entries is refused. A file without names
\* need not have an ordinal table at all, then a null pointer is read.
ParseExports ==
    LET count == Len(exportDir.addresses) IN
    /\ stage = "exports"
    /\ process = "running"
    /\ \/ /\ exportDir.negative
          /\ stage' = "failed"
          /\ UNCHANGED <<exports, process>>
       \/ /\ ~exportDir.negative
          /\ exportDir.ordinals = <<>> /\ count > 0
          /\ process' = "undefined"
          /\ UNCHANGED <<exports, stage>>
       \/ /\ ~exportDir.negative
          /\ \E read \in [1..count -> UNION {OrdinalsRead(i) : i \in 1..count}] :
                /\ \A i \in 1..count : read[i] \in OrdinalsRead(i)
                /\ exports' = [i \in 1..count |-> ExportedFunction(i, read[i])]
          /\ stage' = "ready"
          /\ UNCHANGED process
    /\ UNCHANGED <<tables, slots, imports, calls, answer>>

-----------------------------------------------------------------------------
(* Looking up *)

\* The first module of a name; find passes over modules without one.
FindImportModule(name) == SelectInSeq(imports, LAMBDA m : m.name = name)

\* MUTANT: a symbol without an ordinal is looked up by its ordinal as well.
ByOrdinalUnguarded(symbols, symbol) ==
    SelectInSeq(symbols, LAMBDA s : s.ordinal = symbol.ordinal)

\* The first of the symbols with the ordinal asked for.
ByOrdinal(symbols, symbol) ==
    IF symbol.ordinal = NoOrdinal THEN 0
    ELSE SelectInSeq(symbols, LAMBDA s : s.ordinal = symbol.ordinal)

\* The first of the symbols with the name asked for.
ByName(symbols, symbol) ==
    IF symbol.name = NULL THEN 0
    ELSE SelectInSeq(symbols, LAMBDA s : s.name = symbol.name)

\* MUTANT: the name is looked up first.
FindNameFirst(symbols, symbol) ==
    IF ByName(symbols, symbol) # 0 THEN ByName(symbols, symbol)
    ELSE ByOrdinal(symbols, symbol)

\* The ordinal is looked up first, then the name; 0 when neither is there.
Find(symbols, symbol) ==
    IF ByOrdinal(symbols, symbol) # 0 THEN ByOrdinal(symbols, symbol)
    ELSE ByName(symbols, symbol)

\* peloader_import compares the name with each function's in turn, also with
\* those that have none.
ComparesNull(symbols, symbol) ==
    /\ ByOrdinal(symbols, symbol) = 0
    /\ symbol.name # NULL
    /\ \E k \in DOMAIN symbols :
          /\ symbols[k].name = NULL
          /\ \A j \in 1..k-1 : symbols[j].name # symbol.name

-----------------------------------------------------------------------------
(* Calls of the host *)

SymbolsAsked == [name : FunctionNames \cup {NULL}, ordinal : Ordinals \cup {NoOrdinal}]

\* A call with a null argument, or for a symbol that is not there.
Refuse(function) ==
    /\ answer' = [to |-> function, code |-> "EINVAL"]
    /\ UNCHANGED <<slots, process>>

\* *imported->address = symbol->address
Bind(i, k, address) == slots' = [slots EXCEPT ![i][k] = address]

PeloaderImport(module, symbol, address) ==
    LET i == FindImportModule(module)
        functions == imports[i].functions
        k == Find(functions, symbol)
    IN
    /\ stage = "ready"
    /\ process = "running"
    /\ Len(calls) < MaxCalls
    /\ calls' = Append(calls, [module |-> module, symbol |-> symbol,
                               address |-> address])
    /\ \/ module = NULL /\ Refuse("import")
       \/ module # NULL /\ i = 0 /\ Refuse("import")
       \/ /\ module # NULL /\ i # 0
          /\ ComparesNull(functions, symbol)
          /\ process' = "undefined"
          /\ UNCHANGED <<slots, answer>>
       \/ /\ module # NULL /\ i # 0
          /\ ~ComparesNull(functions, symbol)
          /\ k = 0
          /\ Refuse("import")
       \/ /\ module # NULL /\ i # 0
          /\ ~ComparesNull(functions, symbol)
          /\ k # 0
          /\ IF importDir[i].writable
             THEN /\ Bind(i, k, address)
                  /\ answer' = [to |-> "import", code |-> "zero"]
                  /\ UNCHANGED process
             ELSE /\ process' = "faulted"
                  /\ UNCHANGED <<slots, answer>>
    /\ UNCHANGED <<tables, imports, exports, stage>>

\* peloader_export passes over exports without a name. The address it stores
\* in the host's symbol, exports[k].address, is no state of the library.
PeloaderExport(symbol) ==
    LET k == Find(exports, symbol) IN
    /\ stage = "ready"
    /\ process = "running"
    /\ \/ k = 0 /\ Refuse("export")
       \/ /\ k # 0
          /\ answer' = [to |-> "export", code |-> "zero"]
          /\ UNCHANGED <<slots, process>>
    /\ UNCHANGED <<tables, imports, exports, stage, calls>>

\* What the calls that list symbols store, after a first call for the count.
PeloaderModules == [i \in DOMAIN imports |-> imports[i].name]

PeloaderImports(module) ==
    LET functions == imports[FindImportModule(module)].functions IN
    [k \in DOMAIN functions |->
        [name |-> functions[k].name, ordinal |-> functions[k].ordinal]]

PeloaderExports ==
    [k \in DOMAIN exports |->
        [name |-> exports[k].name, ordinal |-> exports[k].ordinal,
         address |-> exports[k].address]]

-----------------------------------------------------------------------------

\* The open failed, the process is gone, or the bound on the calls is reached.
Terminating ==
    /\ stage = "failed" \/ process # "running" \/ Len(calls) = MaxCalls
    /\ UNCHANGED vars

Next ==
    \/ ParseImports
    \/ ParseExports
    \/ \E module \in ModuleNames \cup {NULL}, symbol \in SymbolsAsked,
          address \in Addresses : PeloaderImport(module, symbol, address)
    \/ \E symbol \in SymbolsAsked : PeloaderExport(symbol)
    \/ Terminating

Spec == Init /\ [][Next]_vars

-----------------------------------------------------------------------------
(* Properties *)

Ready == stage = "ready" /\ process = "running"

\* Every variable stays in its range: the arrays of include/internal.h have an
\* element for each entry of the tables, and each slot a value.
TypeOK ==
    /\ [imports |-> importDir, exports |-> exportDir] \in Files
    /\ stage \in {"imports", "exports", "ready", "failed"}
    /\ process \in {"running", "faulted", "undefined"}
    /\ DOMAIN slots = DOMAIN importDir
    /\ stage = "ready" =>
          /\ Len(imports) = Len(importDir)
          /\ \A i \in DOMAIN imports :
                /\ DOMAIN slots[i] = DOMAIN importDir[i].table
                /\ Len(imports[i].functions) = Len(importDir[i].table)
                /\ \A k \in DOMAIN slots[i] :
                      slots[i][k] \in Addresses \cup {"unboundImport"}
          /\ Len(exports) = Len(exportDir.addresses)

\* The slot the documentation says a call of peloader_import binds: in the first
\* module of the name, the first function with the ordinal, or else the name.
Denotes(call, i, k) ==
    LET functions == imports[i].functions
        HasOrdinal(f) == call.symbol.ordinal # NoOrdinal
                         /\ f.ordinal = call.symbol.ordinal
        HasName(f) == call.symbol.name # NULL /\ f.name = call.symbol.name
    IN
    /\ call.module # NULL
    /\ imports[i].name = call.module
    /\ \A j \in 1..i-1 : imports[j].name # call.module
    /\ \/ /\ HasOrdinal(functions[k])
          /\ \A l \in 1..k-1 : ~HasOrdinal(functions[l])
       \/ /\ \A l \in DOMAIN functions : ~HasOrdinal(functions[l])
          /\ HasName(functions[k])
          /\ \A l \in 1..k-1 : ~HasName(functions[l])

\* What a sequence of calls leaves in a slot: the address of the last of them
\* that denotes it, or the function that reports the missing import.
LastBound(i, k) ==
    LET binding == {n \in DOMAIN calls : Denotes(calls[n], i, k)} IN
    IF binding = {} THEN "unboundImport"
    ELSE calls[Max(binding)].address

\* However the host's calls of peloader_import follow each other, each slot of
\* the image ends up with the last address bound to it: no call reaches the slot
\* of another function or module, and none that answered 0 is lost.
LastBindWins ==
    Ready => \A i \in DOMAIN slots : \A k \in DOMAIN slots[i] :
                slots[i][k] = LastBound(i, k)

\* An answer of peloader_import is true: 0 if and only if there is such a slot.
ImportAnswers ==
    Ready /\ answer.to = "import" =>
       (answer.code = "zero" <=>
          \E i \in DOMAIN slots : \E k \in DOMAIN slots[i] :
             Denotes(calls[Len(calls)], i, k))

\* No function without a name comes before one with a name.
NamesLead(symbols) ==
    \A j, k \in DOMAIN symbols :
       j < k /\ symbols[k].name # NULL => symbols[j].name # NULL

\* What peloader_modules and peloader_imports list can be bound: handing a
\* listed module and symbol to peloader_import is defined and finds the function
\* listed, or the one before it that is the same. Of a module that has functions
\* without a name before one with a name this is not so.
ListedIsBindable ==
    Ready =>
       \A m \in DOMAIN PeloaderModules :
          LET name == PeloaderModules[m]
              listed == PeloaderImports(name)
          IN  name # NULL /\ NamesLead(listed) =>
                 /\ FindImportModule(name) \in 1..m
                 /\ \A k \in DOMAIN listed :
                       /\ ~ComparesNull(listed, listed[k])
                       /\ Find(listed, listed[k]) \in 1..k
                       /\ listed[Find(listed, listed[k])] = listed[k]

\* A directory with an address for each name, whose ordinal table counts up and
\* whose names differ.
InOrder(dir) ==
    /\ Len(dir.names) <= Len(dir.addresses)
    /\ \A i \in DOMAIN dir.ordinals : dir.ordinals[i] = i - 1
    /\ \A i, j \in DOMAIN dir.names : dir.names[i] = dir.names[j] => i = j

\* The address a PE export directory gives entry j of its name table.
AddressOfName(j) == exportDir.addresses[exportDir.ordinals[j] + 1]

\* In a file whose ordinal table counts up, peloader_export finds every named
\* function, by its name, by its ordinal and by both, whatever ordinals are read
\* behind the end of the table for the functions without a name.
NamedExportsResolve ==
    Ready /\ InOrder(exportDir) =>
       \A j \in DOMAIN exportDir.names, symbol \in SymbolsAsked :
          LET ordinal == exportDir.base + exportDir.ordinals[j] IN
          /\ symbol.name \in {NULL, exportDir.names[j]}
          /\ symbol.ordinal \in {NoOrdinal, ordinal}
          /\ symbol # [name |-> NULL, ordinal |-> NoOrdinal]
          => /\ Find(exports, symbol) # 0
             /\ PeloaderExports[Find(exports, symbol)].address = AddressOfName(j)

\* public/peloader.h: "@param name The name of the address or NULL if absent".
\* A name may be absent, so a call that asks for another name is defined.
LookupsAreDefined == stage = "ready" => process # "undefined"

-----------------------------------------------------------------------------
(* Parsing the tables implements two stages of PeLoader; the calls of the  *)
(* host come after the open.                                               *)

\* The stage of PeLoader, which relocates the image next.
InPeLoader ==
    CASE stage = "ready"  -> "relocate"
      [] stage = "failed" -> "closeFile"
      [] OTHER            -> stage

\* The members that are set when the sections of a path have been read, and
\* those that parseImports and parseExports set.
Parsed ==
    [fileType          |-> "TYPE_FILE",
     fileHandle        |-> "3",
     callback          |-> "nullptr",
     dataDirs          |-> "read",
     sectionCount      |-> "some",
     sections          |-> "own",
     sectionAllocation |-> "nullptr",
     importCount       |-> IF imports # <<>> THEN "some" ELSE "none",
     imports           |-> IF imports # <<>> THEN "own" ELSE "nullptr",
     exportCount       |-> IF exports # <<>> THEN "some" ELSE "none",
     exports           |-> IF exports # <<>> THEN "own" ELSE "nullptr"]

\* The blocks of the two arrays, and of the arrays of the modules.
ImportBlocks ==
    IF imports = <<>> THEN {}
    ELSE IF \E i \in DOMAIN imports : imports[i].functions # <<>>
         THEN {"imports", "functions"} ELSE {"imports"}
ExportBlocks == IF exports = <<>> THEN {} ELSE {"exports"}

\* An array of no elements is as good as none here, though not to the heap.
Loader == INSTANCE PeLoader WITH
    Threads <- {"t"}, PeFiles <- {"f"}, Fds <- {"0", "3"}, Stdin <- "0",
    Requests <- {"path"}, HeapContents <- {"zeroed"}, NULL <- "nullptr",
    fds <- [d \in {"0", "3"} |-> IF d = "0" THEN "host" ELSE "f"],
    heap <- {"f"} \X ({"PeFile", "sections"} \cup ImportBlocks
                      \cup ExportBlocks),
    images <- {"f"},
    pe <- [f \in {"f"} |-> Parsed],
    buffers <- [f \in {"f"} |-> 0],
    created <- {"f"},
    handle <- [t \in {"t"} |-> "nullptr"],
    pc <- [t \in {"t"} |-> InPeLoader],
    file <- [t \in {"t"} |-> "f"],
    request <- [t \in {"t"} |-> "path"],
    code <- [t \in {"t"} |-> IF stage = "failed" THEN "negative" ELSE "none"],
    process <- "running"

\* Parsing the tables of a file does what the two stages of PeLoader say: the
\* imports come before the exports and cannot fail, each array is stored with
\* its count and its blocks or not at all, also when the exports are refused,
\* and no call of the host changes what cleanup will find.
StagesOfPeLoader ==
    [][Loader!ParseImports("t") \/ Loader!ParseExports("t")]_(Loader!vars)
=============================================================================
