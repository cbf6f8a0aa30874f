------------------------------- MODULE Dataset -------------------------------
(***************************************************************************)
(* The rows a contract yields.  The registry selects a provider, which     *)
(* looks at the distributions before it generates; generate() fills every  *)
(* field with a value and then resolves the relations one after the other, *)
(* in the order of the contract; the result is checked by                  *)
(* validate_generated_dataset before anybody sees it.                      *)
(*                                                                         *)
(* A contract is                                                           *)
(*   [plan      : record types in insert order (see Planning),             *)
(*    count     : [record type -> rows],                                   *)
(*    dest      : [record type -> table],                                  *)
(*    keys      : [record type -> key_fields],                             *)
(*    spec      : [<<record type, field>> -> [type, draw, listed]],        *)
(*    relations : sequence of [from, to, required],                        *)
(*    unique, nullable : sets of <<record type, field>>]                   *)
(* and a content, what a request asks for, is [contract, seed, class,      *)
(* nulls, picked, oversize]: class is that of the provider; for the cells  *)
(* in nulls the seed draws NULL, for those of a field whose values are     *)
(* listed it picks one of them; oversize says whether the encoded rows     *)
(* exceed bounds.max_bytes.                                                *)
(***************************************************************************)
EXTENDS Integers, SequencesExt

CONSTANTS
    Providers,   \* [class, draws] of each provider, by provider_id
    None

\* A key and a field that may refer; both may be unique, and so be referred to.
Fields == {"id", "ref"}

\* FieldType
Types == {"string", "integer", "number", "boolean", "date", "datetime"}

\* No distribution, or its kind; "normal" stands for "uniform" too, and
\* "constant" for a "choice" and for a "uniform" of one number.
Draws == {"default", "constant", "sequence", "uuid", "normal"}

\* What a "constant" or a "choice" may list is Any: a value of whatever type, or
\* NULL.  Here a type has two values; a text that reads as a date is one where its
\* field is a date's, and a string elsewhere; what is of no type fits no field, as
\* a value of another type.
Listable == (Types \X {1, 2}) \cup {None}

RecordTypes(contract) == DOMAIN contract.count

\* GenerationContract and RecordSpec: no record type is empty, a key is never NULL,
\* what is referred to is unique and of the type of what refers, only an optional
\* relation starts at a nullable field, and the plan inserts every record type once,
\* what is referred to first.  A field may refer to itself.
ValidContract(contract) ==
    /\ contract.plan \in Seq(RecordTypes(contract)) /\ IsInjective(contract.plan)
    /\ Range(contract.plan) = RecordTypes(contract)
    /\ DOMAIN contract.dest = RecordTypes(contract)
    /\ \A t \in RecordTypes(contract) : contract.count[t] \in Nat \ {0}
    /\ contract.spec \in [RecordTypes(contract) \X Fields ->
                            [type : Types, draw : Draws, listed : SUBSET Listable]]
    /\ \A field \in DOMAIN contract.spec :
          contract.spec[field].draw = "constant" <=> contract.spec[field].listed # {}
    /\ contract.relations \in Seq(Range(contract.relations))
    /\ \A t \in RecordTypes(contract) :
          /\ contract.keys[t] # {} /\ contract.keys[t] \subseteq Fields
          /\ \A f \in contract.keys[t] : <<t, f>> \notin contract.nullable
    /\ \A rel \in Range(contract.relations) :
          /\ rel.from \in DOMAIN contract.spec /\ rel.to \in DOMAIN contract.spec
          /\ contract.spec[rel.from].type = contract.spec[rel.to].type
          /\ rel.to \in contract.unique
          /\ rel.required => rel.from \notin contract.nullable
          /\ \E i, j \in DOMAIN contract.plan :
                i <= j /\ contract.plan[i] = rel.to[1] /\ contract.plan[j] = rel.from[1]

-----------------------------------------------------------------------------
(* ProviderRegistry.select *)

Compatible(provider, content) ==
    /\ provider.class = content.class
    /\ \A field \in DOMAIN content.contract.spec :
          content.contract.spec[field].draw \in provider.draws \cup {"default"}

\* The first compatible provider is asked to validate the contract; if it
\* refuses, no other is asked.
Selection(content) ==
    IF \A i \in DOMAIN Providers : ~Compatible(Providers[i], content) THEN "PROVIDER_UNSUPPORTED"
    ELSE IF \E field \in DOMAIN content.contract.spec :
               /\ content.contract.spec[field].draw = "normal"
               /\ content.contract.spec[field].type \notin {"integer", "number"}
         THEN "CONTRACT_INVALID"
    ELSE "ok"

-----------------------------------------------------------------------------
(* generate *)

\* A value is its type and a token: what is listed is returned as it is, and its
\* type need not be that of the field; strings, UUIDs and real numbers depend on
\* seed and cell; what is counted from an offset drawn from a smaller range may
\* be the same for another seed, a sequence is the same for every cell of its
\* index, and rounded numbers may be equal.
Draw(content, t, f, i) ==
    LET spec == content.contract.spec[<<t, f>>]
        own == <<content.seed, t, f, i>>
    IN  CASE spec.draw = "constant" ->
                LET value == content.picked[<<t, f, i>>] IN <<value[1], <<"listed", value[2]>>>>
          [] spec.draw = "sequence" -> <<"integer", <<"nth", i>>>>
          [] spec.draw = "uuid" -> <<"string", own>>
          [] spec.draw = "normal" -> <<spec.type, IF spec.type = "number" THEN own ELSE <<"rounded">>>>
          [] spec.draw = "default" ->
                <<spec.type, CASE spec.type = "string" -> own
                               [] spec.type = "boolean" -> <<"nth", i % 2>>
                               [] OTHER -> <<t, f, i>>>>

\* NULL is drawn of a nullable field, or of one that lists it; what is picked is listed.
ValidContent(content) ==
    /\ ValidContract(content.contract)
    /\ \A cell \in content.nulls :
          \/ <<cell[1], cell[2]>> \in content.contract.nullable
          \/ None \in content.contract.spec[<<cell[1], cell[2]>>].listed
    /\ \A t \in RecordTypes(content.contract), f \in Fields :
          LET spec == content.contract.spec[<<t, f>>]
          IN  \A i \in 1 .. content.contract.count[t] : <<t, f, i>> \notin content.nulls =>
                 /\ spec.draw = "constant" => content.picked[<<t, f, i>>] \in spec.listed \ {None}
                 /\ Draw(content, t, f, i) # None

Values(content) ==
    [t \in RecordTypes(content.contract) |->
        [i \in 1 .. content.contract.count[t] |->
            [f \in Fields |-> IF <<t, f, i>> \in content.nulls THEN None
                              ELSE Draw(content, t, f, i)]]]

\* Fault: one target for all.
ResolveToFirst(dataset, rel) ==
    [dataset EXCEPT ![rel.from[1]] =
        [i \in DOMAIN dataset[rel.from[1]] |->
            [dataset[rel.from[1]][i] EXCEPT
                ![rel.from[2]] = dataset[rel.to[1]][1][rel.to[2]]]]]

\* The rows that refer take the values referred to, as they are now, in turn.
Resolve(dataset, rel) ==
    LET targets == dataset[rel.to[1]]
    IN  [dataset EXCEPT ![rel.from[1]] =
            [i \in DOMAIN dataset[rel.from[1]] |->
                [dataset[rel.from[1]][i] EXCEPT
                    ![rel.from[2]] = targets[((i - 1) % Len(targets)) + 1][rel.to[2]]]]]

Generated(content) == FoldLeft(Resolve, Values(content), content.contract.relations)

-----------------------------------------------------------------------------
(* validate_generated_dataset *)

\* _valid_value: a number may be an integer.
Fits(value, type) == value[1] \in (IF type = "number" THEN {"integer", "number"} ELSE {type})

\* What is checked that a provider may get wrong.
Accepted(contract, dataset) ==
    /\ \A t \in RecordTypes(contract), f \in Fields :
          LET column == [i \in DOMAIN dataset[t] |-> dataset[t][i][f]]
          IN  /\ \A value \in Range(column) :
                    IF value = None THEN <<t, f>> \in contract.nullable
                    ELSE Fits(value, contract.spec[<<t, f>>].type)
              /\ <<t, f>> \in contract.unique =>
                    \A i, j \in DOMAIN column :
                        i # j /\ column[i] = column[j] => column[i] = None
    /\ \A rel \in Range(contract.relations) :
          \A row \in Range(dataset[rel.from[1]]) :
              \/ row[rel.from[2]] = None /\ ~rel.required
              \/ \E target \in Range(dataset[rel.to[1]]) : target[rel.to[2]] = row[rel.from[2]]

\* create_generation up to commit(), for a key that is not used: the policy
\* refuses nothing, and a dataset, or why there is none.
Outcome(content) ==
    IF Selection(content) # "ok" THEN Selection(content)
    ELSE IF ~Accepted(content.contract, Generated(content)) THEN "CONTRACT_INVALID"
    ELSE IF content.oversize THEN "OUTPUT_LIMIT_EXCEEDED"
    ELSE "ok"
=============================================================================
