---------------------------- MODULE Environment ----------------------------
(***************************************************************************)
(* The effective environment (environment.rs): one account, the Expert     *)
(* Packs of a binding and the Home layer of its project are merged with    *)
(* the Skill Registry into the manifest that the projection of module      *)
(* Projection puts on the disk.  All of it is a function of the files the  *)
(* caller names, so this module has operators only.                        *)
(*                                                                         *)
(* The id of a Skill is a number in the order of the texts; ids that       *)
(* differ in their case only have one Name.  A file is a record of what is *)
(* asked of it; a context footprint is its total.  What is asked of the    *)
(* form of ids, labels and paths is one field, valid.                      *)
(***************************************************************************)
EXTENDS Integers, Sequences, SequencesExt, FiniteSets, FiniteSetsExt

CONSTANTS
    None,            \* an absent optional field
    MaxTokens,       \* most tokens of a footprint (50 million)
    MaxCount,        \* the largest number a counter holds; sums stay there
    Digest(_)        \* a number for the seed of a manifest

Name(id) == id \div 2

Saturated(n) == IF n > MaxCount THEN MaxCount ELSE n

----------------------------------------------------------------------------
\* The validation of the parts.

DistinctNames(requirements) ==
    \A m, n \in DOMAIN requirements :
        Name(requirements[m].skill) = Name(requirements[n].skill) => m = n

ValidPack(pack) ==
    /\ pack.valid
    /\ DistinctNames(pack.skills)
    /\ \A file \in pack.files : ~file.sensitive
    /\ pack.context <= MaxTokens

\* ProjectHomeLayer::validate: its files stay inside of the project.
ValidLayer(layer) ==
    /\ DistinctNames(layer.skills)
    /\ \A file \in layer.files : ~file.sensitive /\ file.inProject
    /\ layer.context <= MaxTokens

ValidBinding(binding) ==
    /\ binding.valid
    /\ binding.layer # None => ValidLayer(binding.layer)

ValidRegistry(registry) ==
    /\ registry.valid
    /\ DistinctNames([n \in DOMAIN registry.skills |-> [skill |-> registry.skills[n].id]])

----------------------------------------------------------------------------
\* EnvironmentResolver::resolve, of inputs: the binding, the accounts, the packs
\* and the registry.

FirstOf(entries, places) == IF places = {} THEN None ELSE entries[Min(places)]

\* packs_by_id keeps the last of several packs with one id.
LastOf(entries, places) == IF places = {} THEN None ELSE entries[Max(places)]

AccountOf(inputs) ==
    FirstOf(inputs.accounts,
            {n \in DOMAIN inputs.accounts : inputs.accounts[n].id = inputs.binding.account})

PackOf(inputs, id) ==
    LastOf(inputs.packs, {n \in DOMAIN inputs.packs : inputs.packs[n].id = id})

SelectedPacks(inputs) == [n \in DOMAIN inputs.binding.packs |-> PackOf(inputs, inputs.binding.packs[n])]

\* The layers in the order they are merged.
Layers(inputs) ==
    SelectedPacks(inputs) \o (IF inputs.binding.layer = None THEN <<>>
                              ELSE <<inputs.binding.layer>>)

Isolation(inputs) ==
    IF \/ inputs.binding.isolation = "hard"
       \/ \E n \in DOMAIN SelectedPacks(inputs) : SelectedPacks(inputs)[n].hard
    THEN "hard" ELSE "shared"

\* What the layers ask for; a layer does not ask for a Skill twice.
Requirements(inputs) == UNION {ToSet(Layers(inputs)[n].skills) : n \in DOMAIN Layers(inputs)}

\* Mutant: the last layer that asks for a Skill decides whether it is required.
Requested_LastWins(inputs) ==
    LET asks(n, id) == {asked \in ToSet(Layers(inputs)[n].skills) : asked.skill = id}
        last(id)    == Max({n \in DOMAIN Layers(inputs) : asks(n, id) # {}})
    IN  [id \in {asked.skill : asked \in Requirements(inputs)} |->
            \E asked \in asks(last(id), id) : asked.required]

\* merge_requirements: by the id as it is written; required once is required.
Requested(inputs) ==
    [id \in {asked.skill : asked \in Requirements(inputs)} |->
        \E asked \in Requirements(inputs) : asked.skill = id /\ asked.required]

\* SkillRegistry::resolve: whatever the case.
Registered(registry, id) ==
    FirstOf(registry.skills,
            {n \in DOMAIN registry.skills : Name(registry.skills[n].id) = Name(id)})

Found(inputs) == {id \in DOMAIN Requested(inputs) : Registered(inputs.registry, id) # None}

\* A map is walked in the order of its ids.
Sorted(ids) ==
    [n \in 1..Cardinality(ids) |->
        CHOOSE id \in ids : Cardinality({other \in ids : other < id}) = n - 1]

TotalContext(inputs) ==
    LET layers == [n \in DOMAIN Layers(inputs) |-> Layers(inputs)[n].context]
        skills == [n \in 1..Cardinality(Found(inputs)) |->
                    Registered(inputs.registry, Sorted(Found(inputs))[n]).tokens]
        add(a, b) == Saturated(a + b)
    IN  FoldLeft(add, 0, layers \o skills)

Resolvable(inputs) ==
    /\ ValidBinding(inputs.binding) /\ ValidRegistry(inputs.registry)
    /\ AccountOf(inputs) # None /\ AccountOf(inputs).valid
    /\ \A n \in DOMAIN inputs.binding.packs :
            SelectedPacks(inputs)[n] # None /\ ValidPack(SelectedPacks(inputs)[n])
    /\ \A id \in DOMAIN Requested(inputs) \ Found(inputs) : ~Requested(inputs)[id]
    /\ TotalContext(inputs) <= MaxTokens

\* The registry is in the seed with its revision only.
ManifestId(inputs) ==
    Digest(<<inputs.binding, AccountOf(inputs), SelectedPacks(inputs),
             inputs.registry.revision, Isolation(inputs)>>)

\* Where the projection of a manifest may write.
ManagedRoot(inputs) ==
    IF Isolation(inputs) = "hard" THEN <<"runtime", ManifestId(inputs)>>
    ELSE <<"project", inputs.binding.project>>

Resolve(inputs) ==
    LET ids      == Sorted(Found(inputs))
        skill(n) == Registered(inputs.registry, ids[n])
    IN  [id        |-> ManifestId(inputs),
         account   |-> AccountOf(inputs),
         isolation |-> Isolation(inputs),
         root      |-> ManagedRoot(inputs),
         files     |-> UNION {Layers(inputs)[n].files : n \in DOMAIN Layers(inputs)},
         context   |-> TotalContext(inputs),
         skills    |-> [n \in DOMAIN ids |->
                            [id       |-> skill(n).id,
                             source   |-> skill(n).source,
                             target   |-> <<ManagedRoot(inputs), "skills", skill(n).id>>,
                             digest   |-> skill(n).digest,
                             required |-> Requested(inputs)[ids[n]]]]]
=============================================================================
