------------------------- MODULE DevelopmentControl -------------------------
(* The progress report of the development control center. The service reads
   four JSON files that people edit, refuses what breaks its invariants, and
   adds up weights. What it must not do is to pass a file whose capabilities
   are lost or counted twice further down, where nothing is checked again.   *)
EXTENDS Integers, Sequences, Functions, NoRecord

CONSTANTS
    Capabilities,   \* ids
    Modules,        \* ids, those of the file and others
    MaxWeight,
    MaxCapabilities, MaxModules     \* bounds of the model on the files

ASSUME DevelopmentControlAssumption == MaxWeight \in Nat

VARIABLES capabilities, modules, currentPhaseExists, overview

devVars == <<capabilities, modules, currentPhaseExists, overview>>

IMPLEMENTED_STATES == {"IMPLEMENTED", "VALIDATION", "HOMOLOGATED", "FROZEN"}
HOMOLOGATED_STATES == {"HOMOLOGATED", "FROZEN"}

Entry == [id : Capabilities, module : Modules, weight : 0..MaxWeight, mvp : BOOLEAN,
          status : {"PLANNED", "VALIDATION", "FROZEN"}, dependency : Capabilities \cup {None}]

All == DOMAIN capabilities

Weight(indices) == SumFunctionOnSet([i \in All |-> capabilities[i].weight], indices)

InStates(indices, states) == {i \in indices : capabilities[i].status \in states}
OfModule(m) == {i \in All : capabilities[i].module = m}

Breakdown(indices) ==
    [total       |-> Weight(indices),
     implemented |-> Weight(InStates(indices, IMPLEMENTED_STATES)),
     homologated |-> Weight(InStates(indices, HOMOLOGATED_STATES))]

\* mutant: the sum of the modules is not compared with the total
ModulesNotSummed == \A i \in All : capabilities[i].module \in {modules[n] : n \in DOMAIN modules}

\* Invariants B and G
ModulesCover ==
    /\ \A i \in All : capabilities[i].module \in {modules[n] : n \in DOMAIN modules}
    /\ SumFunction([n \in DOMAIN modules |-> Weight(OfModule(modules[n]))]) = Weight(All)

\* P, A, D, O, and B with G; C is checked like B, E and F follow from the rest
ValidateInvariants ==
    /\ currentPhaseExists
    /\ \A i, j \in All : capabilities[i].id = capabilities[j].id => i = j
    /\ \A i \in All : capabilities[i].weight > 0
    /\ \A i \in All : capabilities[i].dependency # None =>
         \E j \in All : capabilities[j].id = capabilities[i].dependency
    /\ ModulesCover

\* A module without capabilities is FROZEN, as all of none are
ModuleStatus(m) ==
    LET states == {capabilities[i].status : i \in OfModule(m)}
    IN IF states \subseteq {"FROZEN"} THEN "FROZEN"
       ELSE IF states \subseteq HOMOLOGATED_STATES THEN "HOMOLOGATED"
       ELSE IF "VALIDATION" \in states THEN "VALIDATION"
       ELSE IF states \cap IMPLEMENTED_STATES # {} THEN "IMPLEMENTED"
       ELSE "PLANNED"

Report ==
    [full    |-> Breakdown(All),
     mvp     |-> Breakdown({i \in All : capabilities[i].mvp}),
     modules |-> [n \in DOMAIN modules |->
                    [sums |-> Breakdown(OfModule(modules[n])),
                     status |-> ModuleStatus(modules[n])]],
     pending |-> {i \in All : capabilities[i].mvp} \ InStates(All, HOMOLOGATED_STATES),
     backlog |-> {i \in All : ~ capabilities[i].mvp} \ InStates(All, HOMOLOGATED_STATES)]

GetOverview ==
    /\ overview' = IF ValidateInvariants THEN Report ELSE None
    /\ UNCHANGED <<capabilities, modules, currentPhaseExists>>

\* The files are edited by people
EditFiles ==
    /\ \/ /\ Len(capabilities) < MaxCapabilities
          /\ \E e \in Entry : capabilities' = Append(capabilities, e)
          /\ UNCHANGED modules
       \/ /\ Len(modules) < MaxModules
          /\ \E m \in Modules : modules' = Append(modules, m)
          /\ UNCHANGED capabilities
    /\ currentPhaseExists' \in BOOLEAN
    /\ overview' = None

DevInit ==
    /\ capabilities = <<>> /\ modules = <<>>
    /\ currentPhaseExists \in BOOLEAN
    /\ overview = None

DevNext == GetOverview \/ EditFiles

-----------------------------------------------------------------------------
\* A report that is shown counts every capability once, in every way it counts:
\* the modules add up to the roadmap in what is planned, implemented and
\* homologated, the MVP is part of it, and each capability that is not
\* homologated is on one of the two lists of what is left. A module listed
\* twice, or a capability of an unlisted one, makes the report fail instead.
OverviewAddsUp ==
    overview # None =>
        LET Sum(field) == SumFunction([n \in DOMAIN modules |-> overview.modules[n].sums[field]])
        IN /\ \A field \in {"total", "implemented", "homologated"} :
                /\ Sum(field) = overview.full[field]
                /\ overview.mvp[field] =< overview.full[field]
           /\ overview.full.homologated + Weight(overview.pending) + Weight(overview.backlog)
                = overview.full.total
=============================================================================
