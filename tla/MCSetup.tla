------------------------------ MODULE MCSetup -------------------------------
(* Setting AreaFlow up: the database's schema, and the projects that are    *)
(* registered in it.  The two do not meet, so a behaviour is of one of them. *)
(* Of the schema there are two builds: the newer one edits core and 000012, *)
(* and the older one does not know the migrations after 000013 yet.         *)
EXTENDS SchemaMigrations, ProjectRegistration, TLC

CONSTANTS older, newer, c1, c2, e1, e2, h0, Plays

VARIABLE play  \* what the behaviour is of

MCHashOf ==
    [b \in {older, newer} |->
        IF b = older
        THEN [m \in Migrations \ {"later"} |->
                CASE m = "core" -> c1 [] m = "exceptions" -> e1 [] OTHER -> h0]
        ELSE [m \in Migrations |->
                CASE m = "core" -> c2 [] m = "exceptions" -> e2 [] OTHER -> h0]]

-----------------------------------------------------------------------------
MCStatusPath == <<"areaflow", "status">>
MCGenerated == {<<"areaflow", "generated">>, <<"areamatrix", "generated">>}
MCAppMetadata == Tree(<<"areamatrix">>)
MCDangerous == {Exactly(<<"*.db">>)}

MCPaths == {MCStatusPath, <<"src">>, <<"areaflow", "generated", "a">>, <<"areaflow", "generated", "b">>,
            <<"areamatrix", "generated", "a">>}

Named(provider, on, secret) ==
    [id |-> "codex-cli", provider |-> provider, enabled |-> on, secret |-> secret]

(* A file that leaves all to the defaults and grants nothing. *)
Bare == [complete |-> TRUE, mode |-> "", owner |-> "", phase |-> "", exported |-> TRUE, status |-> <<>>,
         store |-> FALSE, needs |-> {}, engine |-> "", default |-> "", profiles |-> <<>>,
         granted |-> {}, refused |-> {}, read |-> {}, write |-> {}, forbidden |-> {},
         allowed |-> {}, denied |-> {}]

(* A project that only exports its status. *)
Mirror ==
    [Bare EXCEPT !.granted = {"read_project", "write_artifacts", "write_status"}, !.refused = {"run_commands"},
                 !.needs = {"read_project", "write_artifacts"}, !.store = TRUE,
                 !.write = {Exactly(MCStatusPath)}, !.forbidden = MCDangerous \cup {MCAppMetadata},
                 !.denied = RiskyCommands]

(* One that generates files, and one that runs an engine. *)
Generating ==
    [Mirror EXCEPT !.granted = @ \cup {"write_generated"}, !.forbidden = MCDangerous,
                   !.write = @ \cup {Tree(at) : at \in MCGenerated}]

Running ==
    [Mirror EXCEPT !.granted = @ \cup {"run_commands", "execute_agents"}, !.refused = {},
                   !.allowed = {Command} \cup RiskyCommands, !.read = {Tree(<<"src">>)},
                   !.profiles = <<Named("", TRUE, "")>>]

MCConfigFiles ==
    {[Bare EXCEPT !.complete = FALSE], [Bare EXCEPT !.phase = "later"], [Bare EXCEPT !.exported = FALSE]}
    \cup {[f EXCEPT !.forbidden = @ \cup more] :
            f \in {Mirror, Generating, Running},
            more \in {{}, {Tree(<<>>)}, {Tree(<<"areaflow", "generated", "b">>)}, {Tree(<<"areaflow">>)}}}
    \cup {[Running EXCEPT !.denied = {}], [Running EXCEPT !.profiles = <<Named("other", TRUE, "")>>],
          [Running EXCEPT !.profiles = <<Named("", FALSE, "")>>],
          [Running EXCEPT !.denied = {Command}], [Generating EXCEPT !.granted = @ \ {"write_generated"}]}

-----------------------------------------------------------------------------
MCInit == play \in Plays /\ Init /\ RegistrationInit

MCNext ==
    /\ UNCHANGED play
    /\ \/ play = "schema" /\ Next /\ UNCHANGED registrationVars
       \/ play = "registration" /\ RegistrationNext /\ UNCHANGED vars

MCSpec == MCInit /\ [][MCNext]_<<vars, registrationVars, play>>

SetupSymmetry == Permutations(Procs) \cup Permutations(Registrars)

=============================================================================
