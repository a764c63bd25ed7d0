---------------------------- MODULE MCAdmission ----------------------------
(***************************************************************************)
(* The providerSpecs that tell the checks of the webhook apart.            *)
(***************************************************************************)
EXTENDS Admission

Valid == [value |-> TRUE, decodes |-> TRUE, site |-> <<"s1">>,
          tenant |-> <<"t1">>, net |-> "all", choice |-> 1, crowded |-> FALSE,
          uuids |-> TRUE, org |-> <<"o1">>]

Garbage == [Valid EXCEPT !.decodes = FALSE, !.org = None]
Foreign == [Valid EXCEPT !.site = Empty, !.tenant = Empty, !.net = "none",
                         !.choice = 0, !.org = None]

\* Accepted, refused for one reason each, and with a slash in a name.
SpecSample ==
    {Valid, NoSpec, Garbage, Foreign,
     [Valid EXCEPT !.site = <<"s2">>], [Valid EXCEPT !.tenant = <<"t2">>],
     [Valid EXCEPT !.org = <<"o", "p">>],
     [Valid EXCEPT !.choice = 2], [Valid EXCEPT !.tenant = Empty],
     [Valid EXCEPT !.net = "some"], [Valid EXCEPT !.crowded = TRUE],
     [Valid EXCEPT !.site = <<"a", "b">>, !.uuids = FALSE]}

============================================================================
