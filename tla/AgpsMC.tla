-------------------------------- MODULE AgpsMC --------------------------------
(***************************************************************************)
(* What the modem asks of the framework through GnssAdapter: data          *)
(* connections (Agps), the user's consent (NiRequests), positions (Odcpi). *)
(* The three share the adapter's thread and nothing else: in a behaviour   *)
(* one of them is used, the others idle.                                   *)
(***************************************************************************)
EXTENDS Agps, NiRequests, Odcpi, TLC

VARIABLE part

allVars == <<part, vars, niVars, odcpiVars>>

MCNotes(types, emergency, override) ==
    [i \in DOMAIN types |->
        [type |-> types[i], emergency |-> emergency, override |-> override]]

MCCase(locked, suplEsNo, cpMtlrEs, leaves, answers, notes) ==
    [locked |-> locked, suplEsNo |-> suplEsNo, cpMtlrEs |-> cpMtlrEs, leaves |-> leaves,
     answers |-> answers, notes |-> notes]

\* Each request under each configuration; two requests, the second of which
\* comes when the first is open or over, or after the client has left; three.
MCCases ==
    {MCCase(FALSE, FALSE, FALSE, FALSE, 0, <<>>)}
    \cup {MCCase(l, s, c, FALSE, 1, MCNotes(<<type>>, e, o)) :
             l, s, c, e, o \in BOOLEAN, type \in {"supl", "es", "cp"}}
    \cup {MCCase(FALSE, TRUE, FALSE, leaves, IF leaves THEN 1 ELSE 2,
                 MCNotes(types, TRUE, FALSE)) :
             leaves \in BOOLEAN, types \in {<<"supl", "supl">>, <<"supl", "es">>, <<"es", "cp">>}}
    \cup {MCCase(FALSE, TRUE, FALSE, FALSE, 1, MCNotes(<<"supl", "es", "supl">>, TRUE, FALSE))}

MCInit ==
    /\ Init /\ NiInit /\ OdcpiInit
    /\ part \in {"agps", "ni", "odcpi"}
    /\ (part = "ni") = (case.notes # <<>>)

MCNext ==
    \/ part = "agps" /\ Next /\ UNCHANGED <<part, niVars, odcpiVars>>
    \/ part = "ni" /\ NiNext /\ UNCHANGED <<part, vars, odcpiVars>>
    \/ part = "odcpi" /\ OdcpiNext /\ UNCHANGED <<part, vars, niVars>>

MCSpec ==
    /\ MCInit /\ [][MCNext]_allVars
    /\ WF_vars(Adapter) /\ WF_vars(agnssStatusCb) /\ WF_vars(Answered)
    /\ NiFairness /\ OdcpiFairness

\* Every request of the modem comes to an end: of a connection, unless its APN
\* was refused, of the user's consent, and of a position.  (Agps!ModemAnswered,
\* NiRequests!NiEnds, Odcpi!OdcpiEnds)
ModemServed == ModemAnswered /\ NiEnds /\ OdcpiEnds
=============================================================================
