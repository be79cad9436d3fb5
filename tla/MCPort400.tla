------------------------------ MODULE MCPort400 ------------------------------
(***************************************************************************)
(* The Port-400: the device and its reader, the activation of a card and   *)
(* the ISO-DEP exchanges with it.  A behaviour is of one part.             *)
(***************************************************************************)
EXTENDS Port400Device, IsoDep

CONSTANT Parts

VARIABLES
    part,
    type, step, sel_code, block, uid, config, picc, rates, lost

activationVars == <<type, step, sel_code, block, uid, config, picc, rates, lost>>

-----------------------------------------------------------------------------
\* Readers found with both directions of Type F at one speed or at two.
Speeds(f) == [p \in {"A", "F"} |-> IF p = "A" THEN 2 ELSE f]
MCSpeeds == {Speeds(f) : f \in {3, 9}}
MCAfterwards == {"fixed", "short", "start_rffe", "end_rffe"}

\* Type A cards of one to three cascade levels and Type B cards, by their UID, ATS
\* and Protocol Info.
Activation == INSTANCE Activation WITH
    Uids <- {<<1, 2, 3, 4>>, <<4, 136, 2, 3, 136, 5, 6>>, <<1, 2, 3, 4, 5, 6, 7, 8, 9, 10>>},
    ParamsA <- {<<3, 16, 0>>, <<5, 127, 161, 197, 2>>, <<3, 24, 8>>, <<2, 8>>, <<1>>},
    ParamsB <- {<<0, 80, 0, 0>>, <<161, 80, 0, 176>>, <<9, 128, 1, 0>>},
    MaxFaults <- 1, phase <- step, card <- picc, reader <- rates, faults <- lost

\* A payload of no byte and one of two blocks; answers of two to five blocks, some
\* longer than the driver's buffer.  The caller allows one R(NAK) and one waiting time extension.
Base == [type_a_defaults EXCEPT !.max_try_s_wtx = 1, !.max_retry_r_nak = 0]
MCConfigs ==
    {apply_ats(Base, <<5, 127, 161, 197, 2>>), apply_type_b_protocol_info(Base, <<161, 80, 0, 176>>)}

ASSUME Activation!ActivationAssumption

-----------------------------------------------------------------------------
\* The parts a behaviour is not of rest.
Off == "off"
DeviceRests ==
    /\ alive = FALSE /\ calm = FALSE /\ lives = 0 /\ asked = {} /\ found = Speeds(2)
    /\ world = Fresh([session |-> FALSE, speed |-> found, rf |-> FALSE, short |-> FALSE,
                      cut |-> FALSE, update |-> FALSE], 0)
ActivationRests ==
    /\ type = Off /\ step = Off /\ sel_code = Off /\ block = Off /\ uid = Off /\ config = Off /\ picc = Off
    /\ rates = Off /\ lost = Off
IsoDepRests ==
    /\ session = [tx |-> 0, picc |-> 0, config |-> Base, negotiated |-> FALSE]
    /\ held = "none" /\ protocol = FALSE /\ exchange = NoExchange
    /\ phase = "idle" /\ air = NoBlock /\ reply = NoBlock /\ card = FreshCard /\ outcome = None
    /\ count = 0 /\ faults = 0 /\ clean = FALSE

RunInit ==
    /\ part \in Parts
    /\ IF part = "device" THEN Init ELSE DeviceRests
    /\ IF part = "activation" THEN Activation!Init ELSE ActivationRests
    /\ IF part = "iso_dep" THEN IsoDepInit ELSE IsoDepRests
RunNext ==
    /\ UNCHANGED part
    /\ \/ part = "device" /\ Next /\ UNCHANGED <<activationVars, isoDepVars>>
       \/ part = "activation" /\ Activation!Next /\ UNCHANGED <<vars, isoDepVars>>
       \/ part = "iso_dep" /\ IsoDepNext /\ UNCHANGED <<vars, activationVars>>

\* The fairness of IsoDep.
RunSpec ==
    /\ RunInit /\ [][RunNext]_<<part, vars, activationVars, isoDepVars>>
    /\ WF_isoDepVars(part = "iso_dep" /\ (Driver \/ Card))

-----------------------------------------------------------------------------
\* The properties of Activation and IsoDep, each for its behaviours.

\* A card that answers every frame is found, a reported card has all its cascade levels
\* selected, and a detection that succeeds leaves card and reader at the same rates
\* (perform_type_a_anticollision, PPS, ATTRIB).
CardIsActivated ==
    part = "activation" =>
        Activation!TypeOK /\ Activation!HealthyCardIsFound /\ Activation!ReportedIsSelected /\ Activation!LinkAgrees
==============================================================================
