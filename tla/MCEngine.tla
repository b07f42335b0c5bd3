------------------------------ MODULE MCEngine ------------------------------
(***************************************************************************)
(* Four modules that between them have every trait the engine looks at:    *)
(* whatsapp (active, messenger with a photo), truecaller (active), spam    *)
(* (passive tier, has RunPassive), image_intelligence (active, second      *)
(* pass).                                                                  *)
(***************************************************************************)
EXTENDS Engine

WhatsApp == 1
Tags == 2
SpamModule == 3
Images == 4

MCN == 4
MCActiveTier == {WhatsApp, Tags, Images}
MCPassiveCapable == {SpamModule}
MCPostMessenger == {Images}
MCMessenger == {WhatsApp}
MCTruecaller == {Tags}
MCSpam == {SpamModule}

Flags(passive, active, explicit, key) ==
  [passive |-> passive, active |-> active,
   explicit |-> explicit, tineyeKey |-> key]

\* No flags; --active; --modules naming one or two active modules; each with
\* and without --passive; and one command line with no TinEye key.
MCOptions ==
  {Flags(p, FALSE, e, TRUE) :
     p \in BOOLEAN, e \in {{}, {Images}, {WhatsApp, Images}}}
    \cup {Flags(p, TRUE, {}, TRUE) : p \in BOOLEAN}
    \cup {Flags(FALSE, TRUE, {}, FALSE)}
=============================================================================
