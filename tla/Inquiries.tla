------------------------------- MODULE Inquiries -------------------------------
(***************************************************************************)
(* How customers and the site reach each other, for one run: the public    *)
(* form (LeadCapture), events that providers push (InboundReceipt) and     *)
(* messages that go out (WhatsAppSend).  A stored inquiry, a processed     *)
(* receipt and a message are rows of their own, and none of the three      *)
(* waits for another, so a behaviour follows one and leaves the others as  *)
(* they began.                                                             *)
(***************************************************************************)
EXTENDS InboundReceipt, WhatsAppSend, LeadCapture

VARIABLE channel   \* what a behaviour follows

inquiryVars == <<vars, messageVars, captureVars, channel>>

InquiriesInit ==
    /\ channel \in {"form", "provider", "message"}
    /\ Init /\ MessageInit /\ CaptureInit
    /\ channel # "provider" => receipt.family = CHOOSE family \in Family : TRUE
    /\ channel # "message" => allowed

InquiriesNext ==
    /\ channel' = channel
    /\ \/ channel = "form" /\ CaptureNext /\ UNCHANGED <<vars, messageVars>>
       \/ channel = "provider" /\ Next /\ UNCHANGED <<messageVars, captureVars>>
       \/ channel = "message" /\ MessageNext /\ UNCHANGED <<vars, captureVars>>

InquiriesSpec ==
    /\ InquiriesInit /\ [][InquiriesNext]_inquiryVars
    /\ ReceiptFairness /\ MessageFairness
=============================================================================
