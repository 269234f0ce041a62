----------------------------- MODULE RtcpReport -----------------------------
(***************************************************************************)
(* A report block of src/rtcp/rtcp_report.c, as operators on the statistics *)
(* of a source. All of them but lost are unsigned words.                   *)
(***************************************************************************)
EXTENDS RtpSequence

(* rtcp_build_rr reports a source that was received since the last report. *)
Heard(st) == st.received # st.received_prior

Expected(st) == (st.cycles + st.max_seq - st.base_seq + 1) % Word

ExpectedInterval(st) == (Expected(st) - st.expected_prior) % Word

LostInterval(st) ==
  (ExpectedInterval(st) - (st.received - st.received_prior)) % Word

(* A word as an int32_t. *)
Signed(w) == IF w >= Word \div 2 THEN w - Word ELSE w

(* Of 24 bits, in the range of an int32_t that Word allows. *)
Clamp(n) == LET top == IF Word \div 2 < 8388607 THEN Word \div 2 ELSE 8388607
            IN  IF n > top THEN top ELSE IF n < - top - 1 THEN - top - 1 ELSE n

(* Faulty variants of Block and Reported; no specification uses them. *)
BlockFromMax(st) ==
  [lost |-> Clamp(Signed((st.max_seq - st.base_seq + 1 - st.received - 1) % Word)),
   fraction |-> 0]
ReportedReceivedOnly(st) == [st EXCEPT !.received_prior = st.received]

(* The unsigned lost_interval is never below 0; its test finds only 0. *)
Block(st) ==
  [lost |-> Clamp(Signed((Expected(st) - st.received - 1) % Word)),
   fraction |-> IF ExpectedInterval(st) = 0 \/ LostInterval(st) = 0 THEN 0
                ELSE (((LostInterval(st) * 256) % Word) \div ExpectedInterval(st)) % 256]

Reported(st) ==
  [st EXCEPT !.expected_prior = Expected(st), !.received_prior = st.received]
=============================================================================
