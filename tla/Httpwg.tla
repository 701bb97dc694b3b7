------------------------------- MODULE Httpwg -------------------------------
(***************************************************************************)
(* The httpwg conformance suite (httpwg/src) run against the server: the   *)
(* client half of the suite, Conn, as the steps of a script, and its tests *)
(* as scripts.  A behaviour is one test run to its verdict, after which    *)
(* the client hangs up.                                                    *)
(*                                                                         *)
(* Sizes are scaled: DefaultFrame stands for 16384, DefaultWindow for      *)
(* 65535, MaxWindow for 2^31 - 1 and MaxHeaderLen for 4000.  Timeouts are  *)
(* infinite: a test that would time out waits for ever.                    *)
(***************************************************************************)
EXTENDS H2Serve

CONSTANTS
    MaxHeaderLen   \* Config::max_header_len

VARIABLES
    test,      \* the test that runs
    step,      \* the step of its script it is at
    verdict    \* "running", "passed", "failed", or "broken" (a write failed)

testVars == <<test, step, verdict>>

-----------------------------------------------------------------------------
(* Field blocks: Headers and the Conn methods that build them.             *)

prepend(hs, f) == <<f>> \o hs
remove(hs, name) == SelectSeq(hs, LAMBDA f : f.name # name)
replace(hs, f) == Append(remove(hs, f.name), f)

common_headers(method) ==
    << Field(":method", method), Field(":scheme", "http"), Field(":path", "/"),
       Field(":authority", "localhost") >>

IsDummy(f) == f.name = "x-dummy"
dummy_headers(n) == [i \in 1 .. n |-> Field("x-dummy", "x")]

\* The length of an encoded block: one unit per field, but the dummy ones.
BlockLen(hs) == Len(hs) + (MaxHeaderLen - 1) * Len(SelectSeq(hs, IsDummy))

-----------------------------------------------------------------------------
(* The methods of Conn, as sequences of steps.                             *)

Step == [op |-> "write", frame |-> Preface, tolerant |-> FALSE, codes |-> {},
         sid |-> 0, arg |-> 0]

write_frame(f) == << [Step EXCEPT !.frame = f] >>
Wait(op) == << [Step EXCEPT !.op = op] >>
WaitCodes(op, codes) == << [Step EXCEPT !.op = op, !.codes = codes] >>
WaitStream(op, s) == << [Step EXCEPT !.op = op, !.sid = s] >>

\* `_ = conn.write_...`: the test goes on when the write fails.
Try(steps) == [i \in DOMAIN steps |-> [steps[i] EXCEPT !.tolerant = TRUE]]

write_settings(pairs) == write_frame(Frame("Settings", {}, 0, 6 * Len(pairs), pairs))
write_ping(ack, pay) == write_frame(Frame("Ping", ack, 0, 8, <<pay>>))
write_priority(s, dep, len) ==
    write_frame([Frame("Priority", {}, s, len, <<>>) EXCEPT !.dep = dep])
write_rst_stream(s, len) == write_frame(Frame("RstStream", {}, s, len, <<repr("Cancel")>>))
write_window_update(s, n) == write_frame(Frame("WindowUpdate", {}, s, 4, <<n>>))
write_data(s, flags, n) == write_frame(Frame("Data", flags, s, n, <<>>))
write_headers(s, flags, hs) == write_frame(Frame("Headers", flags, s, BlockLen(hs), hs))
write_continuation(s, flags, hs) ==
    write_frame(Frame("Continuation", flags, s, BlockLen(hs), hs))
write_goaway(s) == write_frame(Frame("GoAway", {}, s, 8, <<0, 255>>))

ES == {EndStream}
EH == {EndHeaders}
send_empty_post_to_root(s) == write_headers(s, ES \cup EH, common_headers("POST"))

verify_connection_error(codes) == WaitCodes("connection error", codes)
verify_stream_error(codes) == WaitCodes("stream error", codes)
verify_connection_close == Wait("connection close")
verify_stream_close(s) == WaitStream("stream close", s)
verify_headers_frame(s) == WaitStream("headers", s)
verify_settings_frame_with_ack == Wait("settings ack")
verify_ping_frame_with_ack(pay) == << [Step EXCEPT !.op = "ping ack", !.arg = pay] >>
verify_status(status) == << [Step EXCEPT !.op = "status", !.arg = status] >>
verify_data(n) == << [Step EXCEPT !.op = "data", !.arg = n] >>

default_settings ==
    << <<Setting.InitialWindowSize, DefaultWindow + 1>>, <<Setting.MaxFrameSize, DefaultFrame>> >>

handshake ==
    write_frame(Preface) \o write_settings(default_settings) \o Wait("settings")
      \o write_frame(Frame("Settings", {Ack}, 0, 0, <<>>)) \o verify_settings_frame_with_ack

verify_connection_still_alive ==
    write_ping({}, "pingpong") \o verify_ping_frame_with_ack("pingpong")
write_and_ack_settings(pairs) == write_settings(pairs) \o verify_settings_frame_with_ack
send_req_and_expect_status(hs, status) == write_headers(1, EH \cup ES, hs) \o verify_status(status)
send_req_and_expect_stream_rst(hs) ==
    write_headers(1, EH \cup ES, hs) \o verify_stream_error({"ProtocolError"})

Protocol == {"ProtocolError"}
FrameSize == {"FrameSizeError"}
Closed == {"StreamClosed"}

-----------------------------------------------------------------------------
(* wait_for_frame and the verify_ methods, one frame at a time.            *)

\* The frame types a step waits for; it skips the others.
Awaits(op) ==
    CASE op \in {"settings", "settings ack"} -> {"Settings"}
      [] op = "ping ack" -> {"Ping"}
      [] op \in {"connection error", "connection close"} -> {"GoAway"}
      [] op = "stream error" -> {"GoAway", "RstStream"}
      [] op = "stream close" -> {"Data", "Headers", "RstStream"}
      [] op \in {"headers", "status"} -> {"Headers"}
      [] op = "data" -> {"Data"}

\* The error code a GOAWAY or RST_STREAM frame carries.
CodeOf(f) == KnownErrorCode(IF f.type = "GoAway" THEN f.pay[2] ELSE f.pay[1])

\* A frame the step awaits is what the test asked for.
Accepts(st, f) ==
    CASE st.op = "settings" -> ~is_ack(f)
      [] st.op = "settings ack" -> is_ack(f)
      [] st.op = "ping ack" -> is_ack(f) /\ f.pay[1] = st.arg
      [] st.op \in {"connection error", "stream error"} -> CodeOf(f) \in st.codes
      [] st.op = "connection close" -> TRUE
      [] st.op = "stream close" ->
            f.sid = st.sid /\ (f.type = "RstStream" => CodeOf(f) = "NoError")
      [] st.op = "headers" -> f.sid = st.sid
      [] st.op = "status" ->
            /\ is_end_headers(f)
            /\ \A i \in DOMAIN f.pay : IsPseudo(f.pay[i]) => f.pay[i].name = ":status"
            /\ First(f.pay, ":status").value = st.arg
      [] st.op = "data" -> f.len = st.arg

\* verify_stream_close waits for the frame that ends the stream.
Skips(st, f) ==
    \/ f.type \notin Awaits(st.op)
    \/ st.op = "stream close" /\ f.type # "RstStream" /\ ~is_end_stream(f)

\* The checks that are content with the connection being closed.
EofIsFine(op) == op \in {"connection error", "connection close", "stream error", "stream close"}

-----------------------------------------------------------------------------
(* Section 3: Starting HTTP/2                                              *)

sends_client_connection_preface ==
    write_frame(Preface) \o write_settings(default_settings) \o Wait("settings")
sends_invalid_connection_preface ==
    write_frame(NotPreface) \o verify_connection_error(Protocol)

Section3 == <<sends_client_connection_preface, sends_invalid_connection_preface>>

-----------------------------------------------------------------------------
(* Section 4: HTTP Frames                                                  *)

POST == common_headers("POST")

sends_frame_with_unknown_type ==
    handshake \o write_frame(UnknownFrame(255, {}, 0, 8)) \o verify_connection_still_alive
sends_frame_with_unused_flags ==
    handshake \o write_frame([UnknownFrame(6, {2, 4, 8}, 0, 8) EXCEPT !.pay = <<"x">>])
      \o verify_ping_frame_with_ack("x")
sends_frame_with_reserved_bit_set ==
    handshake \o write_frame([Frame("Ping", {}, 0, 8, <<"x">>) EXCEPT !.res = 1])
      \o verify_ping_frame_with_ack("x")
data_frame_with_max_length ==
    handshake \o write_headers(1, EH, POST) \o write_data(1, ES, DefaultFrame)
      \o verify_headers_frame(1)
frame_exceeding_max_size ==
    handshake \o write_headers(1, EH, POST) \o Try(write_data(1, ES, DefaultFrame + 1))
      \o verify_stream_error(FrameSize)
large_headers_frame_exceeding_max_size ==
    handshake \o Try(write_headers(1, EH, POST \o dummy_headers(5)))
      \o verify_connection_error(FrameSize)
invalid_header_block_fragment ==
    handshake \o write_headers(1, ES \cup EH, <<Flawed("?", "hpack")>>)
      \o verify_connection_error({"CompressionError"})
priority_frame_while_sending_headers ==
    handshake \o write_headers(1, EH, POST) \o write_priority(1, 0, 5)
      \o Try(write_continuation(1, EH, dummy_headers(1))) \o verify_connection_error(Protocol)
headers_frame_to_another_stream ==
    handshake \o write_headers(1, {}, POST) \o write_headers(3, EH, POST)
      \o Try(write_continuation(1, EH, dummy_headers(1))) \o verify_connection_error(Protocol)

Section4 ==
    <<sends_frame_with_unknown_type, sends_frame_with_unused_flags,
      sends_frame_with_reserved_bit_set, data_frame_with_max_length,
      frame_exceeding_max_size, large_headers_frame_exceeding_max_size,
      invalid_header_block_fragment, priority_frame_while_sending_headers,
      headers_frame_to_another_stream>>

-----------------------------------------------------------------------------
(* Section 5: Streams and Multiplexing                                     *)

idle_sends_data_frame ==
    handshake \o write_data(1, ES, 4) \o verify_stream_error(Protocol \cup Closed)
idle_sends_rst_stream_frame ==
    handshake \o write_rst_stream(1, 4) \o verify_connection_error(Protocol)
idle_sends_window_update_frame ==
    handshake \o write_window_update(1, 10) \o verify_connection_error(Protocol)
idle_sends_continuation_frame ==
    handshake \o write_continuation(1, EH, POST) \o verify_connection_error(Protocol)
half_closed_remote_sends_data_frame ==
    handshake \o send_empty_post_to_root(1) \o write_data(1, ES, 4)
      \o verify_stream_error(Closed)
half_closed_remote_sends_headers_frame ==
    handshake \o send_empty_post_to_root(1) \o send_empty_post_to_root(1)
      \o verify_stream_error(Closed)
half_closed_remote_sends_continuation_frame ==
    handshake \o send_empty_post_to_root(1) \o write_continuation(1, EH, dummy_headers(1))
      \o verify_stream_error(Closed \cup Protocol)
closed_sends_data_frame_after_rst_stream ==
    handshake \o write_headers(1, EH, POST) \o write_rst_stream(1, 4) \o write_data(1, ES, 4)
      \o verify_stream_error(Closed)
closed_sends_headers_frame_after_rst_stream ==
    handshake \o write_headers(1, EH, POST) \o write_rst_stream(1, 4)
      \o send_empty_post_to_root(1) \o verify_stream_error(Closed)
closed_sends_continuation_frame_after_rst_stream ==
    handshake \o write_headers(1, EH, POST) \o write_rst_stream(1, 4)
      \o write_continuation(1, EH, dummy_headers(1)) \o verify_stream_error(Closed \cup Protocol)
closed_sends_data_frame ==
    handshake \o send_empty_post_to_root(1) \o verify_stream_close(1) \o write_data(1, ES, 4)
      \o verify_stream_error(Closed)
closed_sends_headers_frame ==
    handshake \o send_empty_post_to_root(1) \o verify_stream_close(1)
      \o send_empty_post_to_root(1) \o verify_connection_error(Closed)
closed_sends_continuation_frame ==
    handshake \o send_empty_post_to_root(1) \o verify_stream_close(1)
      \o write_continuation(1, EH, dummy_headers(1))
      \o verify_connection_error(Closed \cup Protocol)
sends_even_numbered_stream_identifier ==
    handshake \o send_empty_post_to_root(2) \o verify_connection_error(Protocol)
sends_smaller_stream_identifier ==
    handshake \o send_empty_post_to_root(5) \o send_empty_post_to_root(3)
      \o verify_connection_error(Protocol)
\* As many requests as MaxConcurrent, which is 2 here, and one more.
exceeds_concurrent_stream_limit ==
    handshake \o write_settings(<< <<Setting.InitialWindowSize, 0>> >>)
      \o send_empty_post_to_root(1) \o send_empty_post_to_root(3) \o send_empty_post_to_root(5)
      \o verify_stream_error(Protocol \cup {"RefusedStream"})
invalid_ping_frame_for_connection_close ==
    handshake \o write_frame(Frame("Ping", {}, 3, 8, <<"x">>)) \o verify_connection_close
test_invalid_ping_frame_for_goaway ==
    handshake \o write_frame(Frame("Ping", {}, 3, 8, <<"x">>)) \o verify_connection_error(Protocol)
unknown_extension_frame_in_header_block ==
    handshake \o write_headers(1, ES, POST) \o write_frame(UnknownFrame(255, {}, 1, 8))
      \o verify_connection_error(Protocol)

Section5 ==
    <<idle_sends_data_frame, idle_sends_rst_stream_frame, idle_sends_window_update_frame,
      idle_sends_continuation_frame, half_closed_remote_sends_data_frame,
      half_closed_remote_sends_headers_frame, half_closed_remote_sends_continuation_frame,
      closed_sends_data_frame_after_rst_stream, closed_sends_headers_frame_after_rst_stream,
      closed_sends_continuation_frame_after_rst_stream, closed_sends_data_frame,
      closed_sends_headers_frame, closed_sends_continuation_frame,
      sends_even_numbered_stream_identifier, sends_smaller_stream_identifier,
      exceeds_concurrent_stream_limit, invalid_ping_frame_for_connection_close,
      test_invalid_ping_frame_for_goaway, unknown_extension_frame_in_header_block>>

-----------------------------------------------------------------------------
(* Section 6: Frame Definitions                                            *)

PadTo(f, pad) == write_frame([f EXCEPT !.pad = pad])
Window(n) == << <<Setting.InitialWindowSize, n>> >>
Dummy == dummy_headers(1)

sends_data_frame_with_zero_stream_id ==
    handshake \o write_data(0, ES, 4) \o verify_connection_error(Protocol)
sends_data_frame_on_invalid_stream_state ==
    handshake \o write_headers(1, ES \cup EH, POST) \o write_data(1, ES, 4)
      \o verify_stream_error(Closed)
sends_data_frame_with_invalid_pad_length ==
    handshake \o write_headers(1, EH, Append(POST, Field("content-length", 4)))
      \o PadTo(Frame("Data", {EndStream, Padded}, 1, 5, <<>>), 6)
      \o verify_connection_error(Protocol)
sends_headers_frame_with_zero_stream_id ==
    handshake \o write_headers(0, ES \cup EH, POST) \o verify_connection_error(Protocol)
sends_headers_frame_with_invalid_pad_length ==
    handshake
      \o PadTo(Frame("Headers", {Padded, EndHeaders, EndStream}, 1, BlockLen(POST) + 1, POST),
               BlockLen(POST) + 2)
      \o verify_connection_error(Protocol)
sends_priority_frame_with_zero_stream_id ==
    handshake \o write_priority(0, 0, 5) \o verify_connection_error(Protocol)
sends_priority_frame_with_invalid_length ==
    handshake \o write_headers(1, ES \cup EH, POST) \o write_priority(1, 0, 4)
      \o verify_stream_error(FrameSize)
sends_rst_stream_frame_with_zero_stream_id ==
    handshake \o write_rst_stream(0, 4) \o verify_connection_error(Protocol)
sends_rst_stream_frame_on_idle_stream ==
    handshake \o write_rst_stream(1, 4) \o verify_connection_error(Protocol)
sends_rst_stream_frame_with_invalid_length ==
    handshake \o write_headers(1, ES \cup EH, POST) \o write_rst_stream(1, 3)
      \o verify_stream_error(FrameSize)
sends_settings_frame_with_ack_and_payload ==
    handshake \o write_frame(Frame("Settings", {Ack}, 0, 1, <<>>))
      \o verify_connection_error(FrameSize)
sends_settings_frame_with_non_zero_stream_id ==
    handshake \o write_frame(Frame("Settings", {}, 1, 6, << <<Setting.MaxConcurrentStreams, 9>> >>))
      \o verify_connection_error(Protocol)
sends_settings_frame_with_invalid_length ==
    handshake \o write_frame(Frame("Settings", {}, 0, 3, <<>>))
      \o verify_connection_error(FrameSize)
sends_settings_enable_push_with_invalid_value ==
    handshake \o write_settings(<< <<Setting.EnablePush, 2>> >>)
      \o verify_connection_error(Protocol)
sends_settings_initial_window_size_with_invalid_value ==
    handshake \o write_settings(Window(MaxWindow + 1))
      \o verify_connection_error({"FlowControlError"})
sends_settings_max_frame_size_with_invalid_value_below_initial ==
    handshake \o write_settings(<< <<Setting.MaxFrameSize, DefaultFrame - 1>> >>)
      \o verify_connection_error(Protocol)
sends_settings_max_frame_size_with_invalid_value_above_max ==
    handshake \o write_settings(<< <<Setting.MaxFrameSize, MaxWindow>> >>)
      \o verify_connection_error(Protocol)
sends_settings_frame_with_unknown_identifier ==
    handshake \o write_settings(<< <<255, 0>> >>) \o verify_connection_still_alive
sends_multiple_values_of_settings_initial_window_size ==
    handshake \o write_settings(Window(10) \o Window(1)) \o verify_settings_frame_with_ack
      \o write_headers(1, ES \cup EH, POST) \o verify_data(1)
sends_settings_frame_without_ack_flag ==
    handshake \o write_settings(<< <<Setting.EnablePush, 0>> >>)
      \o verify_settings_frame_with_ack
sends_ping_frame ==
    handshake \o write_ping({}, "h2spec") \o verify_ping_frame_with_ack("h2spec")
sends_ping_frame_with_ack ==
    handshake \o write_ping({Ack}, "invalid") \o write_ping({}, "h2spec")
      \o verify_ping_frame_with_ack("h2spec")
sends_ping_frame_with_non_zero_stream_id ==
    handshake \o write_frame(Frame("Ping", {}, 1, 8, <<"x">>)) \o verify_connection_error(Protocol)
sends_ping_frame_with_invalid_length ==
    handshake \o write_frame(Frame("Ping", {}, 0, 6, <<"x">>)) \o verify_connection_error(FrameSize)
sends_goaway_frame_with_non_zero_stream_id ==
    handshake \o write_goaway(1) \o verify_connection_error(Protocol)
sends_window_update_frame_with_zero_increment ==
    handshake \o write_window_update(0, 0) \o verify_connection_error(Protocol)
sends_window_update_frame_with_zero_increment_on_stream ==
    handshake \o write_headers(1, EH, Append(POST, Field(":method", "POST")))
      \o write_window_update(1, 0) \o verify_stream_error(Protocol)
sends_window_update_frame_with_invalid_length ==
    handshake \o write_frame(Frame("WindowUpdate", {}, 0, 3, <<1>>))
      \o verify_connection_error(FrameSize)
sends_settings_frame_to_set_initial_window_size_to_1_and_sends_headers_frame ==
    handshake \o write_and_ack_settings(Window(1)) \o write_headers(1, ES \cup EH, POST)
      \o verify_data(1)
sends_multiple_window_update_frames_increasing_flow_control_window_above_max ==
    handshake \o write_window_update(0, MaxWindow) \o write_window_update(0, MaxWindow)
      \o verify_connection_error({"FlowControlError"})
sends_multiple_window_update_frames_increasing_flow_control_window_above_max_on_stream ==
    handshake \o write_headers(1, EH, POST) \o write_window_update(1, MaxWindow)
      \o Try(write_window_update(1, MaxWindow)) \o verify_stream_error({"FlowControlError"})
changes_settings_initial_window_size_after_sending_headers_frame ==
    handshake \o write_and_ack_settings(Window(0)) \o write_headers(1, ES \cup EH, POST)
      \o write_settings(Window(1)) \o verify_data(1)
sends_settings_frame_for_window_size_to_be_negative ==
    handshake \o write_and_ack_settings(Window(3)) \o send_empty_post_to_root(1)
      \o verify_data(3) \o write_and_ack_settings(Window(2)) \o write_window_update(1, 2)
      \o verify_data(1)
sends_settings_initial_window_size_with_exceeded_max_window_size_value ==
    handshake \o write_settings(Window(MaxWindow + 1))
      \o verify_connection_error({"FlowControlError"})
sends_multiple_continuation_frames_preceded_by_headers_frame ==
    handshake \o write_headers(1, ES, POST) \o write_continuation(1, {}, Dummy)
      \o write_continuation(1, EH, Dummy) \o verify_headers_frame(1)
sends_continuation_frame_followed_by_non_continuation_frame ==
    handshake \o write_headers(1, ES, POST) \o write_continuation(1, {}, Dummy)
      \o write_data(1, ES, 4) \o verify_connection_error(Protocol)
sends_continuation_frame_with_zero_stream_id ==
    handshake \o write_headers(1, ES, POST) \o write_continuation(0, EH, Dummy)
      \o verify_connection_error(Protocol)
sends_continuation_frame_preceded_by_headers_frame_with_end_headers_flag ==
    handshake \o write_headers(1, ES \cup EH, POST) \o write_continuation(1, EH, Dummy)
      \o verify_connection_error(Protocol)
sends_continuation_frame_preceded_by_continuation_frame_with_end_headers_flag ==
    handshake \o write_headers(1, ES, POST) \o write_continuation(1, EH, Dummy)
      \o write_continuation(1, EH, Dummy) \o verify_connection_error(Protocol)
sends_continuation_frame_preceded_by_data_frame ==
    handshake \o write_headers(1, ES, POST) \o write_data(1, ES, 4)
      \o Try(write_continuation(1, {}, Dummy)) \o verify_connection_error(Protocol)

Section6 ==
    <<sends_data_frame_with_zero_stream_id, sends_data_frame_on_invalid_stream_state,
      sends_data_frame_with_invalid_pad_length, sends_headers_frame_with_zero_stream_id,
      sends_headers_frame_with_invalid_pad_length, sends_priority_frame_with_zero_stream_id,
      sends_priority_frame_with_invalid_length, sends_rst_stream_frame_with_zero_stream_id,
      sends_rst_stream_frame_on_idle_stream, sends_rst_stream_frame_with_invalid_length,
      sends_settings_frame_with_ack_and_payload, sends_settings_frame_with_non_zero_stream_id,
      sends_settings_frame_with_invalid_length, sends_settings_enable_push_with_invalid_value,
      sends_settings_initial_window_size_with_invalid_value,
      sends_settings_max_frame_size_with_invalid_value_below_initial,
      sends_settings_max_frame_size_with_invalid_value_above_max,
      sends_settings_frame_with_unknown_identifier,
      sends_multiple_values_of_settings_initial_window_size,
      sends_settings_frame_without_ack_flag, sends_ping_frame, sends_ping_frame_with_ack,
      sends_ping_frame_with_non_zero_stream_id, sends_ping_frame_with_invalid_length,
      sends_goaway_frame_with_non_zero_stream_id,
      sends_window_update_frame_with_zero_increment,
      sends_window_update_frame_with_zero_increment_on_stream,
      sends_window_update_frame_with_invalid_length,
      sends_settings_frame_to_set_initial_window_size_to_1_and_sends_headers_frame,
      sends_multiple_window_update_frames_increasing_flow_control_window_above_max,
      sends_multiple_window_update_frames_increasing_flow_control_window_above_max_on_stream,
      changes_settings_initial_window_size_after_sending_headers_frame,
      sends_settings_frame_for_window_size_to_be_negative,
      sends_settings_initial_window_size_with_exceeded_max_window_size_value,
      sends_multiple_continuation_frames_preceded_by_headers_frame,
      sends_continuation_frame_followed_by_non_continuation_frame,
      sends_continuation_frame_with_zero_stream_id,
      sends_continuation_frame_preceded_by_headers_frame_with_end_headers_flag,
      sends_continuation_frame_preceded_by_continuation_frame_with_end_headers_flag,
      sends_continuation_frame_preceded_by_data_frame>>

-----------------------------------------------------------------------------
(* Section 7: Error Codes                                                  *)

sends_goaway_frame_with_unknown_error_code ==
    handshake \o write_goaway(0) \o verify_connection_still_alive
sends_rst_stream_frame_with_unknown_error_code ==
    handshake \o write_headers(1, EH, POST)
      \o write_frame(Frame("RstStream", {}, 1, 4, <<255>>)) \o verify_connection_still_alive

Section7 ==
    <<sends_goaway_frame_with_unknown_error_code, sends_rst_stream_frame_with_unknown_error_code>>

-----------------------------------------------------------------------------
(* Section 8: Expressing HTTP Semantics in HTTP/2                          *)

sends_second_headers_frame_without_end_stream ==
    handshake \o write_headers(1, EH, POST) \o write_data(1, {}, 4)
      \o write_headers(1, EH, <<Field("x-test", "ok")>>) \o verify_stream_error(Protocol)
sends_headers_frame_with_incorrect_content_length_single_data_frame ==
    handshake \o write_headers(1, EH, Append(POST, Field("content-length", 10)))
      \o write_data(1, ES, 4) \o verify_stream_error(Protocol)
sends_headers_frame_with_incorrect_content_length_multiple_data_frames ==
    handshake \o write_headers(1, EH, Append(POST, Field("content-length", 10)))
      \o write_data(1, {}, 2) \o write_data(1, {}, 2) \o write_data(1, ES, 3)
      \o verify_stream_error(Protocol)

\* A POST request with one more field.
PostWith(f) == handshake \o send_req_and_expect_stream_rst(Append(POST, f))

sends_headers_frame_with_uppercase_field_name == PostWith(Flawed("UPPERCASE", "upper"))
sends_headers_frame_with_space_in_field_name == PostWith(Flawed("space force", "name"))
sends_headers_frame_with_non_visible_ascii == PostWith(Flawed("0x01 invalid", "name"))
sends_headers_frame_with_del_character == PostWith(Flawed("0x7f invalid", "name"))
sends_headers_frame_with_non_ascii_character == PostWith(Flawed("0xe1 invalid", "name"))
sends_headers_frame_with_colon_in_field_name == PostWith(Flawed("invalid:field", "name"))
sends_headers_frame_with_lf_in_field_value == PostWith(Flawed("invalid-value", "control"))
sends_headers_frame_with_cr_in_field_value == PostWith(Flawed("invalid-value", "control"))
sends_headers_frame_with_nul_in_field_value == PostWith(Flawed("invalid-value", "control"))
sends_headers_frame_with_leading_space_in_field_value == PostWith(Flawed("invalid-value", "edge"))
sends_headers_frame_with_trailing_tab_in_field_value == PostWith(Flawed("invalid-value", "edge"))
sends_headers_frame_with_connection_header == PostWith(Field("connection", "keep-alive"))
sends_headers_frame_with_proxy_connection_header ==
    PostWith(Field("proxy-connection", "keep-alive"))
sends_headers_frame_with_keep_alive_header == PostWith(Field("keep-alive", "timeout=5"))
sends_headers_frame_with_transfer_encoding_header ==
    PostWith(Field("transfer-encoding", "chunked"))
sends_headers_frame_with_upgrade_header == PostWith(Field("upgrade", "h2c"))
sends_headers_frame_with_te_trailers ==
    handshake \o send_req_and_expect_status(Append(POST, Field("te", "trailers")), "200")
sends_headers_frame_with_te_not_trailers == PostWith(Field("te", "not-trailers"))
sends_headers_frame_with_response_pseudo_header == PostWith(Field(":status", "200"))
sends_headers_frame_with_pseudo_header_in_trailer ==
    handshake \o write_headers(1, EH, POST) \o write_data(1, {}, 4)
      \o write_headers(1, EH \cup ES, <<Field(":method", "POST")>>)
      \o verify_stream_error(Protocol)
sends_headers_frame_with_duplicate_pseudo_headers ==
    LET method == Field(":method", "POST")
    IN  handshake \o send_req_and_expect_stream_rst(prepend(prepend(POST, method), method))
sends_headers_frame_with_mismatched_host_authority ==
    handshake \o send_req_and_expect_stream_rst(
                   Append(replace(POST, Field(":authority", "localhost")),
                          Field("host", "localhost.different")))
sends_headers_frame_with_empty_path_component ==
    handshake \o send_req_and_expect_stream_rst(replace(POST, Field(":path", "")))
sends_headers_frame_without_method ==
    handshake \o send_req_and_expect_stream_rst(remove(POST, ":method"))
sends_headers_frame_without_scheme ==
    handshake \o send_req_and_expect_stream_rst(remove(POST, ":scheme"))
sends_headers_frame_without_path ==
    handshake \o send_req_and_expect_stream_rst(remove(POST, ":path"))
sends_headers_frame_without_status ==
    handshake \o write_headers(1, ES \cup EH, POST) \o verify_status("200")
client_sends_push_promise_frame ==
    handshake \o write_frame(Frame("PushPromise", {}, 1, 5, <<Field(":status", "200")>>))
      \o verify_connection_error(Protocol)

CONNECT == << Field(":method", "CONNECT") >>
Authority == << Field(":authority", "example.com") >>

sends_connect_with_scheme ==
    handshake \o send_req_and_expect_stream_rst(CONNECT \o <<Field(":scheme", "https")>> \o Authority)
sends_connect_with_path ==
    handshake \o send_req_and_expect_stream_rst(CONNECT \o <<Field(":path", "/")>> \o Authority)
sends_connect_without_authority == handshake \o send_req_and_expect_stream_rst(CONNECT)
sends_headers_frame_with_pseudo_headers_after_regular_headers ==
    handshake \o send_req_and_expect_stream_rst(
                   << Field(":method", "POST"), Field(":path", "/"),
                      Field("content-type", "application/json") >> \o Authority)

Section8 ==
    <<sends_second_headers_frame_without_end_stream,
      sends_headers_frame_with_incorrect_content_length_single_data_frame,
      sends_headers_frame_with_incorrect_content_length_multiple_data_frames,
      sends_headers_frame_with_uppercase_field_name, sends_headers_frame_with_space_in_field_name,
      sends_headers_frame_with_non_visible_ascii, sends_headers_frame_with_del_character,
      sends_headers_frame_with_non_ascii_character, sends_headers_frame_with_colon_in_field_name,
      sends_headers_frame_with_lf_in_field_value, sends_headers_frame_with_cr_in_field_value,
      sends_headers_frame_with_nul_in_field_value,
      sends_headers_frame_with_leading_space_in_field_value,
      sends_headers_frame_with_trailing_tab_in_field_value,
      sends_headers_frame_with_connection_header,
      sends_headers_frame_with_proxy_connection_header,
      sends_headers_frame_with_keep_alive_header,
      sends_headers_frame_with_transfer_encoding_header,
      sends_headers_frame_with_upgrade_header, sends_headers_frame_with_te_trailers,
      sends_headers_frame_with_te_not_trailers, sends_headers_frame_with_response_pseudo_header,
      sends_headers_frame_with_pseudo_header_in_trailer,
      sends_headers_frame_with_duplicate_pseudo_headers,
      sends_headers_frame_with_mismatched_host_authority,
      sends_headers_frame_with_empty_path_component, sends_headers_frame_without_method,
      sends_headers_frame_without_scheme, sends_headers_frame_without_path,
      sends_headers_frame_without_status, client_sends_push_promise_frame,
      sends_connect_with_scheme, sends_connect_with_path, sends_connect_without_authority,
      sends_headers_frame_with_pseudo_headers_after_regular_headers>>

-----------------------------------------------------------------------------
(* Scripts of our own, in the same terms, for what the suite does not      *)
(* exercise of the server.                                                 *)

headers_depending_on_themselves ==
    handshake \o write_frame([Frame("Headers", {EndHeaders, EndStream, PriorityFlag}, 1,
                                    BlockLen(POST) + 5, POST) EXCEPT !.dep = 1])
      \o verify_connection_error(Protocol)
priority_depending_on_itself ==
    handshake \o write_priority(1, 1, 5) \o verify_connection_error(Protocol)
priority_of_another_stream ==
    handshake \o write_priority(3, 1, 5) \o verify_connection_still_alive
request_with_trailers ==
    handshake \o write_headers(1, EH, Append(POST, Field("content-length", 4)))
      \o write_data(1, {}, 4) \o write_headers(1, ES, <<Field("x-test", "ok")>>)
      \o write_continuation(1, EH, Dummy) \o verify_status("200")
trailers_before_the_body_is_complete ==
    handshake \o write_headers(1, EH, Append(POST, Field("content-length", 4)))
      \o write_data(1, {}, 3) \o write_headers(1, EH \cup ES, <<Field("x-test", "ok")>>)
      \o verify_stream_error(Protocol)
trailers_that_cannot_be_decoded ==
    handshake \o write_headers(1, EH, POST)
      \o write_headers(1, EH \cup ES, <<Flawed("?", "hpack")>>)
      \o verify_connection_error({"CompressionError"})
connect_with_authority ==
    handshake \o send_req_and_expect_status(CONNECT \o Authority, "error")
request_without_authority ==
    handshake \o send_req_and_expect_status(remove(POST, ":authority"), "error")
refused_stream_with_continuation ==
    handshake \o write_and_ack_settings(Window(0)) \o send_empty_post_to_root(1)
      \o send_empty_post_to_root(3) \o write_headers(5, ES, POST)
      \o write_continuation(5, EH, Dummy) \o verify_stream_error({"RefusedStream"})
      \o verify_connection_still_alive
padded_frame_without_padding ==
    handshake \o write_frame(Frame("Data", {Padded}, 1, 0, <<>>))
      \o verify_connection_error(FrameSize)
padded_request_body ==
    handshake \o write_headers(1, EH, Append(POST, Field("content-length", 4)))
      \o PadTo(Frame("Data", {EndStream, Padded}, 1, 8, <<>>), 3) \o verify_status("200")
body_over_the_window ==
    handshake \o write_headers(1, EH, POST) \o write_data(1, {}, DefaultFrame)
      \o write_data(1, {}, DefaultFrame) \o verify_connection_error({"FlowControlError"})
settings_overflow_a_stream ==
    handshake \o write_headers(1, EH, POST) \o write_window_update(1, MaxWindow - DefaultWindow - 1)
      \o write_settings(Window(DefaultWindow + 2)) \o verify_connection_error({"FlowControlError"})
\* Without a window the server holds back even the response header.
window_opened_again ==
    handshake \o write_and_ack_settings(Window(0)) \o send_empty_post_to_root(1)
      \o write_window_update(1, 2) \o verify_headers_frame(1) \o verify_data(2)
      \o write_window_update(0, 2) \o write_window_update(1, 20) \o verify_stream_close(1)
\* Nothing is asked after the reset: it may end the process loop in a panic
\* (H2Conn, PendingIsOutgoing).
request_taken_back ==
    handshake \o send_empty_post_to_root(1) \o write_rst_stream(1, 4)
two_requests_at_once ==
    handshake \o send_empty_post_to_root(1) \o send_empty_post_to_root(3)
      \o verify_data(BodyLen) \o verify_connection_still_alive
block_cut_short_by_an_oversized_frame ==
    handshake \o write_headers(1, {}, POST) \o Try(write_data(1, ES, DefaultFrame + 1))
      \o verify_connection_close
hang_up_within_a_block == handshake \o write_headers(1, {}, POST)
early_hang_up == write_frame(Preface)
no_preface == <<>>

Beyond ==
    <<headers_depending_on_themselves, priority_depending_on_itself, priority_of_another_stream,
      request_with_trailers, trailers_before_the_body_is_complete,
      trailers_that_cannot_be_decoded, connect_with_authority, request_without_authority,
      refused_stream_with_continuation, padded_frame_without_padding, padded_request_body,
      body_over_the_window, settings_overflow_a_stream, window_opened_again,
      request_taken_back, two_requests_at_once,
      block_cut_short_by_an_oversized_frame, hang_up_within_a_block, early_hang_up, no_preface>>

Suite == Section3 \o Section4 \o Section5 \o Section6 \o Section7 \o Section8 \o Beyond

\* The tests are sequences of steps, and StreamIds has the streams they
\* write to.
ASSUME SuiteAssumption ==
    \A t \in DOMAIN Suite :
        /\ Len(Suite[t]) \in Nat
        /\ \A i \in 1 .. Len(Suite[t]) : Suite[t][i].frame.sid \in StreamIds \cup {0}

-----------------------------------------------------------------------------
(* Running a test.                                                         *)

Script == Suite[test]
Running == verdict = "running" /\ step <= Len(Script)
Reading == Running /\ Script[step].op # "write"

TestInit == ServeInit /\ test \in DOMAIN Suite /\ step = 1 /\ verdict = "running"

\* Conn::send: it fails once the server has let go of the connection.
SendFrame ==
    /\ Running /\ Script[step].op = "write"
    /\ IF phase # "closed"
         THEN /\ toServer' = Append(toServer, Script[step].frame)
              /\ step' = step + 1 /\ UNCHANGED verdict
         ELSE /\ IF Script[step].tolerant
                   THEN step' = step + 1 /\ UNCHANGED verdict
                   ELSE verdict' = "broken" /\ UNCHANGED step
              /\ UNCHANGED toServer
    /\ UNCHANGED <<vars, toClient, hungUp, phase, deframe, chan, block, opened, incoming,
                   failed, goaway, test>>

\* wait_for_frame: the next frame is skipped, or settles the step.
ReceiveFrame ==
    LET st == Script[step]
        f == parse(Head(toClient))
    IN  /\ Reading /\ toClient # <<>>
        /\ toClient' = Tail(toClient)
        /\ IF Skips(st, f) THEN UNCHANGED <<step, verdict>>
           ELSE IF Accepts(st, f) THEN step' = step + 1 /\ UNCHANGED verdict
           ELSE verdict' = "failed" /\ UNCHANGED step
        /\ UNCHANGED <<vars, toServer, hungUp, phase, deframe, chan, block, opened,
                       incoming, failed, goaway, test>>

\* Ev::Eof
ReceiveEof ==
    /\ Reading /\ toClient = <<>> /\ phase = "closed"
    /\ IF EofIsFine(Script[step].op)
         THEN step' = step + 1 /\ UNCHANGED verdict
         ELSE verdict' = "failed" /\ UNCHANGED step
    /\ UNCHANGED <<allVars, test>>

\* The test returns, and the connection is dropped with it.
HangUp ==
    /\ ~hungUp
    /\ verdict # "running" \/ step > Len(Script)
    /\ verdict' = IF verdict = "running" THEN "passed" ELSE verdict
    /\ hungUp' = TRUE
    /\ toClient' = <<>>
    /\ UNCHANGED <<vars, toServer, phase, deframe, chan, block, opened, incoming, failed,
                   goaway, test, step>>

RunTest == SendFrame \/ ReceiveFrame \/ ReceiveEof \/ HangUp

Serves == Server /\ UNCHANGED testVars

TestNext == RunTest \/ Serves

\* Each task is polled again whenever it can go on; so is the test.
TestFairness ==
    /\ WF_<<allVars, testVars>>(RunTest)
    /\ WF_<<allVars, testVars>>(Deframer /\ UNCHANGED testVars)
    /\ WF_<<allVars, testVars>>(ProcessLoop /\ UNCHANGED testVars)
    /\ WF_<<allVars, testVars>>(Work /\ UNCHANGED testVars)
    /\ \A s \in StreamIds : WF_<<allVars, testVars>>(Handle(s) /\ UNCHANGED testVars)

TestSpec == TestInit /\ [][TestNext]_<<allVars, testVars>> /\ TestFairness

-----------------------------------------------------------------------------
(* Properties                                                              *)

\* Whatever the interleaving of the client, the deframer, the process loop
\* and the handlers, every check of every test holds on what the server sends.
\* A test can only be cut short by a write that fails because the server has
\* already ended the connection the way the test was about to ask for.
Conforms ==
    /\ verdict # "failed"
    /\ verdict = "broken" => goaway # <<>>

\* No test is left waiting: each frame or close it waits for comes.
TestsFinish == <>(verdict # "running")
=============================================================================
