------------------------------- MODULE MCCtrl -------------------------------
(***************************************************************************)
(* Small instances of Ctrl: still, moving, dead and spinning sensors.      *)
(***************************************************************************)
EXTENDS Ctrl

ImuAt(pos, spd) == [accel_x |-> -1, accel_y |-> 0, accel_z |-> 1000, rot_x |-> 2070,
                    rot_y |-> 2070, rot_z |-> 2070, el_pos |-> pos, el_spd |-> spd]
ImuDead     == [accel_x |-> 0, accel_y |-> 0, accel_z |-> 0, rot_x |-> 0,
                rot_y |-> 0, rot_z |-> 0, el_pos |-> 0, el_spd |-> 0]
ImuSpinning == [ImuAt(0, 400) EXCEPT !.rot_z = 2871]

MCEncSamples == {[pos |-> 0, spd |-> 0], [pos |-> 60000, spd |-> 5460]}
MCImuSamples == {ImuDead, ImuAt(0, 0), ImuSpinning}
MCImuMoving  == {ImuAt(0, 0), ImuAt(4000, 400)}
MCImuFailing == {ImuDead, ImuAt(0, 0)}

=============================================================================
