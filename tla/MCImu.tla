------------------------------- MODULE MCImu -------------------------------
\* The instance of Imu that TLC checks: two channels, which nothing tells apart.
EXTENDS Imu, TLC

CONSTANTS accel, gyro

MCChannels == {accel, gyro}

Symmetry == Permutations(MCChannels)
=============================================================================
