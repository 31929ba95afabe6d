\* Two forms, two logins, a logout and two verifications of one phone number.
SPECIFICATION Spec
CONSTANTS
  in1 = in1  in2 = in2  form1 = form1  form2 = form2
  out1 = out1  check1 = check1  check2 = check2
  phone1 = phone1  phone2 = phone2  None = None
  Logins = {in1, in2}
  Forms = {form1, form2}
  Logouts = {out1}
  Verifies = {check1, check2}
  Devices = {phone1, phone2}
  Device <- TwoDevices
  MaxFaults = 2
SYMMETRY Checks
INVARIANTS TypeOK OneAccountOneEvent TokenNamesAccount SessionsNeedCodes OverIsOver SessionIsWhole
CHECK_DEADLOCK FALSE
