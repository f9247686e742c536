------------------------------- MODULE Bricklets -------------------------------
(***************************************************************************)
(* The drivers of the four Bricklets the sensors use and of the Brick      *)
(* Daemon, as data.  All their functions have one body: check the device,  *)
(* create a header, send the request and, if they pass a response, unpack  *)
(* what came back.  Requests models that body; here is what each function  *)
(* puts into it, apart from the values it transports.                      *)
(*                                                                         *)
(* For each driver: the function ids of its header file, the payload bytes *)
(* of its response structures, what its create function says of each id    *)
(* in response_expected, and the functions, in the order of the file.      *)
(***************************************************************************)
EXTENDS Naturals

\* A function that unpacks a response, one that passes NULL and 0 instead, and one that
\* does not check the device before
Gets(names) == [name : names, unpacks : {TRUE}, checked : {TRUE}]
Sets(names) == [name : names, unpacks : {FALSE}, checked : {TRUE}]
Unchecked(names, unpacks) == [name : names, unpacks : {unpacks}, checked : {FALSE}]

(***************************************************************************)
(* bricklet_temperature_v2                                                 *)
(***************************************************************************)

TemperatureIds == [
    get_temperature |-> 1, set_temperature_callback_configuration |-> 2,
    get_temperature_callback_configuration |-> 3, set_heater_configuration |-> 5,
    get_heater_configuration |-> 6, get_spitfp_error_count |-> 234,
    set_bootloader_mode |-> 235, get_bootloader_mode |-> 236,
    set_write_firmware_pointer |-> 237, write_firmware |-> 238,
    set_status_led_config |-> 239, get_status_led_config |-> 240,
    get_chip_temperature |-> 242, reset |-> 243, write_uid |-> 248,
    read_uid |-> 249, get_identity |-> 255]

TemperatureResponses == [
    get_temperature |-> 2, get_temperature_callback_configuration |-> 10,
    get_heater_configuration |-> 1, get_spitfp_error_count |-> 16,
    set_bootloader_mode |-> 1, get_bootloader_mode |-> 1, write_firmware |-> 1,
    get_status_led_config |-> 1, get_chip_temperature |-> 2, read_uid |-> 4,
    get_identity |-> 25]

TemperatureExpected == [
    always_true |-> {
        "get_temperature", "get_temperature_callback_configuration",
        "get_heater_configuration", "get_spitfp_error_count", "set_bootloader_mode",
        "get_bootloader_mode", "write_firmware", "get_status_led_config",
        "get_chip_temperature", "read_uid", "get_identity"},
    true |-> {
        "set_temperature_callback_configuration"},
    false |-> {
        "set_heater_configuration", "set_write_firmware_pointer",
        "set_status_led_config", "reset", "write_uid"}]

TemperatureFunctions1 ==
    Gets({"get_temperature", "get_temperature_callback_configuration",
          "get_heater_configuration"})
    \cup Sets({"set_temperature_callback_configuration", "set_heater_configuration"})

TemperatureFunctions2 ==
    Gets({"get_spitfp_error_count", "set_bootloader_mode", "get_bootloader_mode",
          "write_firmware"})
    \cup Sets({"set_write_firmware_pointer"})

TemperatureFunctions3 ==
    Gets({"get_status_led_config", "get_chip_temperature"})
    \cup Sets({"set_status_led_config", "reset", "write_uid"})

TemperatureFunctions4 ==
    Gets({"read_uid"})
    \cup Unchecked({"get_identity"}, TRUE)

Temperature == [
    ids |-> TemperatureIds, responses |-> TemperatureResponses,
    expected |-> TemperatureExpected,
    functions |-> TemperatureFunctions1 \cup TemperatureFunctions2
        \cup TemperatureFunctions3
        \cup TemperatureFunctions4]

(***************************************************************************)
(* bricklet_ambient_light_v3                                               *)
(***************************************************************************)

AmbientLightIds == [
    get_illuminance |-> 1, set_illuminance_callback_configuration |-> 2,
    get_illuminance_callback_configuration |-> 3, set_configuration |-> 5,
    get_configuration |-> 6, get_spitfp_error_count |-> 234,
    set_bootloader_mode |-> 235, get_bootloader_mode |-> 236,
    set_write_firmware_pointer |-> 237, write_firmware |-> 238,
    set_status_led_config |-> 239, get_status_led_config |-> 240,
    get_chip_temperature |-> 242, reset |-> 243, write_uid |-> 248,
    read_uid |-> 249, get_identity |-> 255]

AmbientLightResponses == [
    get_illuminance |-> 4, get_illuminance_callback_configuration |-> 14,
    get_configuration |-> 2, get_spitfp_error_count |-> 16,
    set_bootloader_mode |-> 1, get_bootloader_mode |-> 1, write_firmware |-> 1,
    get_status_led_config |-> 1, get_chip_temperature |-> 2, read_uid |-> 4,
    get_identity |-> 25]

AmbientLightExpected == [
    always_true |-> {
        "get_illuminance", "get_illuminance_callback_configuration",
        "get_configuration", "get_spitfp_error_count", "set_bootloader_mode",
        "get_bootloader_mode", "write_firmware", "get_status_led_config",
        "get_chip_temperature", "read_uid", "get_identity"},
    true |-> {
        "set_illuminance_callback_configuration"},
    false |-> {
        "set_configuration", "set_write_firmware_pointer", "set_status_led_config",
        "reset", "write_uid"}]

AmbientLightFunctions1 ==
    Gets({"get_illuminance", "get_illuminance_callback_configuration", "get_configuration"})
    \cup Sets({"set_illuminance_callback_configuration", "set_configuration"})

AmbientLightFunctions2 ==
    Gets({"get_spitfp_error_count", "set_bootloader_mode", "get_bootloader_mode",
          "write_firmware"})
    \cup Sets({"set_write_firmware_pointer"})

AmbientLightFunctions3 ==
    Gets({"get_status_led_config", "get_chip_temperature"})
    \cup Sets({"set_status_led_config", "reset", "write_uid"})

AmbientLightFunctions4 ==
    Gets({"read_uid"})
    \cup Unchecked({"get_identity"}, TRUE)

AmbientLight == [
    ids |-> AmbientLightIds, responses |-> AmbientLightResponses,
    expected |-> AmbientLightExpected,
    functions |-> AmbientLightFunctions1 \cup AmbientLightFunctions2
        \cup AmbientLightFunctions3
        \cup AmbientLightFunctions4]

(***************************************************************************)
(* bricklet_humidity_v2                                                    *)
(***************************************************************************)

HumidityIds == [
    get_humidity |-> 1, set_humidity_callback_configuration |-> 2,
    get_humidity_callback_configuration |-> 3, get_temperature |-> 5,
    set_temperature_callback_configuration |-> 6,
    get_temperature_callback_configuration |-> 7, set_heater_configuration |-> 9,
    get_heater_configuration |-> 10, set_moving_average_configuration |-> 11,
    get_moving_average_configuration |-> 12, set_samples_per_second |-> 13,
    get_samples_per_second |-> 14, get_spitfp_error_count |-> 234,
    set_bootloader_mode |-> 235, get_bootloader_mode |-> 236,
    set_write_firmware_pointer |-> 237, write_firmware |-> 238,
    set_status_led_config |-> 239, get_status_led_config |-> 240,
    get_chip_temperature |-> 242, reset |-> 243, write_uid |-> 248,
    read_uid |-> 249, get_identity |-> 255]

HumidityResponses == [
    get_humidity |-> 2, get_humidity_callback_configuration |-> 10,
    get_temperature |-> 2, get_temperature_callback_configuration |-> 10,
    get_heater_configuration |-> 1, get_moving_average_configuration |-> 4,
    get_samples_per_second |-> 1, get_spitfp_error_count |-> 16,
    set_bootloader_mode |-> 1, get_bootloader_mode |-> 1, write_firmware |-> 1,
    get_status_led_config |-> 1, get_chip_temperature |-> 2, read_uid |-> 4,
    get_identity |-> 25]

HumidityExpected == [
    always_true |-> {
        "get_humidity", "get_humidity_callback_configuration", "get_temperature",
        "get_temperature_callback_configuration", "get_heater_configuration",
        "get_moving_average_configuration", "get_samples_per_second",
        "get_spitfp_error_count", "set_bootloader_mode", "get_bootloader_mode",
        "write_firmware", "get_status_led_config", "get_chip_temperature", "read_uid",
        "get_identity"},
    true |-> {
        "set_humidity_callback_configuration", "set_temperature_callback_configuration"},
    false |-> {
        "set_heater_configuration", "set_moving_average_configuration",
        "set_samples_per_second", "set_write_firmware_pointer", "set_status_led_config",
        "reset", "write_uid"}]

HumidityFunctions1 ==
    Gets({"get_humidity", "get_humidity_callback_configuration", "get_temperature"})
    \cup Sets({"set_humidity_callback_configuration", "set_temperature_callback_configuration"})

HumidityFunctions2 ==
    Gets({"get_temperature_callback_configuration", "get_heater_configuration",
          "get_moving_average_configuration"})
    \cup Sets({"set_heater_configuration", "set_moving_average_configuration"})

HumidityFunctions3 ==
    Gets({"get_samples_per_second", "get_spitfp_error_count", "set_bootloader_mode",
          "get_bootloader_mode"})
    \cup Sets({"set_samples_per_second"})

HumidityFunctions4 ==
    Gets({"write_firmware", "get_status_led_config", "get_chip_temperature"})
    \cup Sets({"set_write_firmware_pointer", "set_status_led_config"})

HumidityFunctions5 ==
    Gets({"read_uid"})
    \cup Sets({"reset", "write_uid"})
    \cup Unchecked({"get_identity"}, TRUE)

Humidity == [
    ids |-> HumidityIds, responses |-> HumidityResponses,
    expected |-> HumidityExpected,
    functions |-> HumidityFunctions1 \cup HumidityFunctions2
        \cup HumidityFunctions3
        \cup HumidityFunctions4 \cup HumidityFunctions5]

(***************************************************************************)
(* bricklet_industrial_ptc                                                 *)
(***************************************************************************)

IndustrialPtcIds == [
    get_temperature |-> 1, set_temperature_callback_configuration |-> 2,
    get_temperature_callback_configuration |-> 3, get_resistance |-> 5,
    set_resistance_callback_configuration |-> 6,
    get_resistance_callback_configuration |-> 7, set_noise_rejection_filter |-> 9,
    get_noise_rejection_filter |-> 10, is_sensor_connected |-> 11,
    set_wire_mode |-> 12, get_wire_mode |-> 13,
    set_moving_average_configuration |-> 14,
    get_moving_average_configuration |-> 15,
    set_sensor_connected_callback_configuration |-> 16,
    get_sensor_connected_callback_configuration |-> 17,
    get_spitfp_error_count |-> 234, set_bootloader_mode |-> 235,
    get_bootloader_mode |-> 236, set_write_firmware_pointer |-> 237,
    write_firmware |-> 238, set_status_led_config |-> 239,
    get_status_led_config |-> 240, get_chip_temperature |-> 242, reset |-> 243,
    write_uid |-> 248, read_uid |-> 249, get_identity |-> 255]

IndustrialPtcResponses == [
    get_temperature |-> 4, get_temperature_callback_configuration |-> 14,
    get_resistance |-> 4, get_resistance_callback_configuration |-> 14,
    get_noise_rejection_filter |-> 1, is_sensor_connected |-> 1,
    get_wire_mode |-> 1, get_moving_average_configuration |-> 4,
    get_sensor_connected_callback_configuration |-> 1,
    get_spitfp_error_count |-> 16, set_bootloader_mode |-> 1,
    get_bootloader_mode |-> 1, write_firmware |-> 1, get_status_led_config |-> 1,
    get_chip_temperature |-> 2, read_uid |-> 4, get_identity |-> 25]

IndustrialPtcExpected == [
    always_true |-> {
        "get_temperature", "get_temperature_callback_configuration", "get_resistance",
        "get_resistance_callback_configuration", "get_noise_rejection_filter",
        "is_sensor_connected", "get_wire_mode", "get_moving_average_configuration",
        "get_sensor_connected_callback_configuration", "get_spitfp_error_count",
        "set_bootloader_mode", "get_bootloader_mode", "write_firmware",
        "get_status_led_config", "get_chip_temperature", "read_uid", "get_identity"},
    true |-> {
        "set_temperature_callback_configuration",
        "set_resistance_callback_configuration",
        "set_sensor_connected_callback_configuration"},
    false |-> {
        "set_noise_rejection_filter", "set_wire_mode",
        "set_moving_average_configuration", "set_write_firmware_pointer",
        "set_status_led_config", "reset", "write_uid"}]

IndustrialPtcFunctions1 ==
    Gets({"get_temperature", "get_temperature_callback_configuration", "get_resistance"})
    \cup Sets({"set_temperature_callback_configuration",
          "set_resistance_callback_configuration"})

IndustrialPtcFunctions2 ==
    Gets({"get_resistance_callback_configuration", "get_noise_rejection_filter",
          "is_sensor_connected"})
    \cup Sets({"set_noise_rejection_filter", "set_wire_mode"})

IndustrialPtcFunctions3 ==
    Gets({"get_wire_mode", "get_moving_average_configuration",
          "get_sensor_connected_callback_configuration"})
    \cup Sets({"set_moving_average_configuration",
          "set_sensor_connected_callback_configuration"})

IndustrialPtcFunctions4 ==
    Gets({"get_spitfp_error_count", "set_bootloader_mode", "get_bootloader_mode",
          "write_firmware"})
    \cup Sets({"set_write_firmware_pointer"})

IndustrialPtcFunctions5 ==
    Gets({"get_status_led_config", "get_chip_temperature"})
    \cup Sets({"set_status_led_config", "reset", "write_uid"})

IndustrialPtcFunctions6 ==
    Gets({"read_uid"})
    \cup Unchecked({"get_identity"}, TRUE)

IndustrialPtc == [
    ids |-> IndustrialPtcIds, responses |-> IndustrialPtcResponses,
    expected |-> IndustrialPtcExpected,
    functions |-> IndustrialPtcFunctions1 \cup IndustrialPtcFunctions2
        \cup IndustrialPtcFunctions3
        \cup IndustrialPtcFunctions4 \cup IndustrialPtcFunctions5 \cup IndustrialPtcFunctions6]

(***************************************************************************)
(* The Brick Daemon itself, which has no identity to check                 *)
(***************************************************************************)

BrickDaemonIds == [get_authentication_nonce |-> 1, authenticate |-> 2]

BrickDaemonExpected == [
    always_true |-> {"get_authentication_nonce"},
    true |-> {"authenticate"},
    false |-> {}]

BrickDaemonFunctions ==
    Unchecked({"get_authentication_nonce"}, TRUE) \cup Unchecked({"authenticate"}, FALSE)

BrickDaemon == [
    ids |-> BrickDaemonIds, responses |-> [get_authentication_nonce |-> 4],
    expected |-> BrickDaemonExpected, functions |-> BrickDaemonFunctions]

--------------------------------------------------------------------------------

Drivers == {Temperature, AmbientLight, Humidity, IndustrialPtc, BrickDaemon}

\* What response_expected holds for a function id once the device is created: everything
\* is "invalid" before the driver's create function sets some of it
FlagOf(driver, id) ==
    LET set(kind) == \E name \in driver.expected[kind] : driver.ids[name] = id
    IN  IF set("always_true") THEN "always_true"
        ELSE IF set("true") THEN "true"
        ELSE IF set("false") THEN "false" ELSE "invalid"

\* What matters of a function to Requests: its flag, the flag of get_identity, the payload
\* of the response it unpacks (0 if it unpacks none), and whether it checks the device
CallOf(driver, function) ==
    [flag |-> FlagOf(driver, driver.ids[function.name]),
     identity |-> FlagOf(driver, 255),
     payload |-> IF function.unpacks THEN driver.responses[function.name] ELSE 0,
     checked |-> function.checked]

AllCalls == UNION {{CallOf(driver, function) : function \in driver.functions} :
                   driver \in Drivers}

================================================================================
